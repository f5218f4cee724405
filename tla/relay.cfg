SPECIFICATION Spec
CONSTANTS
  BuffSize = 2
  PipeSize = 2
  TypedLength = 3
  Keys = {"a", "CR", "^C", "^D"}
  ShellBytes = {"x", "y", "EOT"}
  ExitStatuses = {3}
  ShellOutput = 2
INVARIANTS TypeOK KeysReachShell ReadsDoNotBlock OutputInOrder OneExitReport
PROPERTIES EofEndsProgram
CHECK_DEADLOCK FALSE
