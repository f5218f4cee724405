SPECIFICATION MCSpec
CONSTANTS
  BuffSize = 2
  DecompSize = 2
  PipeSize = 2
  Keys = {"a", "CR", "^C", "^D"}
  Typed <- MCTyped
  Exchanged = 3
  ShellBytes = {"x", "y", "EOT"}
  ExitStatuses = {3}
  ShellOutput = 3
  Compress = {TRUE, FALSE}
INVARIANTS KeysReachShell AllSentIsShown LogMatchesTraffic
PROPERTIES OneEndEndsBoth
