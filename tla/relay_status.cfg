SPECIFICATION Spec
CONSTANTS
  BuffSize = 2
  PipeSize = 1
  TypedLength = 0
  Keys = {"a"}
  ShellBytes = {"x"}
  ExitStatuses = {0, 3}
  ShellOutput = 1
INVARIANTS ReportsTheStatus
