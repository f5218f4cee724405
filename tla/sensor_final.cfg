SPECIFICATION NodeSpec
CONSTANTS
  BufferSize = 3
  Bytes = {"OFF"}
  StreamLength = 2
  LogOptions = {TRUE}
  HasButton = TRUE
  MaxSamples = 2
INVARIANTS ShutdownIsFinal
