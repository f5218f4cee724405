SPECIFICATION Spec
CONSTANTS
  BufferSize = 3
  Bytes = {"a"}
  StreamLength = 3
INVARIANTS ReadsToEndOfCommand
