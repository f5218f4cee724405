SPECIFICATION Spec
CONSTANTS
  BufferSize = 3
  Bytes = {"a", "b"}
  StreamLength = 5
INVARIANTS BytesConserved RoomToRead LinesProcessed
PROPERTIES LinesLeaveTheBuffer
