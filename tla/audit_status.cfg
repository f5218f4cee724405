SPECIFICATION Spec
CONSTANTS
  NBlocks = 19
  NInodes = 6
  TableStart = 2
  InodesPerBlock = 3
  NDirect = 2
  Pointers = 2
  FirstInode = 3
  Images <- MCImages
INVARIANTS InconsistencyIsStatus2
