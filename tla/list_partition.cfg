SPECIFICATION MCSpec
CONSTANTS
  threads = 2
  iterations = 2
  num_lists = 2
  Keys = {0, 1, 2}
  NULL = NULL
  Wild = Wild
  SyncOptions = {"n", "m"}
INVARIANTS OneThreadPerList FreeListsSound SublistsApart KeysBalance
PROPERTIES ImplementsPartitionedSet EndsWell
