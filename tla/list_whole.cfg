SPECIFICATION FairSpec
CONSTANTS
  threads = 2
  iterations = 2
  num_lists = 1
  Keys = {0, 1}
  NULL = NULL
  Wild = Wild
  SyncOptions = {"n", "s"}
INVARIANTS OwnNodesOnly DeletesWhatItInserted
PROPERTIES EndsWell
