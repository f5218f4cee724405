SPECIFICATION FairSpec
CONSTANTS
  threads = 3
  iterations = 2
  SyncOptions = {"n", "m", "s", "c"}
INVARIANTS TypeOK LockProtects CounterAccounted ReportsZero LossBounded
PROPERTIES ImplementsAtomicAdd Terminates
