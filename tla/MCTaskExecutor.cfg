CONSTANTS
  RequestedThreads = 3
  TaskCount = 4
  LeftoverCursors <- MCLeftoverCursors
SPECIFICATION FairSpec
INVARIANTS
  IInv
  CallerAndWorkersNeverBothRun
PROPERTY
  KeepsThePromise
