CONSTANTS
  fixed = fixed
  v1 = v1
  v2 = v2
  v3 = v3
  Comparative = TRUE
  FixedPlugin = fixed
  VariedPlugins <- MCThreePairs
  CellsPerPair = 2
  RequestedThreads = 2
  Adopted <- MCNone
  MaxRegistered = 1
  Faults <- MCLoadFaults
  None = None
SPECIFICATION FairSpec
INVARIANTS
  PeakWithinLiveThreads
  FixedPluginGoesLast
  ReportAccountsForEveryPlugin
  BlameFallsOnTheRightPlugin
PROPERTY
  EachServesTheOther
