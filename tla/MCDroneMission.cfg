CONSTANTS
  Configs <- MCConfigs
  WorldsOf <- MCWorldsOf
SPECIFICATION Spec
INVARIANTS
  NeverInsideAWallWhenVoxelsNest
  MapTellsTheTruth
  NeverRefusedInWholeVoxels
  ArrivesWhereThePlanLeads
  EverythingReachableIsMapped
  ScoreIsExact
  StepsAddUp
PROPERTY
  MapNeverForgets
