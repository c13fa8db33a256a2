CONSTANTS
  Configs <- MCFine
  WorldsOf <- MCWorldsOf
SPECIFICATION Spec
INVARIANT
  EveryFoundWallCounts
