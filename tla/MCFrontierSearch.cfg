CONSTANTS
  Width = 3
  Height = 2
  Cells <- MCCells
  Around <- MCAround
  Scans <- MCScans
  Homes <- MCHomes
  MaxGeneration = 2
  NoParent = NoParent
SPECIFICATION FairSpec
INVARIANTS
  IInv
  RouteLeadsThroughEmptySpace
  NothingReachableIsLeft
  NearestFrontierFirst
PROPERTY
  ExplorationEnds
