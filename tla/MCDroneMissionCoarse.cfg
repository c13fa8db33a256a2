CONSTANTS
  Configs <- MCCoarse
  WorldsOf <- MCTwoWalls
SPECIFICATION Spec
INVARIANT
  NeverInsideAWall
