CONSTANTS
  Configs <- MCPartial
  WorldsOf <- MCWorldsOf
SPECIFICATION Spec
INVARIANT
  NeverRefused
