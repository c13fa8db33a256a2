CONSTANTS
  Documents <- MCWholeDocuments
  File <- MCFile
  Stem <- MCStem
  NoPath = NoPath
  Absent = Absent
  Default = Default
  Scores <- MCScores
  MaxRuns = 2
SPECIFICATION Spec
INVARIANT
  EveryRunKeepsItsMap
