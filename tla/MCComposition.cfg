CONSTANTS
  Documents <- MCSmallDocuments
  File <- MCFile
  Stem <- MCStem
  NoPath = NoPath
  Absent = Absent
  Default = Default
  Scores <- MCScores
  MaxRuns = 4
SPECIFICATION Spec
INVARIANTS
  PathsStayAligned
  EveryRunIsLabelledWithItsOwnFiles
  FailuresSpoilNoFigure
  CleanLogMeansCleanLoad
  MapsAreKeptWhenStemsDiffer
