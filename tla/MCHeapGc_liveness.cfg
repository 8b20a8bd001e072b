SPECIFICATION FairSpec
CONSTANTS
  HeapCells = {c1, f1}
  FunctionCells = {f1}
  UpvalueCells = {}
  Constants = {k1}
  Callbacks = FALSE
  Escapes = FALSE
  MinThreshold = 2
  MaxEdges = 9
  MaxHeld = 9
PROPERTIES CollectionEnds
