SPECIFICATION Spec
CONSTANTS
  ShapeOf <- MCShapeOf
  Programs <- MCPrograms
  BuiltinNames <- MCBuiltinNames
  CellBound = 40
  UpvalueBound = 8
  Inputs <- MCInputs
  TextOf <- MCText
  CompareValues <- MCCompare
  ShowValue <- MCShow
INVARIANTS
  TypeOK
  NoDangling
  FramesIsolated
  HeightsMatch
  Safe
  CallStackMatches
  OutputCorrect
PROPERTIES
  ParametersInPlace
  Terminates
