SPECIFICATION PipelineSpec
CONSTANTS
  Programs <- MCNoPrograms
  BuiltinNames <- MCBuiltinNames
  CellBound = 48
  UpvalueBound = 8
  Inputs <- MCInputs
  TextOf <- MCText
  CompareValues <- MCCompare
  ShowValue <- MCShow
  CompileTree <- MCCompileTree
  Sources <- MCSources
INVARIANTS RunsAsMeant
PROPERTIES Finishes
