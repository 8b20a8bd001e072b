SPECIFICATION FairSpec
CONSTANTS
  CompileTree <- CompileProgram
  Sources <- MCPrograms
  CompareValues <- MCCompare
INVARIANTS
  TypeOK
  StaysInCode
  WindowsSound
  LocalsInPlace
  UpvaluesResolved
  ProgramWellFormed
  ListingsMatch
PROPERTIES OptimizerEnds
