SPECIFICATION Spec
CONSTANTS
  Flags <- CliFlags
  Options <- MCOptions
  NoName = NoName
  Names <- MCNames
  Arguments <- MCArguments
  CommandLines <- MCCommandLines
  Missing <- MCMissing
  MaxArguments = 3
INVARIANTS
  TypeOK
  PositionalInOrder
  ArgumentsMeant
  RunsWhenAsked
  DumpsInOrder
PROPERTIES
  ReadOnce
  GetsToRun
