SPECIFICATION Spec
CONSTANTS
  Labels = {"A", "FOO"}
  NoLabel = NoLabel
  Sources <- AllSources
  MaySpoil = TRUE
INVARIANTS
  TypeOK
  WordsLieAtTheirAddress
  AssembledAsWritten
  RemnantAsWritten
  ErrorsLeaveTheObject
  GoodLinesAccepted
