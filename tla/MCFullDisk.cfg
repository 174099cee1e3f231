SPECIFICATION Spec
CONSTANTS
  Labels = {"A", "FOO"}
  NoLabel = NoLabel
  Sources <- OneLine
  MaySpoil = TRUE
INVARIANT
  SuccessMeansWritten
