SPECIFICATION Spec
CONSTANTS
  Labels = {"A", "FOO"}
  NoLabel = NoLabel
  Sources <- NegativeBlkw
  MaySpoil = FALSE
INVARIANT
  EmittedAsSized
