SPECIFICATION Spec
CONSTANTS
  Labels = {"A", "FOO"}
  NoLabel = NoLabel
  Sources <- ShortSources
  MaySpoil = TRUE
PROPERTY
  Terminates
