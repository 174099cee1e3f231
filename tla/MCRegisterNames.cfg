SPECIFICATION Spec
CONSTANTS
  Labels = {"A", "FOO"}
  NoLabel = NoLabel
  Sources <- RegisterNames
  MaySpoil = FALSE
INVARIANT
  RegistersReadBack
