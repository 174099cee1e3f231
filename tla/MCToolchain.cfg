SPECIFICATION ToolchainSpec
CONSTANTS
  Labels <- Tokens
  NoLabel = NoLabel
  Spellings <- AllSpellings
  UpperCase <- UpperOf
  PointerBits = 1448
  Spelling <- SpellingOf
  Images <- AllImages
  Manuscripts <- AllManuscripts
  Sources = {}
  MaySpoil = FALSE
INVARIANTS
  ParsedTypeOK
  DisassemblerTypeOK
  RoundTrip
  ReadAsWritten
  TargetsLabelled
