SPECIFICATION ToolchainSpec
CONSTANTS
  Labels <- Tokens
  NoLabel = NoLabel
  Spellings <- AllSpellings
  UpperCase <- UpperOf
  PointerBits = 1448
  Spelling <- SpellingOf
  Images = {}
  Manuscripts <- LongLines
  Sources = {}
  MaySpoil = FALSE
INVARIANT
  CommentsAreDropped
