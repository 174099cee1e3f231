SPECIFICATION TrialSpec
CONSTANTS
  Labels <- Tokens
  NoLabel = NoLabel
  Spellings <- AllSpellings
  UpperCase <- UpperOf
  PointerBits = 1448
  Spelling <- SpellingOf
  Addresses = {0, 32768, 65535}
INVARIANT SignExtendIsTwosComplement
INVARIANT WordRoundTrip
CHECK_DEADLOCK FALSE
