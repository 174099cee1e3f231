SPECIFICATION Spec
CONSTANTS
  Keys = {97}
  MaxKeys = 2
  ForeignWords = {65}
  MaxOverrun = 1
  Images <- ShortImages
  GarbageWords = {65535}
INVARIANTS
  OriginComesFromFile
