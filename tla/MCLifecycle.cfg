SPECIFICATION Spec
CONSTANTS
  Keys = {97, 255}
  MaxKeys = 3
  ForeignWords = {65}
  MaxOverrun = 1
  Images <- AnyImages
  GarbageWords = {0, 4660}
INVARIANTS
  TypeOK
  ImageInPlace
  OutputDelivered
  TerminalAtEnd
PROPERTIES
  HaltEnds
