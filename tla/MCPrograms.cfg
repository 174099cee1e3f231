SPECIFICATION Spec
CONSTANTS
  Keys = {97, 255}
  MaxKeys = 3
  ForeignWords = {0, 65, 16640}
  MaxOverrun = 2
  Operands = {0, 1, 32767, 32768, 65535, 43690}
  Immediates = {0, 1, 15, 16, 31}
  Bases = {0, 1, 31, 20480, 32768, 65025, 65535}
  Offsets = {0, 1, 31, 32, 63}
  Programs <- AllPrograms
INVARIANTS
  TypeOK
  OneConditionFlag
  FlushedBetweenInstructions
  FaultOnlyUnterminated
  StringPrinted
  EchoIsPrefix
  EchoComplete
  ArithmeticIsSigned
  BranchFollowsSign
  StoredIsLoaded
  CallsReturn
PROPERTIES
  FulfilsContract
  StoresHitTheirTarget
  KeyDataLatched
  KeysReachTheMachine
  FlagsFollowResult
  EveryKeyEchoed
  EndOfInputHalts
  ProgramsHalt
