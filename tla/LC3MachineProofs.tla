-------------------------- MODULE LC3MachineProofs --------------------------
(***************************************************************************)
(* What every step of the machine preserves, for every program, every      *)
(* input and every value of the constants.  LC3ProgramProofs combines      *)
(* these lemmas with the environment's steps.                              *)
(***************************************************************************)
EXTENDS LC3Machine, LC3WordsProofs

-----------------------------------------------------------------------------
(* Memory. *)

(* A read of memory yields a word. *)
LEMMA PeekType ==
  ASSUME NEW cells, IsMemory(cells), NEW address
  PROVE  Peek(cells, address) \in Word
<1>1. 0 \in Word
  BY BoundedIsWord
<1> QED
  BY <1>1 DEF IsMemory, Peek

(* A store of a word at an address leaves a memory. *)
LEMMA StoreType ==
  ASSUME NEW cells, IsMemory(cells), NEW address \in Word, NEW value \in Word
  PROVE  IsMemory(Store(cells, address, value))
  BY DEF IsMemory, Store

(* The constants of the registers and the keyboard are words. *)
LEMMA ConstantWords ==
  /\ 0 \in Word /\ MR_KBSR \in Word /\ MR_KBDR \in Word /\ KEY_READY \in Word
  /\ EndOfInput \in Word
  /\ \A b \in Byte : b \in Word
<1>1. /\ 0 \in Word /\ MR_KBSR \in Word /\ MR_KBDR \in Word
      /\ KEY_READY \in Word /\ EndOfInput \in Word
  BY BoundedIsWord DEF MR_KBSR, MR_KBDR, KEY_READY, EndOfInput, WORD_MAX
<1>2. \A b \in Byte : b \in Word
  BY BoundedIsWord DEF Byte
<1> QED
  BY <1>1, <1>2

(* What getc returns is a word: a byte, or EOF as a uint16_t. *)
LEMMA NextCharacterType ==
  ASSUME InputTypeOK PROVE NextCharacter \in Word
<1>1. Pending \in Seq(Byte)
  BY DEF InputTypeOK, Pending
<1>2. CASE Pending = <<>>
  BY <1>2, ConstantWords DEF NextCharacter
<1>3. CASE Pending # <<>>
  <2>1. Head(Pending) \in Byte
    BY <1>1, <1>3
  <2> QED
    BY <1>3, <2>1, ConstantWords DEF NextCharacter
<1> QED
  BY <1>2, <1>3

(* A keyboard poll leaves a memory, and read_memory returns a word. *)
LEMMA ReadType ==
  ASSUME IsMemory(memory), InputTypeOK, NEW address
  PROVE  IsMemory(AfterRead(address)) /\ ValueAt(address) \in Word
<1>1. NextCharacter \in Word
  BY NextCharacterType
<1>2. IsMemory(Store(memory, MR_KBSR, KEY_READY))
  BY StoreType, ConstantWords
<1>3. IsMemory(Store(Store(memory, MR_KBSR, KEY_READY), MR_KBDR,
                     NextCharacter))
  BY <1>1, <1>2, StoreType, ConstantWords
<1>4. IsMemory(Store(memory, MR_KBSR, 0))
  BY StoreType, ConstantWords
<1>5. IsMemory(AfterRead(address))
  BY <1>3, <1>4 DEF AfterRead
<1>6. ValueAt(address) \in Word
  BY <1>5, PeekType DEF ValueAt
<1> QED
  BY <1>5, <1>6

-----------------------------------------------------------------------------
(* Input and output. *)

(* getc leaves both queues and the histories sequences of bytes. *)
LEMMA GetcType == ASSUME InputTypeOK, Getc PROVE InputTypeOK'
<1>1. CASE /\ stdinBuffer # <<>>
           /\ stdinBuffer' = Tail(stdinBuffer)
           /\ consumed' = Append(consumed, Head(stdinBuffer))
           /\ UNCHANGED <<ttyQueue, inputClosed, typed>>
  BY <1>1 DEF InputTypeOK
<1>2. CASE /\ stdinBuffer = <<>> /\ ttyQueue # <<>>
           /\ stdinBuffer' = Tail(ttyQueue) /\ ttyQueue' = <<>>
           /\ consumed' = Append(consumed, Head(ttyQueue))
           /\ UNCHANGED <<inputClosed, typed>>
  BY <1>2 DEF InputTypeOK
<1>3. CASE UNCHANGED <<stdinBuffer, ttyQueue, consumed, inputClosed, typed>>
  BY <1>3 DEF InputTypeOK
<1> QED
  BY <1>1, <1>2, <1>3 DEF Getc

(* So does a step that does not touch the input. *)
LEMMA InputStutter ==
  ASSUME InputTypeOK, UNCHANGED inputVars PROVE InputTypeOK'
  BY DEF InputTypeOK, inputVars

(* So does a poll. *)
LEMMA PollType ==
  ASSUME InputTypeOK, NEW address, Poll(address) PROVE InputTypeOK'
  BY GetcType, InputStutter DEF Poll

(* Writing items to stdout, flushed or not. *)
LEMMA PutType ==
  ASSUME OutputTypeOK, NEW items \in Seq(OutputItems),
         Put(items) \/ PutAndFlush(items)
  PROVE  OutputTypeOK'
<1>1. output' = output \o items
  BY DEF Put, PutAndFlush
<1>2. /\ output' \in Seq(OutputItems)
      /\ Len(output') = Len(output) + Len(items) /\ Len(items) \in Nat
  BY <1>1 DEF OutputTypeOK
<1>3. CASE Put(items)
  <2>1. flushed \in Nat /\ flushed <= Len(output) /\ flushed' = flushed
    BY <1>3 DEF OutputTypeOK, Put
  <2>2. flushed' \in 0 .. Len(output')
    BY <1>2, <2>1 DEF OutputTypeOK
  <2> QED
    BY <1>2, <2>2 DEF OutputTypeOK
<1>4. CASE PutAndFlush(items)
  BY <1>1, <1>2, <1>4 DEF OutputTypeOK, PutAndFlush
<1> QED
  BY <1>3, <1>4

(* A step that does not touch the output keeps its type. *)
LEMMA OutputStutter ==
  ASSUME OutputTypeOK, UNCHANGED outputVars PROVE OutputTypeOK'
  BY DEF OutputTypeOK, outputVars

(* The characters and messages the traps write. *)
LEMMA ItemTypes ==
  /\ Prompt \in OutputItems /\ HaltMessage \in OutputItems
  /\ Newline \in OutputItems
  /\ \A x \in Word : CharOf(x) \in OutputItems /\ x \div 256 \in OutputItems
<1>1. ASSUME NEW x \in Word
      PROVE  CharOf(x) \in OutputItems /\ x \div 256 \in OutputItems
  <2>1. x % 256 \in 0 .. 255 /\ x \div 256 \in 0 .. 255
    BY WordBounds, Halves
  <2> QED
    BY <2>1 DEF CharOf, OutputItems
<1> QED
  BY <1>1 DEF Prompt, HaltMessage, Newline, OutputItems

-----------------------------------------------------------------------------
(* Registers. *)

(* Assigning a word to a register. *)
LEMMA SetRegisterType ==
  ASSUME registers \in [RegisterCodes -> Word], NEW code, NEW value \in Word
  PROVE  SetRegister(code, value) \in [RegisterCodes -> Word]
  BY DEF SetRegister

(* A result and the flag it sets; a link and a jump. *)
LEMMA SetResultType ==
  ASSUME registers \in [RegisterCodes -> Word], NEW code, NEW value \in Word
  PROVE  SetResult(code, value) \in [RegisterCodes -> Word]
  BY ConditionFlagType, ConditionFlagsAreWords DEF SetResult

(* The fields of an instruction, its addresses and the registers it names. *)
LEMMA OperandTypes ==
  ASSUME MachineTypeOK
  PROVE  /\ PC \in Word /\ DR \in GeneralRegisters
         /\ registers[DR] \in Word /\ registers[SR1] \in Word
         /\ registers[SR2] \in Word /\ registers[R0] \in Word
         /\ PcRelative9 \in Word /\ PcRelative11 \in Word /\ BaseOffset \in Word
         /\ OtherValue \in Word
<1>1. /\ registers \in [RegisterCodes -> Word] /\ instruction \in Word
      /\ R0 \in RegisterCodes /\ PROGRAM_COUNTER \in RegisterCodes
  BY DEF MachineTypeOK, RegisterCodes, R0, PROGRAM_COUNTER
<1>2. DR \in 0 .. 7 /\ SR1 \in 0 .. 7 /\ SR2 \in 0 .. 7
  BY <1>1, FieldTypes DEF DR, SR1, SR2
<1>3. DR \in RegisterCodes /\ SR1 \in RegisterCodes /\ SR2 \in RegisterCodes
  BY <1>2 DEF RegisterCodes
<1>4. /\ PC \in Word /\ registers[DR] \in Word /\ registers[SR1] \in Word
      /\ registers[SR2] \in Word /\ registers[R0] \in Word
  BY <1>1, <1>3 DEF PC
<1>5. ASSUME NEW a \in Word, NEW b \in Word PROVE Wrap(a + b) \in Word
  BY WordBounds, WrapType
<1>6. PcRelative9 \in Word /\ PcRelative11 \in Word /\ BaseOffset \in Word
  BY <1>1, <1>4, <1>5, SignExtendType DEF PcRelative9, PcRelative11, BaseOffset
<1>7. OtherValue \in Word
  BY <1>1, <1>4, SignExtendType DEF OtherValue
<1> QED
  BY <1>2, <1>4, <1>6, <1>7 DEF GeneralRegisters

-----------------------------------------------------------------------------
(* Type correctness of every step. *)

(* A step that ends an operation: what is left to show is about memory,    *)
(* registers and input.                                                    *)
LEMMA ContinueType ==
  ASSUME MachineTypeOK, ConsoleTypeOK, Continue,
         IsMemory(memory'), registers' \in [RegisterCodes -> Word],
         InputTypeOK'
  PROVE  MachineTypeOK' /\ ConsoleTypeOK'
<1>1. OutputTypeOK'
  BY OutputStutter DEF ConsoleTypeOK, Continue
<1>2. MachineTypeOK'
  BY DEF MachineTypeOK, Continue, Running
<1> QED
  BY <1>1, <1>2 DEF ConsoleTypeOK

(* A step that touches registers only. *)
LEMMA RegistersOnlyType ==
  ASSUME MachineTypeOK, ConsoleTypeOK, Continue, RegistersOnly,
         registers' \in [RegisterCodes -> Word]
  PROVE  MachineTypeOK' /\ ConsoleTypeOK'
<1>1. InputTypeOK'
  BY InputStutter DEF RegistersOnly, ConsoleTypeOK
<1>2. IsMemory(memory')
  BY DEF RegistersOnly, MachineTypeOK
<1> QED
  BY <1>1, <1>2, ContinueType

(* The fetch. *)
LEMMA FetchType ==
  ASSUME MachineTypeOK, ConsoleTypeOK, Fetch
  PROVE  MachineTypeOK' /\ ConsoleTypeOK'
<1>1. IsMemory(memory') /\ instruction' \in Word
  BY ReadType DEF Fetch, MachineTypeOK, ConsoleTypeOK
<1>2. registers' \in [RegisterCodes -> Word]
  <2>1. Wrap(PC + 1) \in Word
    BY OperandTypes, WordBounds, WrapType
  <2> QED
    BY <2>1, SetRegisterType DEF Fetch, MachineTypeOK
<1>3. InputTypeOK' /\ OutputTypeOK'
  BY PollType, OutputStutter DEF Fetch, ConsoleTypeOK
<1> QED
  BY <1>1, <1>2, <1>3 DEF Fetch, MachineTypeOK, ConsoleTypeOK, Running

(* The register and control operations. *)
LEMMA RegisterOperationType ==
  ASSUME MachineTypeOK, ConsoleTypeOK,
         \/ OperationAdd \/ OperationAnd \/ OperationNot \/ OperationLea
         \/ OperationBr \/ OperationJmp \/ OperationJsr
  PROVE  MachineTypeOK' /\ ConsoleTypeOK'
<1> USE OperandTypes
<1>1. registers \in [RegisterCodes -> Word]
  BY DEF MachineTypeOK
<1>2. CASE OperationAdd
  <2>1. Wrap(registers[SR1] + OtherValue) \in Word
    BY WordBounds, WrapType
  <2> QED
    BY <1>1, <1>2, <2>1, SetResultType, RegistersOnlyType DEF OperationAdd
<1>3. CASE OperationAnd
  <2>1. BitAnd(registers[SR1], OtherValue) \in Word
    BY BitAndType
  <2> QED
    BY <1>1, <1>3, <2>1, SetResultType, RegistersOnlyType DEF OperationAnd
<1>4. CASE OperationNot
  <2>1. BitNot(registers[SR1]) \in Word
    BY BitNotType
  <2> QED
    BY <1>1, <1>4, <2>1, SetResultType, RegistersOnlyType DEF OperationNot
<1>5. CASE OperationLea
  BY <1>1, <1>5, SetResultType, RegistersOnlyType DEF OperationLea
<1>6. CASE OperationBr
  BY <1>1, <1>6, SetRegisterType, RegistersOnlyType DEF OperationBr
<1>7. CASE OperationJmp
  BY <1>1, <1>7, SetRegisterType, RegistersOnlyType DEF OperationJmp
<1>8. CASE OperationJsr
  <2>1. SetRegister(R7, PC) \in [RegisterCodes -> Word]
    BY <1>1, SetRegisterType
  <2>2. SR1 \in RegisterCodes
    BY FieldTypes DEF MachineTypeOK, SR1, RegisterCodes
  <2>3. ASSUME NEW target \in Word
        PROVE  LinkAndJump(target) \in [RegisterCodes -> Word]
    BY <1>1 DEF LinkAndJump
  <2>4. registers' \in [RegisterCodes -> Word]
    BY <1>8, <2>1, <2>2, <2>3 DEF OperationJsr
  <2> QED
    BY <1>8, <2>4, RegistersOnlyType DEF OperationJsr
<1> QED
  BY <1>2, <1>3, <1>4, <1>5, <1>6, <1>7, <1>8

(* The loads and stores. *)
LEMMA MemoryOperationType ==
  ASSUME MachineTypeOK, ConsoleTypeOK,
         \/ OperationLd \/ OperationLdr \/ OperationLdi
         \/ OperationSt \/ OperationStr \/ OperationSti
  PROVE  MachineTypeOK' /\ ConsoleTypeOK'
<1> USE OperandTypes
<1>1. /\ registers \in [RegisterCodes -> Word] /\ IsMemory(memory)
      /\ InputTypeOK
  BY DEF MachineTypeOK, ConsoleTypeOK
<1>2. ASSUME NEW address, Load(address) PROVE MachineTypeOK' /\ ConsoleTypeOK'
  <2>1. IsMemory(AfterRead(address)) /\ ValueAt(address) \in Word
    BY <1>1, ReadType
  <2>2. InputTypeOK'
    BY <1>1, <1>2, PollType DEF Load
  <2>3. IsMemory(memory') /\ registers' \in [RegisterCodes -> Word]
    BY <1>1, <1>2, <2>1, SetResultType DEF Load
  <2> QED
    BY <1>2, <2>2, <2>3, ContinueType DEF Load
<1>3. ASSUME NEW address \in Word, StoreAt(address)
      PROVE  MachineTypeOK' /\ ConsoleTypeOK'
  <2>1. InputTypeOK'
    BY <1>1, <1>3, InputStutter DEF StoreAt
  <2>2. IsMemory(memory')
    BY <1>1, <1>3, StoreType DEF StoreAt
  <2> QED
    BY <1>1, <1>3, <2>1, <2>2, ContinueType DEF StoreAt
<1>4. CASE OperationLd \/ OperationLdr
  BY <1>2, <1>4 DEF OperationLd, OperationLdr
<1>5. CASE OperationLdi
  <2> DEFINE pointer == ValueAt(PcRelative9)
             polled == IF PcRelative9 = MR_KBSR THEN MR_KBSR ELSE pointer
  <2>1. IsMemory(AfterRead(polled))
    BY <1>1, ReadType
  <2>2. Peek(AfterRead(polled), pointer) \in Word
    BY <2>1, PeekType
  <2>3. /\ Poll(polled) /\ memory' = AfterRead(polled)
        /\ registers' = SetResult(DR, Peek(AfterRead(polled), pointer))
        /\ Continue
    BY <1>5 DEF OperationLdi
  <2> HIDE DEF pointer, polled
  <2>4. InputTypeOK'
    BY <1>1, <2>3, PollType
  <2>5. registers' \in [RegisterCodes -> Word]
    BY <1>1, <2>2, <2>3, SetResultType
  <2> QED
    BY <2>1, <2>3, <2>4, <2>5, ContinueType
<1>6. CASE OperationSt \/ OperationStr
  BY <1>3, <1>6 DEF OperationSt, OperationStr
<1>7. CASE OperationSti
  <2>1. IsMemory(AfterRead(PcRelative9)) /\ ValueAt(PcRelative9) \in Word
    BY <1>1, ReadType
  <2>2. IsMemory(memory')
    BY <1>7, <2>1, StoreType DEF OperationSti
  <2>3. InputTypeOK'
    BY <1>1, <1>7, PollType DEF OperationSti
  <2> QED
    BY <1>1, <1>7, <2>2, <2>3, ContinueType DEF OperationSti
<1> QED
  BY <1>4, <1>5, <1>6, <1>7

(* The link register, which every trap sets first. *)
LEMMA LinkedType ==
  ASSUME MachineTypeOK PROVE Linked \in [RegisterCodes -> Word]
  BY OperandTypes, SetRegisterType DEF Linked, MachineTypeOK

(* The words a string trap may read, and what it prints of them. *)
LEMMA StringTypes ==
  ASSUME MachineTypeOK
  PROVE  /\ WordsAtCursor \subseteq Word
         /\ WordsAtCursor # {} => cursor < WORD_MAX + MaxOverrun
         /\ \A word \in Word : /\ PutsChars(word) \in Seq(OutputItems)
                               /\ PutspChars(word) \in Seq(OutputItems)
<1>1. WordsAtCursor \subseteq Word
  BY PeekType, MachineAssumption DEF WordsAtCursor, MachineTypeOK
<1>2. cursor \in Int
  BY WordMax, MachineAssumption DEF MachineTypeOK
<1>3. WordsAtCursor # {} => cursor < WORD_MAX + MaxOverrun
  BY <1>2, WordMax, MachineAssumption DEF WordsAtCursor
<1>4. ASSUME NEW word \in Word
      PROVE  /\ PutsChars(word) \in Seq(OutputItems)
             /\ PutspChars(word) \in Seq(OutputItems)
  BY ItemTypes DEF PutsChars, PutspChars
<1> QED
  BY <1>1, <1>3, <1>4

(* The traps. *)
LEMMA TrapType ==
  ASSUME MachineTypeOK, ConsoleTypeOK, TrapSteps
  PROVE  MachineTypeOK' /\ ConsoleTypeOK'
<1>1. /\ IsMemory(memory) /\ registers \in [RegisterCodes -> Word]
      /\ instruction \in Word /\ control \in Running \cup Stopped
      /\ cursor \in 0 .. WORD_MAX + MaxOverrun
      /\ InputTypeOK /\ OutputTypeOK
  BY DEF MachineTypeOK, ConsoleTypeOK
<1>2. NextCharacter \in Word /\ Linked \in [RegisterCodes -> Word]
  BY <1>1, NextCharacterType, LinkedType
<1>3. registers[R0] \in Word
  BY OperandTypes
<1>4. CASE TrapGetc
  <2>1. registers' \in [RegisterCodes -> Word]
    BY <1>2, <1>4, ConditionFlagType, ConditionFlagsAreWords DEF TrapGetc
  <2>2. InputTypeOK' /\ IsMemory(memory')
    BY <1>1, <1>4, GetcType DEF TrapGetc
  <2> QED
    BY <1>4, <2>1, <2>2, ContinueType DEF TrapGetc
<1>5. CASE TrapOut
  <2>1. <<CharOf(registers[R0])>> \in Seq(OutputItems)
    BY <1>3, ItemTypes
  <2>2. OutputTypeOK' /\ InputTypeOK'
    BY <1>1, <1>5, <2>1, PutType, InputStutter DEF TrapOut
  <2> QED
    BY <1>1, <1>2, <1>5, <2>2 DEF TrapOut, MachineTypeOK, ConsoleTypeOK, Running
<1>6. CASE TrapIn
  <2>1. <<Prompt>> \in Seq(OutputItems)
    BY ItemTypes
  <2>2. OutputTypeOK' /\ InputTypeOK'
    BY <1>1, <1>6, <2>1, PutType, InputStutter DEF TrapIn
  <2> QED
    BY <1>1, <1>2, <1>6, <2>2 DEF TrapIn, MachineTypeOK, ConsoleTypeOK, Running
<1>7. CASE TrapInEcho
  <2>1. <<CharOf(NextCharacter)>> \in Seq(OutputItems)
    BY <1>2, ItemTypes
  <2>2. OutputTypeOK' /\ InputTypeOK'
    BY <1>1, <1>7, <2>1, PutType, GetcType DEF TrapInEcho
  <2>3. registers' \in [RegisterCodes -> Word]
    BY <1>1, <1>2, <1>7, SetRegisterType DEF TrapInEcho
  <2> QED
    BY <1>1, <1>7, <2>2, <2>3
       DEF TrapInEcho, MachineTypeOK, ConsoleTypeOK, Running
<1>8. CASE StartString
  <2>1. cursor' \in 0 .. WORD_MAX + MaxOverrun
    BY <1>3, <1>8, WordBounds, WordMax, MachineAssumption DEF StartString
  <2>2. OutputTypeOK' /\ InputTypeOK'
    BY <1>1, <1>8, OutputStutter, InputStutter
       DEF StartString, consoleVars, inputVars, outputVars
  <2> QED
    BY <1>1, <1>2, <1>8, <2>1, <2>2
       DEF StartString, MachineTypeOK, ConsoleTypeOK, Running
<1>9. CASE PrintWord
  <2>1. PICK word \in WordsAtCursor :
          Put(IF control = "puts" THEN PutsChars(word) ELSE PutspChars(word))
    BY <1>9 DEF PrintWord
  <2>2. OutputTypeOK'
    BY <1>1, <2>1, StringTypes, PutType
  <2>3. cursor' \in 0 .. WORD_MAX + MaxOverrun
    BY <1>1, <1>9, <2>1, StringTypes, WordMax, MachineAssumption DEF PrintWord
  <2>4. InputTypeOK'
    BY <1>1, <1>9, InputStutter DEF PrintWord
  <2> QED
    BY <1>1, <1>9, <2>2, <2>3, <2>4 DEF PrintWord, MachineTypeOK, ConsoleTypeOK
<1>10. CASE FinishString
  <2>1. OutputTypeOK' /\ InputTypeOK'
    <3>1. PutAndFlush(<<>>) /\ UNCHANGED inputVars
      BY <1>10 DEF FinishString, Flush
    <3>2. <<>> \in Seq(OutputItems)
      OBVIOUS
    <3> QED
      BY <1>1, <3>1, <3>2, PutType, InputStutter
  <2>2. cursor' \in 0 .. WORD_MAX + MaxOverrun
    BY <1>10, WordMax, MachineAssumption DEF FinishString
  <2> QED
    BY <1>1, <1>10, <2>1, <2>2
       DEF FinishString, MachineTypeOK, ConsoleTypeOK, Running
<1>11. CASE FaultOnString \/ AbortTrap
  <2>1. OutputTypeOK' /\ InputTypeOK'
    BY <1>1, <1>11, OutputStutter, InputStutter
       DEF FaultOnString, AbortTrap, consoleVars, inputVars, outputVars
  <2> QED
    BY <1>1, <1>2, <1>11, <2>1
       DEF FaultOnString, AbortTrap, MachineTypeOK, ConsoleTypeOK, Stopped
<1>12. CASE TrapHalt
  <2>1. <<HaltMessage>> \in Seq(OutputItems)
    BY ItemTypes
  <2>2. OutputTypeOK' /\ InputTypeOK'
    BY <1>1, <1>12, <2>1, PutType, InputStutter DEF TrapHalt
  <2> QED
    BY <1>1, <1>2, <1>12, <2>2
       DEF TrapHalt, MachineTypeOK, ConsoleTypeOK, Stopped
<1> QED
  BY <1>4, <1>5, <1>6, <1>7, <1>8, <1>9, <1>10, <1>11, <1>12 DEF TrapSteps

(* Every step of the machine leaves registers, memory and instruction      *)
(* 16-bit words and the console's queues and output well formed.           *)
THEOREM MachineStepType ==
  ASSUME MachineTypeOK, ConsoleTypeOK, MachineNext
  PROVE  MachineTypeOK' /\ ConsoleTypeOK'
<1>1. CASE Fetch
  BY <1>1, FetchType
<1>2. CASE AbortOperation
  <2>1. UNCHANGED inputVars /\ UNCHANGED outputVars
    BY <1>2 DEF AbortOperation, RegistersOnly
  <2>2. OutputTypeOK' /\ InputTypeOK'
    BY <2>1, OutputStutter, InputStutter DEF ConsoleTypeOK
  <2> QED
    BY <1>2, <2>2 DEF AbortOperation, RegistersOnly, MachineTypeOK,
                      ConsoleTypeOK, Stopped
<1>3. CASE Operations /\ ~AbortOperation
  BY <1>3, RegisterOperationType, MemoryOperationType DEF Operations
<1>4. CASE TrapSteps
  BY <1>4, TrapType
<1> QED
  BY <1>1, <1>2, <1>3, <1>4 DEF MachineNext

-----------------------------------------------------------------------------
(* The condition flags. *)

(* Every step leaves exactly one condition flag set: the processor status  *)
(* only ever changes to the flag of a value just computed.                 *)
THEOREM MachineStepFlag ==
  ASSUME MachineTypeOK, ConsoleTypeOK, OneConditionFlag, MachineNext
  PROVE  OneConditionFlag'
<1>1. /\ registers \in [RegisterCodes -> Word]
      /\ PROCESSOR_STATUS \in RegisterCodes
  BY DEF MachineTypeOK, RegisterCodes, PROCESSOR_STATUS
<1>2. SUFFICES \/ registers'[PROCESSOR_STATUS] = registers[PROCESSOR_STATUS]
               \/ \E value \in Word :
                    registers'[PROCESSOR_STATUS] = ConditionFlag(value)
  BY ConditionFlagType DEF OneConditionFlag
<1>3. ASSUME NEW code \in RegisterCodes \ {PROCESSOR_STATUS}, NEW value,
             registers' = SetRegister(code, value)
      PROVE  registers'[PROCESSOR_STATUS] = registers[PROCESSOR_STATUS]
  BY <1>1, <1>3 DEF SetRegister
<1>4. ASSUME NEW code, NEW value \in Word, registers' = SetResult(code, value)
      PROVE  registers'[PROCESSOR_STATUS] = ConditionFlag(value)
  BY <1>1, <1>4 DEF SetResult
<1>5. /\ PROGRAM_COUNTER \in RegisterCodes \ {PROCESSOR_STATUS}
      /\ R7 \in RegisterCodes \ {PROCESSOR_STATUS}
      /\ R0 \in RegisterCodes \ {PROCESSOR_STATUS}
  BY DEF PROGRAM_COUNTER, PROCESSOR_STATUS, R7, R0, RegisterCodes
<1>6. CASE Fetch
  BY <1>3, <1>5, <1>6 DEF Fetch
<1>7. CASE OperationAdd \/ OperationAnd \/ OperationNot \/ OperationLea
  <2>1. /\ Wrap(registers[SR1] + OtherValue) \in Word
        /\ BitAnd(registers[SR1], OtherValue) \in Word
        /\ BitNot(registers[SR1]) \in Word /\ PcRelative9 \in Word
    BY OperandTypes, WordBounds, WrapType, BitAndType, BitNotType
  <2> QED
    BY <1>4, <1>7, <2>1
       DEF OperationAdd, OperationAnd, OperationNot, OperationLea
<1>8. CASE OperationBr \/ OperationJmp
  BY <1>3, <1>5, <1>8 DEF OperationBr, OperationJmp
<1>9. CASE OperationJsr
  BY <1>1, <1>5, <1>9 DEF OperationJsr, LinkAndJump
<1>10. CASE OperationLd \/ OperationLdr
  <2>1. PICK address : Load(address)
    BY <1>10 DEF OperationLd, OperationLdr
  <2>2. ValueAt(address) \in Word
    BY ReadType DEF MachineTypeOK, ConsoleTypeOK
  <2> QED
    BY <1>4, <2>1, <2>2 DEF Load
<1>11. CASE OperationLdi
  <2>1. PICK address, pointer :
          registers' = SetResult(DR, Peek(AfterRead(address), pointer))
    BY <1>11 DEF OperationLdi
  <2>2. Peek(AfterRead(address), pointer) \in Word
    BY ReadType, PeekType DEF MachineTypeOK, ConsoleTypeOK
  <2> QED
    BY <1>4, <2>1, <2>2
<1>12. CASE OperationSt \/ OperationStr \/ OperationSti \/ AbortOperation
  BY <1>12 DEF OperationSt, OperationStr, OperationSti, AbortOperation, StoreAt
<1>13. CASE TrapGetc
  <2>1. NextCharacter \in Word
    BY NextCharacterType DEF ConsoleTypeOK
  <2> QED
    BY <1>1, <1>13, <2>1, SetRegisterType, <1>5 DEF TrapGetc, Linked, SetRegister
<1>14. CASE TrapInEcho
  BY <1>3, <1>5, <1>14 DEF TrapInEcho
<1>15. CASE TrapOut \/ TrapIn \/ StartString \/ TrapHalt \/ AbortTrap
  BY <1>3, <1>5, <1>15
     DEF TrapOut, TrapIn, StartString, TrapHalt, AbortTrap, Linked
<1>16. CASE PrintWord \/ FinishString \/ FaultOnString
  BY <1>16 DEF PrintWord, FinishString, FaultOnString
<1> QED
  BY <1>6, <1>7, <1>8, <1>9, <1>10, <1>11, <1>12, <1>13, <1>14, <1>15, <1>16
     DEF MachineNext, Operations, TrapSteps

(* A general register changes together with the flags of its new value,    *)
(* unless it is R7 receiving a link or R0 receiving a key from IN.         *)
THEOREM MachineStepResult ==
  ASSUME MachineTypeOK, ConsoleTypeOK, MachineNext,
         NEW r \in GeneralRegisters, registers'[r] # registers[r]
  PROVE  \/ registers'[PROCESSOR_STATUS] = ConditionFlag(registers'[r])
         \/ r = R7 /\ registers'[R7] = PC
         \/ r = R0 /\ control = "in"
<1>1. /\ registers \in [RegisterCodes -> Word]
      /\ r \in RegisterCodes
      /\ r # PROCESSOR_STATUS /\ r # PROGRAM_COUNTER
      /\ PROCESSOR_STATUS \in RegisterCodes /\ R0 \in RegisterCodes
      /\ R0 # PROCESSOR_STATUS /\ R0 # R7
      /\ R7 \in RegisterCodes /\ R7 # PROGRAM_COUNTER
  BY DEF MachineTypeOK, GeneralRegisters, RegisterCodes, PROCESSOR_STATUS,
     PROGRAM_COUNTER, R0, R7
<1>2. ASSUME NEW code \in RegisterCodes, NEW value,
             registers' = SetRegister(code, value)
      PROVE  r = code /\ registers'[r] = value
  BY <1>1, <1>2 DEF SetRegister
<1>3. ASSUME NEW code \in GeneralRegisters, NEW value,
             registers' = SetResult(code, value)
      PROVE  registers'[PROCESSOR_STATUS] = ConditionFlag(registers'[r])
  <2>1. code \in RegisterCodes /\ code # PROCESSOR_STATUS
    BY DEF GeneralRegisters, RegisterCodes, PROCESSOR_STATUS
  <2> QED
    BY <1>1, <1>3, <2>1 DEF SetResult
<1>4. DR \in GeneralRegisters
  BY OperandTypes
<1>5. CASE Fetch
  <2>1. PROGRAM_COUNTER \in RegisterCodes
    BY DEF PROGRAM_COUNTER, RegisterCodes
  <2> QED
    BY <1>1, <1>2, <1>5, <2>1 DEF Fetch
<1>6. CASE \/ OperationAdd \/ OperationAnd \/ OperationNot \/ OperationLea
           \/ OperationLd \/ OperationLdr \/ OperationLdi
  BY <1>3, <1>4, <1>6 DEF OperationAdd, OperationAnd, OperationNot,
     OperationLea, OperationLd, OperationLdr, OperationLdi, Load
<1>7. CASE OperationBr \/ OperationJmp
  <2>1. PROGRAM_COUNTER \in RegisterCodes
    BY DEF PROGRAM_COUNTER, RegisterCodes
  <2> QED
    BY <1>1, <1>2, <1>7, <2>1 DEF OperationBr, OperationJmp
<1>8. CASE OperationJsr
  BY <1>1, <1>8 DEF OperationJsr, LinkAndJump
<1>9. CASE TrapGetc
  <2>1. registers' = [SetRegister(R7, PC) EXCEPT
                        ![R0] = NextCharacter,
                        ![PROCESSOR_STATUS] = ConditionFlag(NextCharacter)]
    BY <1>9 DEF TrapGetc, Linked
  <2>2. CASE r = R0
    BY <1>1, <2>1, <2>2 DEF SetRegister
  <2>3. CASE r # R0
    BY <1>1, <2>1, <2>3 DEF SetRegister
  <2> QED
    BY <2>2, <2>3
<1>10. CASE TrapInEcho
  BY <1>1, <1>2, <1>10 DEF TrapInEcho
<1>11. CASE TrapOut \/ TrapIn \/ StartString \/ TrapHalt \/ AbortTrap
  BY <1>1, <1>2, <1>11
     DEF TrapOut, TrapIn, StartString, TrapHalt, AbortTrap, Linked
<1>12. CASE \/ OperationSt \/ OperationStr \/ OperationSti \/ AbortOperation
            \/ PrintWord \/ FinishString \/ FaultOnString
  BY <1>12 DEF OperationSt, OperationStr, OperationSti, AbortOperation, StoreAt,
     PrintWord, FinishString, FaultOnString
<1> QED
  BY <1>5, <1>6, <1>7, <1>8, <1>9, <1>10, <1>11, <1>12
     DEF MachineNext, Operations, TrapSteps

-----------------------------------------------------------------------------
(* The output. *)

(* Every step leaves the output flushed when the machine is between        *)
(* instructions: a trap that prints flushes before it returns to the loop. *)
THEOREM MachineStepFlushed ==
  ASSUME MachineTypeOK, ConsoleTypeOK, FlushedBetweenInstructions, MachineNext
  PROVE  FlushedBetweenInstructions'
<1>1. CASE Fetch
  BY <1>1 DEF Fetch, FlushedBetweenInstructions, outputVars
<1>2. CASE Operations
  <2>1. UNCHANGED outputVars /\ control = "execute"
    BY <1>2 DEF Operations, OperationAdd, OperationAnd, OperationNot,
       OperationLea, OperationBr, OperationJmp, OperationJsr, OperationLd,
       OperationLdr, OperationLdi, OperationSt, OperationStr, OperationSti,
       AbortOperation, Load, StoreAt, Continue, Executing
  <2> QED
    BY <2>1 DEF FlushedBetweenInstructions, outputVars
<1>3. CASE TrapGetc \/ AbortTrap
  BY <1>3 DEF TrapGetc, AbortTrap, Trapping, Executing, Continue,
     FlushedBetweenInstructions, consoleVars, outputVars
<1>4. CASE TrapOut \/ TrapInEcho \/ FinishString
  BY <1>4 DEF TrapOut, TrapInEcho, FinishString, Flush, PutAndFlush,
     FlushedBetweenInstructions
<1>5. CASE TrapIn \/ StartString \/ PrintWord \/ FaultOnString \/ TrapHalt
  BY <1>5 DEF TrapIn, StartString, PrintWord, FaultOnString, TrapHalt,
     FlushedBetweenInstructions
<1> QED
  BY <1>1, <1>2, <1>3, <1>4, <1>5 DEF MachineNext, TrapSteps

-----------------------------------------------------------------------------
(* Strings. *)

\* Every word the running (or faulted) PUTS or PUTSP has gone past inside
\* memory is not the terminator.
StringWalk ==
  control \in {"puts", "putsp", "faulted"} =>
    \A address \in Word :
      registers[R0] <= address /\ address < cursor => Peek(memory, address) # 0

(* A string trap passes no zero word.                                      *)
LEMMA MachineStepWalk ==
  ASSUME MachineTypeOK, ConsoleTypeOK, StringWalk, MachineNext
  PROVE  StringWalk'
<1>1. CASE StartString
  <2>1. registers'[R0] = registers[R0] /\ cursor' = registers[R0]
    BY <1>1 DEF StartString, Linked, SetRegister, MachineTypeOK, R0, R7,
       RegisterCodes
  <2>2. registers[R0] \in Word
    BY OperandTypes
  <2> QED
    BY <2>1, <2>2, WordBounds DEF StringWalk
<1>2. CASE PrintWord
  <2>1. /\ UNCHANGED <<memory, registers, control>> /\ cursor' = cursor + 1
        /\ control \in {"puts", "putsp"}
        /\ WordsAtCursor \ {0} # {}
    BY <1>2 DEF PrintWord
  <2>2. SUFFICES ASSUME NEW address \in Word, registers[R0] <= address,
                        address < cursor + 1
                 PROVE  Peek(memory, address) # 0
    BY <2>1 DEF StringWalk
  <2>3. /\ cursor \in Nat /\ address \in Nat /\ address < WORD_MAX
        /\ WORD_MAX \in Nat
    BY WordBounds, WordMax, MachineAssumption DEF MachineTypeOK
  <2>4. CASE address < cursor
    BY <2>1, <2>2, <2>4 DEF StringWalk
  <2>5. CASE address = cursor
    BY <2>1, <2>3, <2>5 DEF WordsAtCursor
  <2> QED
    BY <2>2, <2>3, <2>4, <2>5
<1>3. CASE FaultOnString
  BY <1>3 DEF FaultOnString, StringWalk
<1>4. CASE Fetch \/ Operations
  BY <1>4 DEF Fetch, Operations, OperationAdd, OperationAnd, OperationNot,
     OperationLea, OperationBr, OperationJmp, OperationJsr, OperationLd,
     OperationLdr, OperationLdi, OperationSt, OperationStr, OperationSti,
     AbortOperation, Load, StoreAt, Continue, StringWalk
<1>5. CASE \/ TrapGetc \/ TrapOut \/ TrapIn \/ TrapInEcho \/ FinishString
           \/ TrapHalt \/ AbortTrap
  BY <1>5 DEF TrapGetc, TrapOut, TrapIn, TrapInEcho, FinishString, TrapHalt,
     AbortTrap, Continue, StringWalk
<1> QED
  BY <1>1, <1>2, <1>3, <1>4, <1>5 DEF MachineNext, TrapSteps

-----------------------------------------------------------------------------
(* The keys. *)

(* getc keeps the typed bytes in order, and a byte it takes is the next    *)
(* one typed.                                                              *)
LEMMA GetcFIFO ==
  ASSUME InputTypeOK, InputFIFO, Getc
  PROVE  /\ InputFIFO'
         /\ consumed' # consumed =>
              /\ consumed' = Append(consumed, NextCharacter)
              /\ typed[Len(consumed) + 1] = NextCharacter
<1>1. CASE /\ stdinBuffer # <<>>
           /\ stdinBuffer' = Tail(stdinBuffer)
           /\ consumed' = Append(consumed, Head(stdinBuffer))
           /\ UNCHANGED <<ttyQueue, typed>>
  <2>1. Pending # <<>> /\ Head(Pending) = Head(stdinBuffer)
    BY <1>1 DEF Pending, InputTypeOK
  <2>2. Append(consumed, Head(stdinBuffer)) \o Tail(stdinBuffer)
          = consumed \o stdinBuffer
    BY <1>1 DEF InputTypeOK
  <2>3. typed[Len(consumed) + 1] = Head(stdinBuffer)
    BY <1>1 DEF InputTypeOK, InputFIFO
  <2> QED
    BY <1>1, <2>1, <2>2, <2>3 DEF InputFIFO, NextCharacter
<1>2. CASE /\ stdinBuffer = <<>> /\ ttyQueue # <<>>
           /\ stdinBuffer' = Tail(ttyQueue) /\ ttyQueue' = <<>>
           /\ consumed' = Append(consumed, Head(ttyQueue))
           /\ UNCHANGED typed
  <2>1. Pending # <<>> /\ Head(Pending) = Head(ttyQueue)
    BY <1>2 DEF Pending, InputTypeOK
  <2>2. (Append(consumed, Head(ttyQueue)) \o Tail(ttyQueue)) \o <<>>
          = (consumed \o <<>>) \o ttyQueue
    BY <1>2 DEF InputTypeOK
  <2>3. typed[Len(consumed) + 1] = Head(ttyQueue)
    BY <1>2 DEF InputTypeOK, InputFIFO
  <2> QED
    BY <1>2, <2>1, <2>2, <2>3 DEF InputFIFO, NextCharacter
<1>3. CASE UNCHANGED <<stdinBuffer, ttyQueue, consumed, typed>>
  BY <1>3 DEF InputFIFO
<1> QED
  BY <1>1, <1>2, <1>3 DEF Getc

(* A poll that takes a byte is a read of KBSR and leaves it in KBDR. *)
LEMMA PollDelivers ==
  ASSUME InputTypeOK, NEW address, Poll(address)
  PROVE  \/ UNCHANGED inputVars
         \/ /\ Getc /\ address = MR_KBSR
            /\ ValueAt(address) = KEY_READY
            /\ Peek(AfterRead(address), MR_KBDR) = NextCharacter
<1>1. MR_KBDR # MR_KBSR
  BY DEF MR_KBDR, MR_KBSR
<1> QED
  BY <1>1 DEF Poll, AfterRead, ValueAt, Store, Peek

(* A step leaves the input alone, or takes the next character by getc into *)
(* R0 or, for a poll, KBDR.                                                *)
LEMMA MachineStepInput ==
  ASSUME MachineTypeOK, InputTypeOK, MachineNext
  PROVE  \/ UNCHANGED inputVars
         \/ /\ Getc
            /\ \/ registers'[R0] = NextCharacter
               \/ Peek(memory', MR_KBDR) = NextCharacter
<1>1. ASSUME NEW address, Poll(address), memory' = AfterRead(address)
      PROVE  \/ UNCHANGED inputVars
             \/ Getc /\ Peek(memory', MR_KBDR) = NextCharacter
  BY <1>1, PollDelivers
<1>2. CASE Fetch \/ OperationLd \/ OperationLdr
  BY <1>1, <1>2 DEF Fetch, OperationLd, OperationLdr, Load
<1>3. CASE OperationLdi
  <2>1. PICK address : Poll(address) /\ memory' = AfterRead(address)
    BY <1>3 DEF OperationLdi
  <2> QED
    BY <1>1, <2>1
<1>4. CASE OperationSti
  <2>1. /\ Poll(PcRelative9)
        /\ memory' = Store(AfterRead(PcRelative9), ValueAt(PcRelative9),
                           registers[DR])
    BY <1>4 DEF OperationSti
  <2>2. KEY_READY # MR_KBDR
    BY DEF KEY_READY, MR_KBDR
  <2>3. ASSUME NEW cells, NEW value
        PROVE  Peek(Store(cells, KEY_READY, value), MR_KBDR)
                 = Peek(cells, MR_KBDR)
    BY <2>2 DEF Peek, Store
  <2> QED
    BY <2>1, <2>3, PollDelivers
<1>5. CASE \/ OperationAdd \/ OperationAnd \/ OperationNot \/ OperationLea
           \/ OperationBr \/ OperationJmp \/ OperationJsr
           \/ OperationSt \/ OperationStr \/ AbortOperation
  BY <1>5 DEF OperationAdd, OperationAnd, OperationNot, OperationLea,
     OperationBr, OperationJmp, OperationJsr, OperationSt, OperationStr,
     AbortOperation, RegistersOnly, StoreAt
<1>6. CASE TrapGetc \/ TrapInEcho
  <2>1. /\ R0 \in RegisterCodes /\ R0 # PROCESSOR_STATUS
        /\ registers \in [RegisterCodes -> Word]
    BY DEF R0, PROCESSOR_STATUS, RegisterCodes, MachineTypeOK
  <2> QED
    BY <1>6, <2>1 DEF TrapGetc, TrapInEcho, Linked, SetRegister
<1>7. CASE \/ TrapOut \/ TrapIn \/ StartString \/ PrintWord \/ FinishString
           \/ FaultOnString \/ TrapHalt \/ AbortTrap
  BY <1>7 DEF TrapOut, TrapIn, StartString, PrintWord, FinishString,
     FaultOnString, TrapHalt, AbortTrap, consoleVars, inputVars
<1> QED
  BY <1>2, <1>3, <1>4, <1>5, <1>6, <1>7 DEF MachineNext, Operations, TrapSteps

(* Every byte a step takes from the input is the next one typed, and is in *)
(* R0 or in KBDR afterwards.                                               *)
THEOREM MachineStepKeys ==
  ASSUME MachineTypeOK, ConsoleTypeOK, InputFIFO, MachineNext
  PROVE  /\ InputFIFO'
         /\ consumed' # consumed =>
              /\ consumed' = Append(consumed, typed[Len(consumed) + 1])
              /\ \/ registers'[R0] = typed[Len(consumed) + 1]
                 \/ Peek(memory', MR_KBDR) = typed[Len(consumed) + 1]
<1>1. InputTypeOK
  BY DEF ConsoleTypeOK
<1>2. CASE UNCHANGED inputVars
  BY <1>2 DEF InputFIFO, inputVars
<1> QED
  BY <1>1, <1>2, MachineStepInput, GetcFIFO

(* A step prints nothing, or items at the end of the output.               *)
LEMMA MachineStepOutput ==
  ASSUME MachineTypeOK, ConsoleTypeOK, MachineNext
  PROVE  \/ UNCHANGED outputVars
         \/ \E items \in Seq(OutputItems) : Put(items) \/ PutAndFlush(items)
<1>1. ASSUME NEW item \in OutputItems PROVE <<item>> \in Seq(OutputItems)
  OBVIOUS
<1>2. <<>> \in Seq(OutputItems)
  OBVIOUS
<1>3. CASE Fetch \/ Operations
  BY <1>3 DEF Fetch, Operations, OperationAdd, OperationAnd, OperationNot,
     OperationLea, OperationBr, OperationJmp, OperationJsr, OperationLd,
     OperationLdr, OperationLdi, OperationSt, OperationStr, OperationSti,
     AbortOperation, Load, StoreAt, Continue
<1>4. CASE TrapGetc \/ StartString \/ FaultOnString \/ AbortTrap
  BY <1>4 DEF TrapGetc, StartString, FaultOnString, AbortTrap, Continue,
     consoleVars, outputVars
<1>5. CASE TrapOut \/ TrapInEcho
  <2>1. NextCharacter \in Word /\ registers[R0] \in Word
    BY NextCharacterType, OperandTypes DEF ConsoleTypeOK
  <2> QED
    BY <1>1, <1>5, <2>1, ItemTypes DEF TrapOut, TrapInEcho
<1>6. CASE TrapIn \/ TrapHalt
  BY <1>1, <1>6, ItemTypes DEF TrapIn, TrapHalt
<1>7. CASE PrintWord
  <2>1. PICK word \in WordsAtCursor :
          Put(IF control = "puts" THEN PutsChars(word) ELSE PutspChars(word))
    BY <1>7 DEF PrintWord
  <2> QED
    BY <2>1, StringTypes
<1>8. CASE FinishString
  BY <1>2, <1>8 DEF FinishString, Flush
<1> QED
  BY <1>3, <1>4, <1>5, <1>6, <1>7, <1>8 DEF MachineNext, TrapSteps

(* The registers main starts with. *)
LEMMA ResetRegistersType ==
  ASSUME NEW origin \in Word
  PROVE  /\ ResetRegisters(origin) \in [RegisterCodes -> Word]
         /\ ResetRegisters(origin)[PROCESSOR_STATUS] = CONDITION_FLAG_ZERO
<1>1. 0 \in Word /\ CONDITION_FLAG_ZERO \in Word
  BY ConstantWords, ConditionFlagsAreWords DEF ConditionFlags
<1>2. PROCESSOR_STATUS \in RegisterCodes /\ PROCESSOR_STATUS # PROGRAM_COUNTER
  BY DEF PROCESSOR_STATUS, PROGRAM_COUNTER, RegisterCodes
<1> QED
  BY <1>1, <1>2 DEF ResetRegisters
=============================================================================
