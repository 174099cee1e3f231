-------------------------- MODULE LC3ProgramProofs --------------------------
(***************************************************************************)
(* Theorems of LC3Program!Spec: what holds of every program in memory,     *)
(* every input and every value of the constants; and, at the end, what the *)
(* two programs of MCEcho do on every input and those of MCOperations on   *)
(* every operand.                                                          *)
(***************************************************************************)
EXTENDS MCEcho, MCOperations, LC3MachineProofs

-----------------------------------------------------------------------------
(* Strings. *)

\* The cursor of a string trap starts at R0 and moves up.
CursorAboveStart ==
  control \in {"puts", "putsp"} => registers[R0] <= cursor

\* What the nth word of the string prints, and the text up to the cursor.
StringChars(n) ==
  LET word == Peek(memory, registers[R0] + n - 1)
  IN  IF control = "puts" THEN <<word % 256>>
      ELSE IF word < 256 THEN <<word>>
      ELSE <<word % 256, word \div 256>>
StringText == FlattenSeq([n \in 1 .. cursor - registers[R0] |-> StringChars(n)])

(* StringPrinted, in these terms. *)
LEMMA StringPrintedIs ==
  StringPrinted <=>
    (control \in {"puts", "putsp"} /\ cursor <= WORD_MAX =>
       SubSeq(output, flushed + 1, Len(output)) = StringText)
  BY DEF StringPrinted, StringText, StringChars

(* What is left of a sequence from some place on grows with the sequence.  *)
LEMMA TailOfConcat ==
  ASSUME NEW S, NEW s \in Seq(S), NEW t \in Seq(S), NEW m \in 0 .. Len(s)
  PROVE  SubSeq(s \o t, m + 1, Len(s \o t)) = SubSeq(s, m + 1, Len(s)) \o t
<1>1. /\ Len(s) \in Nat /\ Len(t) \in Nat /\ m \in Nat /\ m <= Len(s)
      /\ Len(s \o t) = Len(s) + Len(t)
  OBVIOUS
<1> DEFINE left == SubSeq(s \o t, m + 1, Len(s) + Len(t))
           right == SubSeq(s, m + 1, Len(s)) \o t
<1>2. left \in Seq(S) /\ Len(left) = Len(s) + Len(t) - m
  BY <1>1
<1>3. /\ SubSeq(s, m + 1, Len(s)) \in Seq(S)
      /\ Len(SubSeq(s, m + 1, Len(s))) = Len(s) - m
  BY <1>1
<1>4. right \in Seq(S) /\ Len(right) = Len(s) - m + Len(t)
  BY <1>1, <1>3
<1>5. ASSUME NEW i \in 1 .. Len(s) + Len(t) - m PROVE left[i] = right[i]
  <2>1. left[i] = (s \o t)[m + i]
    BY <1>1
  <2>2. CASE i <= Len(s) - m
    <3>1. right[i] = SubSeq(s, m + 1, Len(s))[i]
      BY <1>1, <1>3, <2>2
    <3>2. @ = s[m + i]
      BY <1>1, <2>2
    <3>3. (s \o t)[m + i] = s[m + i]
      BY <1>1, <2>2
    <3> QED
      BY <2>1, <3>1, <3>2, <3>3
  <2>3. CASE i > Len(s) - m
    <3>1. right[i] = t[i - (Len(s) - m)]
      BY <1>1, <1>3, <2>3
    <3>2. (s \o t)[m + i] = t[(m + i) - Len(s)]
      BY <1>1, <2>3
    <3>3. i - (Len(s) - m) = (m + i) - Len(s)
      BY <1>1
    <3> QED
      BY <2>1, <3>1, <3>2, <3>3
  <2> QED
    BY <1>1, <2>2, <2>3
<1> HIDE DEF left, right
<1>6. Len(left) = Len(right)
  BY <1>1, <1>2, <1>4
<1>7. left = right
  BY <1>1, <1>2, <1>4, <1>5, <1>6
<1> QED
  BY <1>1, <1>7 DEF left, right

(* The word under the cursor prints what the text has there, and the text  *)
(* grows by it.                                                            *)
LEMMA StringGrows ==
  ASSUME MachineTypeOK, ConsoleTypeOK, CursorAboveStart, PrintWord,
         cursor < WORD_MAX
  PROVE  \E items \in Seq(OutputItems) :
           Put(items) /\ StringText' = StringText \o items
<1> DEFINE start == registers[R0]
           k == cursor - start
           item == StringChars(k + 1)
           before == [n \in 1 .. k |-> StringChars(n)]
<1>1. /\ start \in Nat /\ cursor \in Nat /\ WORD_MAX \in Nat
      /\ control \in {"puts", "putsp"} /\ start <= cursor
      /\ UNCHANGED <<memory, registers, control>> /\ cursor' = cursor + 1
  BY OperandTypes, WordBounds, WordMax, MachineAssumption
     DEF MachineTypeOK, CursorAboveStart, PrintWord
<1>2. k \in Nat /\ start + (k + 1) - 1 = cursor /\ cursor' - start = k + 1
  BY <1>1
<1>3. ASSUME NEW n \in Nat PROVE StringChars(n) \in Seq(OutputItems)
  <2>1. Peek(memory, registers[R0] + n - 1) \in Word
    BY PeekType DEF MachineTypeOK
  <2>2. ASSUME NEW w \in Word
        PROVE  /\ w % 256 \in OutputItems /\ w \div 256 \in OutputItems
               /\ w < 256 => w \in OutputItems
    BY <2>2, ItemTypes, WordBounds DEF CharOf, OutputItems
  <2> QED
    BY <2>1, <2>2 DEF StringChars
<1>4. Put(item)
  <2>1. PICK word \in WordsAtCursor \ {0} :
          Put(IF control = "puts" THEN PutsChars(word) ELSE PutspChars(word))
    BY DEF PrintWord
  <2>2. word = Peek(memory, cursor)
    BY <1>1, <2>1 DEF WordsAtCursor
  <2>3. word \in Int /\ 0 <= word /\ word <= 65535
    BY <2>2, PeekType, WordBounds DEF MachineTypeOK
  <2>4. /\ word \div 256 = 0 <=> word < 256
        /\ word < 256 => word % 256 = word
    BY <2>3
  <2>5. item = IF control = "puts" THEN <<word % 256>>
               ELSE IF word < 256 THEN <<word>>
               ELSE <<word % 256, word \div 256>>
    BY <1>2, <2>2 DEF StringChars
  <2> HIDE DEF item
  <2>6. item = IF control = "puts" THEN PutsChars(word) ELSE PutspChars(word)
    BY <2>4, <2>5 DEF PutsChars, PutspChars, CharOf
  <2> QED
    BY <2>1, <2>6
<1>5. item \in Seq(OutputItems) /\ before \in Seq(Seq(OutputItems))
  <2> HIDE DEF k
  <2>1. k + 1 \in Nat /\ \A n \in 1 .. k : StringChars(n) \in Seq(OutputItems)
    BY <1>2, <1>3
  <2> QED
    BY <1>2, <1>3, <2>1
<1>6. StringText = FlattenSeq(before)
  BY DEF StringText
<1>7. StringText' = FlattenSeq(Append(before, item))
  <2>1. ASSUME NEW n PROVE StringChars(n)' = StringChars(n)
    BY <1>1 DEF StringChars
  <2>2. StringText' = FlattenSeq([n \in 1 .. k + 1 |-> StringChars(n)])
    BY <1>1, <1>2, <2>1 DEF StringText
  <2> HIDE DEF k
  <2>3. Append(before, item) = [n \in 1 .. k + 1 |-> StringChars(n)]
    BY <1>2, <1>3
  <2> QED
    BY <2>2, <2>3
<1> HIDE DEF item, before
<1>8. StringText' = StringText \o item
  BY <1>5, <1>6, <1>7, FlattenAppend
<1> QED
  BY <1>4, <1>5, <1>8

(* A string trap prints the text up to its cursor.                         *)
LEMMA MachineStepString ==
  ASSUME MachineTypeOK, ConsoleTypeOK, FlushedBetweenInstructions,
         CursorAboveStart, StringPrinted, MachineNext
  PROVE  CursorAboveStart' /\ StringPrinted'
<1>1. /\ registers[R0] \in Nat /\ cursor \in Nat /\ WORD_MAX \in Nat
      /\ output \in Seq(OutputItems) /\ flushed \in 0 .. Len(output)
      /\ Len(output) \in Nat
  BY OperandTypes, WordBounds, WordMax, MachineAssumption
     DEF MachineTypeOK, ConsoleTypeOK, OutputTypeOK
<1>2. CASE StartString
  <2>1. registers'[R0] = registers[R0] /\ cursor' = registers[R0]
    BY <1>2 DEF StartString, Linked, SetRegister, MachineTypeOK, R0, R7,
       RegisterCodes
  <2>2. UNCHANGED <<output, flushed>> /\ flushed = Len(output)
    BY <1>2 DEF StartString, Trapping, Executing, FlushedBetweenInstructions,
       consoleVars
  <2>3. SubSeq(output', flushed' + 1, Len(output')) = <<>>
    BY <1>1, <2>2
  <2>4. cursor' - registers'[R0] = 0
    BY <1>1, <2>1
  <2>5. [n \in 1 .. 0 |-> StringChars(n)'] = <<>>
    OBVIOUS
  <2>6. StringText' = <<>>
    BY <2>4, <2>5, FlattenEmpty DEF StringText
  <2> QED
    <3>1. CursorAboveStart'
      BY <1>1, <2>1 DEF CursorAboveStart
    <3>2. SubSeq(output', flushed' + 1, Len(output')) = StringText'
      BY <2>3, <2>6
    <3>3. StringPrinted'
      BY <3>2 DEF StringPrinted, StringText, StringChars
    <3> QED
      BY <3>1, <3>3
<1>3. CASE PrintWord
  <2>1. /\ cursor' = cursor + 1 /\ UNCHANGED <<memory, registers, control>>
        /\ control \in {"puts", "putsp"}
    BY <1>3 DEF PrintWord
  <2>2. CursorAboveStart'
    BY <1>1, <2>1 DEF CursorAboveStart
  <2>3. ASSUME cursor < WORD_MAX
        PROVE  SubSeq(output', flushed' + 1, Len(output')) = StringText'
    <3>1. PICK items \in Seq(OutputItems) :
            Put(items) /\ StringText' = StringText \o items
      BY <1>3, <2>3, StringGrows
    <3>2. SubSeq(output, flushed + 1, Len(output)) = StringText
      BY <1>1, <2>1, <2>3, StringPrintedIs
    <3> QED
      BY <1>1, <3>1, <3>2, TailOfConcat DEF Put
  <2> QED
    BY <1>1, <2>1, <2>2, <2>3 DEF StringPrinted, StringText, StringChars
<1>4. CASE Fetch \/ Operations
  BY <1>4 DEF Fetch, Operations, OperationAdd, OperationAnd, OperationNot,
     OperationLea, OperationBr, OperationJmp, OperationJsr, OperationLd,
     OperationLdr, OperationLdi, OperationSt, OperationStr, OperationSti,
     AbortOperation, Load, StoreAt, Continue, CursorAboveStart, StringPrinted
<1>5. CASE \/ TrapGetc \/ TrapOut \/ TrapIn \/ TrapInEcho \/ FinishString
           \/ FaultOnString \/ TrapHalt \/ AbortTrap
  BY <1>5 DEF TrapGetc, TrapOut, TrapIn, TrapInEcho, FinishString,
     FaultOnString, TrapHalt, AbortTrap, Continue, CursorAboveStart,
     StringPrinted
<1> QED
  BY <1>2, <1>3, <1>4, <1>5 DEF MachineNext, TrapSteps

-----------------------------------------------------------------------------
\* The inductive invariant.  FaultOnlyUnterminated is not inductive: it needs
\* to know what a string trap passed on its way (StringWalk), StringPrinted
\* that the cursor is not below the string's start, and where the keys are
\* (InputFIFO) is what KeysReachTheMachine rests on.
IInv ==
  /\ TypeOK
  /\ OneConditionFlag
  /\ FlushedBetweenInstructions
  /\ StringWalk
  /\ InputFIFO
  /\ CursorAboveStart
  /\ StringPrinted

(* The invariant holds before the first fetch. *)
LEMMA InitInvariant == Init => IInv
<1> SUFFICES ASSUME Init PROVE IInv
  OBVIOUS
<1>1. PICK program \in Programs :
        /\ memory = program.cells
        /\ registers = ResetRegisters(program.origin)
        /\ ConsoleInit(program.closed)
  BY DEF Init
<1>2. IsMemory(memory) /\ program.origin \in Word /\ program.closed \in BOOLEAN
  BY <1>1, ProgramsAssumption
<1>3. registers \in [RegisterCodes -> Word] /\ OneConditionFlag
  BY <1>1, <1>2, ResetRegistersType DEF OneConditionFlag, ConditionFlags
<1>4. instruction \in Word /\ cursor \in 0 .. WORD_MAX + MaxOverrun
  BY ConstantWords, WordMax, MachineAssumption DEF Init
<1>5. ConsoleTypeOK
  <2>1. /\ <<>> \in Seq(Byte) /\ <<>> \in Seq(OutputItems)
        /\ Len(<<>>) = 0
    OBVIOUS
  <2>2. ConsoleInit(program.closed)
    BY <1>1
  <2>3. InputTypeOK
    BY <2>1, <2>2, <1>2 DEF ConsoleInit, InputTypeOK
  <2>4. output = <<>> /\ flushed = 0
    BY <2>2 DEF ConsoleInit
  <2>5. 0 \in 0 .. 0
    OBVIOUS
  <2>6. OutputTypeOK
    BY <2>1, <2>4, <2>5 DEF OutputTypeOK
  <2> QED
    BY <2>3, <2>6 DEF ConsoleTypeOK
<1>6. MachineTypeOK /\ StringWalk
  BY <1>2, <1>3, <1>4 DEF Init, MachineTypeOK, Running, StringWalk
<1>7. FlushedBetweenInstructions /\ InputFIFO
  BY <1>1 DEF Init, ConsoleInit, FlushedBetweenInstructions, InputFIFO
<1>8. CursorAboveStart /\ StringPrinted
  BY DEF Init, CursorAboveStart, StringPrinted
<1> QED
  BY <1>3, <1>5, <1>6, <1>7, <1>8 DEF IInv, TypeOK

(* Typing a key, or closing the input, disturbs nothing. *)
LEMMA EnvironmentInvariant == IInv /\ Environment => IInv'
<1> SUFFICES ASSUME IInv, Environment PROVE IInv'
  OBVIOUS
<1>1. /\ UNCHANGED machineVars
      /\ UNCHANGED <<stdinBuffer, consumed, output, flushed>>
  BY DEF Environment, TypeKey, CloseInput
<1>2. InputTypeOK' /\ InputFIFO'
  <2>1. CASE CloseInput
    BY <2>1 DEF IInv, TypeOK, ConsoleTypeOK, InputTypeOK, InputFIFO, CloseInput
  <2>2. ASSUME NEW key \in Keys, TypeKey(key) PROVE InputTypeOK' /\ InputFIFO'
    <3>1. key \in Byte
      BY ConsoleAssumption
    <3>2. /\ ttyQueue \in Seq(Byte) /\ stdinBuffer \in Seq(Byte)
          /\ consumed \in Seq(Byte) /\ typed \in Seq(Byte)
          /\ ttyQueue' = Append(ttyQueue, key) /\ typed' = Append(typed, key)
      BY <2>2 DEF IInv, TypeOK, ConsoleTypeOK, InputTypeOK, TypeKey
    <3>3. InputTypeOK'
      BY <2>2, <3>1, <3>2
         DEF IInv, TypeOK, ConsoleTypeOK, InputTypeOK, TypeKey
    <3>4. (consumed \o stdinBuffer) \o Append(ttyQueue, key)
            = Append((consumed \o stdinBuffer) \o ttyQueue, key)
      BY <3>1, <3>2
    <3> QED
      BY <1>1, <3>2, <3>3, <3>4 DEF IInv, InputFIFO
  <2> QED
    BY <2>1, <2>2 DEF Environment
<1>3. MachineTypeOK' /\ OneConditionFlag' /\ StringWalk'
  BY <1>1 DEF IInv, TypeOK, MachineTypeOK, machineVars, OneConditionFlag,
     StringWalk
<1>4. OutputTypeOK' /\ FlushedBetweenInstructions'
  BY <1>1 DEF IInv, TypeOK, ConsoleTypeOK, OutputTypeOK, machineVars,
     FlushedBetweenInstructions
<1>5. CursorAboveStart' /\ StringPrinted'
  BY <1>1 DEF IInv, machineVars, CursorAboveStart, StringPrinted
<1> QED
  BY <1>2, <1>3, <1>4, <1>5 DEF IInv, TypeOK, ConsoleTypeOK

(* A step that changes nothing keeps the invariant. *)
LEMMA StutterInvariant == IInv /\ UNCHANGED vars => IInv'
  BY DEF IInv, TypeOK, MachineTypeOK, ConsoleTypeOK, InputTypeOK, OutputTypeOK,
     OneConditionFlag, FlushedBetweenInstructions, StringWalk, InputFIFO,
     CursorAboveStart, StringPrinted, vars, machineVars, consoleVars

(* Every step keeps the invariant. *)
LEMMA StepInvariant == IInv /\ [Next]_vars => IInv'
<1>1. ASSUME IInv, MachineNext PROVE IInv'
  BY <1>1, MachineStepType, MachineStepFlag, MachineStepFlushed,
     MachineStepWalk, MachineStepKeys, MachineStepString DEF IInv, TypeOK
<1> QED
  BY <1>1, EnvironmentInvariant, StutterInvariant DEF Next, Ended

(* The invariant is one. *)
THEOREM Invariant == Spec => []IInv
  BY InitInvariant, StepInvariant, PTL DEF Spec

-----------------------------------------------------------------------------
(* Registers, memory, instruction, queues and output stay well formed.     *)
THEOREM TypeCorrect == Spec => []TypeOK
<1>1. IInv => TypeOK
  BY DEF IInv
<1> QED
  BY <1>1, Invariant, PTL

(* "exactly one condition flag should be set at all times" (lc_3.c).       *)
THEOREM FlagAlwaysSet == Spec => []OneConditionFlag
<1>1. IInv => OneConditionFlag
  BY DEF IInv
<1> QED
  BY <1>1, Invariant, PTL

(* Between instructions nothing the program wrote is left in the buffer.   *)
THEOREM AlwaysFlushed == Spec => []FlushedBetweenInstructions
<1>1. IInv => FlushedBetweenInstructions
  BY DEF IInv
<1> QED
  BY <1>1, Invariant, PTL

(* A running PUTS or PUTSP has printed the text up to its cursor.          *)
THEOREM StringsArePrinted == Spec => []StringPrinted
<1>1. IInv => StringPrinted
  BY DEF IInv
<1> QED
  BY <1>1, Invariant, PTL

\* A PUTS or PUTSP that faulted had its cursor behind memory, and stays there.
Behind == control = "faulted" => cursor >= WORD_MAX

(* A fault happens behind the end of memory.                               *)
LEMMA FaultsBehind == Spec => []Behind
<1>1. Init => Behind
  BY DEF Init, Behind
<1>2. ASSUME IInv, Behind, [Next]_vars PROVE Behind'
  <2>1. CASE MachineNext
    BY <1>2, <2>1 DEF Behind, MachineNext, Fetch, Operations, OperationAdd,
       OperationAnd, OperationNot, OperationLea, OperationBr, OperationJmp,
       OperationJsr, OperationLd, OperationLdr, OperationLdi, OperationSt,
       OperationStr, OperationSti, AbortOperation, Load, StoreAt, Continue,
       TrapSteps, TrapGetc, TrapOut, TrapIn, TrapInEcho, StartString,
       PrintWord, FinishString, FaultOnString, TrapHalt, AbortTrap
  <2>2. CASE Environment \/ Ended \/ UNCHANGED vars
    BY <1>2, <2>2 DEF Behind, Environment, Ended, vars, machineVars
  <2> QED
    BY <1>2, <2>1, <2>2 DEF Next
<1> QED
  BY <1>1, <1>2, Invariant, PTL DEF Spec

(* PUTS and PUTSP run off the end of memory only when no zero word lies    *)
(* between R0 and the last cell.                                           *)
THEOREM OnlyUnterminatedStringsFault == Spec => []FaultOnlyUnterminated
<1>1. IInv /\ Behind => FaultOnlyUnterminated
  <2> SUFFICES ASSUME IInv, Behind, control = "faulted",
                      NEW address \in registers[R0] .. WORD_MAX - 1
               PROVE  Peek(memory, address) # 0
    BY DEF FaultOnlyUnterminated
  <2>1. /\ registers[R0] \in Nat /\ WORD_MAX \in Nat
        /\ cursor \in Int
    BY OperandTypes, WordBounds, WordMax, MachineAssumption
       DEF IInv, TypeOK, MachineTypeOK
  <2>2. address \in Nat /\ registers[R0] <= address /\ address < WORD_MAX
    BY <2>1
  <2>3. address \in Word /\ address < cursor
    BY <2>1, <2>2, WordBounds DEF Behind, Word
  <2> QED
    BY <2>2, <2>3 DEF IInv, StringWalk
<1> QED
  BY <1>1, Invariant, FaultsBehind, PTL

(* Every byte taken from the input is the next one typed, and reaches the  *)
(* program in R0 or in KBDR.                                               *)
THEOREM KeysAreDelivered == Spec => KeysReachTheMachine
<1> DEFINE Delivered ==
      consumed' # consumed =>
        LET key == typed[Len(consumed) + 1]
        IN  /\ consumed' = Append(consumed, key)
            /\ registers'[R0] = key \/ Peek(memory', MR_KBDR) = key
<1>1. ASSUME IInv, [Next]_vars PROVE [Delivered]_vars
  <2>1. CASE MachineNext
    BY <1>1, <2>1, MachineStepKeys DEF IInv, TypeOK
  <2>2. CASE Environment \/ Ended \/ UNCHANGED vars
    BY <2>2 DEF Environment, TypeKey, CloseInput, Ended, vars, consoleVars
  <2> QED
    BY <1>1, <2>1, <2>2 DEF Next
<1>2. Spec => [][Delivered]_vars
  BY <1>1, Invariant, PTL DEF Spec
<1> QED
  BY <1>2 DEF KeysReachTheMachine

(* The condition flags belong to the last value an instruction or GETC     *)
(* put in a general register; only links to R7 and IN leave them behind.   *)
THEOREM FlagsAreTheLastResults == Spec => FlagsFollowResult
<1> DEFINE Followed ==
      \A r \in GeneralRegisters :
        registers'[r] # registers[r] =>
          \/ registers'[PROCESSOR_STATUS] = ConditionFlag(registers'[r])
          \/ r = R7 /\ registers'[R7] = PC
          \/ r = R0 /\ control = "in"
<1>1. ASSUME IInv, [Next]_vars PROVE [Followed]_vars
  <2>1. CASE MachineNext
    BY <1>1, <2>1, MachineStepResult DEF IInv, TypeOK
  <2>2. CASE Environment \/ Ended \/ UNCHANGED vars
    BY <2>2 DEF Environment, Ended, vars, machineVars
  <2> QED
    BY <1>1, <2>1, <2>2 DEF Next
<1>2. Spec => [][Followed]_vars
  BY <1>1, Invariant, PTL DEF Spec
<1> QED
  BY <1>2 DEF FlagsFollowResult

-----------------------------------------------------------------------------
(* Memory. *)

(* The address the code computes for a store is the signed one.            *)
LEMMA StoreAddresses ==
  ASSUME MachineTypeOK
  PROVE  /\ Opcode(instruction) = OP_ST => StoreTarget = PcRelative9
         /\ Opcode(instruction) = OP_STR => StoreTarget = BaseOffset
         /\ Opcode(instruction) = OP_STI => StoreTarget = ValueAt(PcRelative9)
<1>1. /\ instruction \in Word /\ PC \in Word /\ registers[SR1] \in Word
  BY OperandTypes DEF MachineTypeOK
<1> DEFINE field(span) == IF instruction % span < span \div 2
                          THEN instruction % span
                          ELSE (instruction % span) - span
<1>2. PcRelative9 = (PC + field(512)) % WORD_MAX
  BY <1>1, OffsetIsSigned DEF PcRelative9, PcOffset9
<1>3. BaseOffset = (registers[SR1] + field(64)) % WORD_MAX
  BY <1>1, OffsetIsSigned DEF BaseOffset, Offset6
<1>4. ValueAt(PcRelative9) = IF PcRelative9 # MR_KBSR
                             THEN Peek(memory, PcRelative9)
                             ELSE IF check_key THEN KEY_READY ELSE 0
  BY DEF ValueAt, AfterRead, Peek, Store, MR_KBSR, MR_KBDR
<1>5. ASSUME Opcode(instruction) = OP_ST PROVE StoreTarget = PcRelative9
  BY <1>2, <1>5 DEF StoreTarget, OP_ST, OP_STI, OP_STR
<1>6. ASSUME Opcode(instruction) = OP_STR PROVE StoreTarget = BaseOffset
  BY <1>3, <1>6 DEF StoreTarget, OP_ST, OP_STI, OP_STR, SR1, FieldSR1
<1>7. ASSUME Opcode(instruction) = OP_STI
      PROVE  StoreTarget = ValueAt(PcRelative9)
  BY <1>2, <1>4, <1>7 DEF StoreTarget, OP_ST, OP_STI, OP_STR
<1> QED
  BY <1>5, <1>6, <1>7

(* A step that stores does so where the instruction says, beside what its  *)
(* poll leaves; any other step at most polls.                              *)
LEMMA MachineStepMemory ==
  ASSUME MachineTypeOK, ConsoleTypeOK, MachineNext
  PROVE  \/ UNCHANGED memory
         \/ \E address : Poll(address) /\ memory' = AfterRead(address)
         \/ \E address, value :
              /\ StoresAt(address)
              /\ memory' = Store(memory, address, value)
         \/ \E address, pointer, value :
              /\ StoresAt(address) /\ Poll(pointer)
              /\ address = ValueAt(pointer)
              /\ memory' = Store(AfterRead(pointer), address, value)
<1>1. CASE OperationSt \/ OperationStr
  BY <1>1, StoreAddresses DEF OperationSt, OperationStr, StoreAt, StoresAt,
     Stores, Executing
<1>2. CASE OperationSti
  BY <1>2, StoreAddresses DEF OperationSti, StoresAt, Stores, Executing
<1>3. CASE Fetch \/ OperationLd \/ OperationLdr \/ OperationLdi
  BY <1>3 DEF Fetch, OperationLd, OperationLdr, OperationLdi, Load
<1>4. CASE \/ OperationAdd \/ OperationAnd \/ OperationNot \/ OperationLea
           \/ OperationBr \/ OperationJmp \/ OperationJsr \/ AbortOperation
  BY <1>4 DEF OperationAdd, OperationAnd, OperationNot, OperationLea,
     OperationBr, OperationJmp, OperationJsr, AbortOperation, RegistersOnly
<1>5. CASE TrapSteps
  BY <1>5 DEF TrapSteps, TrapGetc, TrapOut, TrapIn, TrapInEcho, StartString,
     PrintWord, FinishString, FaultOnString, TrapHalt, AbortTrap
<1> QED
  BY <1>1, <1>2, <1>3, <1>4, <1>5 DEF MachineNext, Operations

(* A poll changes KBSR and KBDR only.                                      *)
LEMMA PollsElsewhere ==
  ASSUME NEW address, NEW a, a \notin {MR_KBSR, MR_KBDR}
  PROVE  Peek(AfterRead(address), a) = Peek(memory, a)
  BY DEF AfterRead, Peek, Store

(* A store changes the cell it is for.                                     *)
LEMMA StoresElsewhere ==
  ASSUME NEW cells, NEW address, NEW value, NEW a, a # address
  PROVE  Peek(Store(cells, address, value), a) = Peek(cells, a)
  BY DEF Peek, Store

(* Memory is written by stores, at the address the instruction names in    *)
(* signed arithmetic, and by keyboard polls in KBSR and KBDR.              *)
THEOREM StoresGoToTheirTarget == Spec => StoresHitTheirTarget
<1> DEFINE Hit ==
      \A a \in DOMAIN memory' :
        Peek(memory', a) # Peek(memory, a) =>
          a \in {MR_KBSR, MR_KBDR} \/ StoresAt(a)
<1>1. ASSUME IInv, [Next]_vars PROVE [Hit]_vars
  <2>1. CASE MachineNext
    <3> SUFFICES ASSUME NEW a \in DOMAIN memory',
                        Peek(memory', a) # Peek(memory, a),
                        a \notin {MR_KBSR, MR_KBDR}
                 PROVE  StoresAt(a)
      OBVIOUS
    <3>1. ASSUME NEW address, memory' = AfterRead(address) PROVE FALSE
      BY <3>1, PollsElsewhere
    <3>2. ASSUME NEW address, NEW value, StoresAt(address),
                 memory' = Store(memory, address, value)
          PROVE  StoresAt(a)
      BY <3>2, StoresElsewhere
    <3>3. ASSUME NEW address, NEW pointer, NEW value, StoresAt(address),
                 memory' = Store(AfterRead(pointer), address, value)
          PROVE  StoresAt(a)
      BY <3>3, StoresElsewhere, PollsElsewhere
    <3> QED
      BY <1>1, <2>1, <3>1, <3>2, <3>3, MachineStepMemory DEF IInv, TypeOK
  <2>2. CASE Environment \/ Ended \/ UNCHANGED vars
    BY <2>2 DEF Environment, Ended, vars, machineVars
  <2> QED
    BY <1>1, <2>1, <2>2 DEF Next
<1>2. Spec => [][Hit]_vars
  BY <1>1, Invariant, PTL DEF Spec
<1> QED
  BY <1>2 DEF StoresHitTheirTarget

(* A poll that changes KBDR found a key ready, took it and latched it, or  *)
(* met the end of the input.                                               *)
LEMMA PollLatches ==
  ASSUME InputTypeOK, NEW address, Poll(address),
         Peek(AfterRead(address), MR_KBDR) # Peek(memory, MR_KBDR)
  PROVE  /\ Peek(AfterRead(address), MR_KBSR) = KEY_READY
         /\ ValueAt(address) = KEY_READY
         /\ \/ consumed' = Append(consumed, Peek(AfterRead(address), MR_KBDR))
            \/ /\ inputClosed
               /\ Peek(AfterRead(address), MR_KBDR) = EndOfInput
<1>1. address = MR_KBSR /\ check_key /\ Getc
  BY DEF Poll, AfterRead, Peek, Store, MR_KBSR, MR_KBDR
<1>2. /\ Peek(AfterRead(address), MR_KBSR) = KEY_READY
      /\ ValueAt(address) = KEY_READY
      /\ Peek(AfterRead(address), MR_KBDR) = NextCharacter
  BY <1>1 DEF AfterRead, ValueAt, Peek, Store, MR_KBSR, MR_KBDR
<1>3. stdinBuffer \in Seq(Byte) /\ ttyQueue \in Seq(Byte)
  BY DEF InputTypeOK
<1>4. CASE stdinBuffer # <<>> /\ consumed' = Append(consumed, Head(stdinBuffer))
  <2>1. Pending # <<>> /\ Head(Pending) = Head(stdinBuffer)
    BY <1>3, <1>4 DEF Pending
  <2> QED
    BY <1>2, <1>4, <2>1 DEF NextCharacter
<1>5. CASE /\ stdinBuffer = <<>> /\ ttyQueue # <<>>
           /\ consumed' = Append(consumed, Head(ttyQueue))
  <2>1. Pending = ttyQueue
    BY <1>3, <1>5 DEF Pending
  <2> QED
    BY <1>2, <1>5, <2>1 DEF NextCharacter
<1>6. CASE stdinBuffer = <<>> /\ ttyQueue = <<>> /\ inputClosed
  <2>1. Pending = <<>>
    BY <1>6 DEF Pending
  <2> QED
    BY <1>2, <1>6, <2>1 DEF NextCharacter
<1> QED
  BY <1>1, <1>4, <1>5, <1>6 DEF Getc

(* KBDR keeps the last key until a poll finds the next one ready: a poll   *)
(* that finds none does not disturb it.                                    *)
THEOREM KeysAreLatched == Spec => KeyDataLatched
<1> DEFINE Latched ==
      Peek(memory', MR_KBDR) # Peek(memory, MR_KBDR) =>
        \/ StoresAt(MR_KBDR)
        \/ /\ Peek(memory', MR_KBSR) = KEY_READY
           /\ \/ consumed' = Append(consumed, Peek(memory', MR_KBDR))
              \/ inputClosed /\ Peek(memory', MR_KBDR) = EndOfInput
<1>1. ASSUME IInv, [Next]_vars PROVE [Latched]_vars
  <2>1. CASE MachineNext
    <3> SUFFICES ASSUME Peek(memory', MR_KBDR) # Peek(memory, MR_KBDR),
                        ~StoresAt(MR_KBDR)
                 PROVE  /\ Peek(memory', MR_KBSR) = KEY_READY
                        /\ \/ consumed' = Append(consumed,
                                                 Peek(memory', MR_KBDR))
                           \/ /\ inputClosed
                              /\ Peek(memory', MR_KBDR) = EndOfInput
      OBVIOUS
    <3>1. InputTypeOK
      BY <1>1 DEF IInv, TypeOK, ConsoleTypeOK
    <3>2. CASE UNCHANGED memory
      BY <3>2
    <3>3. CASE \E address : Poll(address) /\ memory' = AfterRead(address)
      BY <3>1, <3>3, PollLatches
    <3>4. ASSUME NEW address, NEW value, StoresAt(address),
                 memory' = Store(memory, address, value)
          PROVE  FALSE
      BY <3>4, StoresElsewhere
    <3>5. ASSUME NEW address, NEW pointer, NEW value, StoresAt(address),
                 Poll(pointer), address = ValueAt(pointer),
                 memory' = Store(AfterRead(pointer), address, value)
          PROVE  /\ Peek(memory', MR_KBSR) = KEY_READY
                 /\ \/ consumed' = Append(consumed, Peek(memory', MR_KBDR))
                    \/ inputClosed /\ Peek(memory', MR_KBDR) = EndOfInput
      <4>1. Peek(memory', MR_KBDR) = Peek(AfterRead(pointer), MR_KBDR)
        BY <3>5, StoresElsewhere
      <4>2. address # MR_KBSR
        BY <3>1, <3>5, <4>1, PollLatches DEF KEY_READY, MR_KBSR
      <4>3. Peek(memory', MR_KBSR) = Peek(AfterRead(pointer), MR_KBSR)
        BY <3>5, <4>2, StoresElsewhere
      <4> QED
        BY <3>1, <3>5, <4>1, <4>3, PollLatches
    <3>6. MachineTypeOK /\ ConsoleTypeOK
      BY <1>1 DEF IInv, TypeOK
    <3> QED
      BY <2>1, <3>2, <3>3, <3>4, <3>5, <3>6, MachineStepMemory
  <2>2. CASE Environment \/ Ended \/ UNCHANGED vars
    BY <2>2 DEF Environment, Ended, vars, machineVars
  <2> QED
    BY <1>1, <2>1, <2>2 DEF Next
<1>2. Spec => [][Latched]_vars
  BY <1>1, Invariant, PTL DEF Spec
<1> QED
  BY <1>2 DEF KeyDataLatched

-----------------------------------------------------------------------------
(* The machine is what LC3Contract promises. *)

(* getc hands over the first of the waiting keys, whichever queue it is in.*)
LEMMA GetcReceives == ASSUME InputTypeOK, Getc PROVE Contract!Receive
<1> USE DEF Pending
<1>1. stdinBuffer \in Seq(Byte) /\ ttyQueue \in Seq(Byte)
  BY DEF InputTypeOK
<1>2. CASE /\ stdinBuffer # <<>>
           /\ stdinBuffer' = Tail(stdinBuffer)
           /\ consumed' = Append(consumed, Head(stdinBuffer))
           /\ ttyQueue' = ttyQueue
  <2>1. /\ Pending # <<>> /\ Head(Pending) = Head(stdinBuffer)
        /\ Tail(Pending) = Tail(stdinBuffer) \o ttyQueue
    BY <1>1, <1>2
  <2> QED
    BY <1>2, <2>1 DEF Contract!Receive
<1>3. CASE /\ stdinBuffer = <<>> /\ ttyQueue # <<>>
           /\ stdinBuffer' = Tail(ttyQueue) /\ ttyQueue' = <<>>
           /\ consumed' = Append(consumed, Head(ttyQueue))
  <2>1. Pending = ttyQueue /\ Tail(ttyQueue) \o <<>> = Tail(ttyQueue)
    BY <1>1, <1>3
  <2> QED
    BY <1>3, <2>1 DEF Contract!Receive
<1>4. CASE UNCHANGED <<stdinBuffer, ttyQueue, consumed>>
  BY <1>4 DEF Contract!Receive
<1> QED
  BY <1>2, <1>3, <1>4 DEF Getc

(* What is put behind the output leaves the output in front of it.         *)
LEMMA PutWrites ==
  ASSUME OutputTypeOK,
         \/ UNCHANGED outputVars
         \/ \E items \in Seq(OutputItems) : Put(items) \/ PutAndFlush(items)
  PROVE  Contract!Write
<1>1. ASSUME NEW s \in Seq(OutputItems), NEW items \in Seq(OutputItems)
      PROVE  /\ Len(s) <= Len(s \o items)
             /\ SubSeq(s \o items, 1, Len(s)) = s
             /\ SubSeq(s, 1, Len(s)) = s /\ Len(s) <= Len(s)
  OBVIOUS
<1>2. output \in Seq(OutputItems)
  BY DEF OutputTypeOK
<1>3. CASE UNCHANGED outputVars
  BY <1>1, <1>2, <1>3 DEF Contract!Write, outputVars
<1>4. ASSUME NEW items \in Seq(OutputItems), Put(items) \/ PutAndFlush(items)
      PROVE  Contract!Write
  BY <1>1, <1>2, <1>4 DEF Contract!Write, Put, PutAndFlush
<1> QED
  BY <1>3, <1>4

(* A step of the machine is one of the contract's, and none follows its    *)
(* end.                                                                    *)
LEMMA MachineRuns ==
  ASSUME MachineTypeOK, ConsoleTypeOK, MachineNext PROVE Contract!Run
<1>1. InputTypeOK /\ OutputTypeOK
  BY DEF ConsoleTypeOK
<1>2. Contract!Receive /\ UNCHANGED inputClosed
  <2>1. CASE UNCHANGED inputVars
    BY <2>1 DEF Contract!Receive, inputVars, Pending
  <2>2. CASE Getc
    BY <1>1, <2>2, GetcReceives DEF Getc
  <2> QED
    BY <1>1, <2>1, <2>2, MachineStepInput
<1>3. Contract!Write
  BY <1>1, MachineStepOutput, PutWrites
<1>4. control \notin Stopped
  BY DEF MachineNext, Fetch, Operations, OperationAdd, OperationAnd,
     OperationNot, OperationLea, OperationBr, OperationJmp, OperationJsr,
     OperationLd, OperationLdr, OperationLdi, OperationSt, OperationStr,
     OperationSti, AbortOperation, Executing, TrapSteps, Trapping, TrapGetc,
     TrapOut, TrapIn, TrapInEcho, StartString, PrintWord, FinishString,
     FaultOnString, TrapHalt, AbortTrap, Stopped
<1> QED
  BY <1>2, <1>3, <1>4 DEF Contract!Run

(* What the user does to the input is what the contract lets a user do.    *)
LEMMA UserTypes ==
  ASSUME InputTypeOK, Environment
  PROVE  Contract!Type \/ Contract!Close
<1>1. UNCHANGED <<control, output, flushed, consumed>>
  BY DEF Environment, TypeKey, CloseInput, machineVars
<1>2. ASSUME NEW key \in Keys, TypeKey(key) PROVE Contract!Type
  <2>1. key \in Byte /\ stdinBuffer \in Seq(Byte) /\ ttyQueue \in Seq(Byte)
    BY ConsoleAssumption DEF InputTypeOK
  <2>2. stdinBuffer \o Append(ttyQueue, key)
          = Append(stdinBuffer \o ttyQueue, key)
    BY <2>1
  <2>3. Pending' = Append(Pending, key) /\ ~inputClosed
        /\ inputClosed' = inputClosed
    BY <1>2, <2>2 DEF TypeKey, Pending
  <2> QED
    BY <1>1, <2>3 DEF Contract!Type
<1>3. CASE CloseInput
  BY <1>1, <1>3 DEF CloseInput, Contract!Close, Pending
<1> QED
  BY <1>2, <1>3 DEF Environment

(* Whatever program runs on whatever input, the machine is a filter from   *)
(* keys to output.                                                         *)
THEOREM ProgramsFulfilTheContract == Spec => FulfilsContract
<1>1. Init => Contract!ContractInit
  <2> SUFFICES ASSUME Init PROVE Contract!ContractInit
    OBVIOUS
  <2>1. PICK program \in Programs : ConsoleInit(program.closed)
    BY DEF Init
  <2>2. program.closed \in BOOLEAN
    BY ProgramsAssumption
  <2>3. /\ stdinBuffer = <<>> /\ ttyQueue = <<>> /\ consumed = <<>>
        /\ inputClosed \in BOOLEAN /\ output = <<>> /\ flushed = 0
    BY <2>1, <2>2 DEF ConsoleInit
  <2>4. <<>> \o <<>> = <<>>
    OBVIOUS
  <2>5. Pending = <<>>
    BY <2>3, <2>4 DEF Pending
  <2>6. control \notin Stopped
    BY DEF Init, Stopped
  <2> QED
    BY <2>3, <2>5, <2>6 DEF Contract!ContractInit
<1>2. ASSUME IInv, [Next]_vars
      PROVE  [Contract!ContractNext]_(Contract!contractVars)
  <2>1. CASE MachineNext
    BY <1>2, <2>1, MachineRuns DEF IInv, TypeOK, Contract!ContractNext
  <2>2. CASE Environment
    BY <1>2, <2>2, UserTypes
       DEF IInv, TypeOK, ConsoleTypeOK, Contract!ContractNext
  <2>3. CASE Ended \/ UNCHANGED vars
    BY <2>3 DEF Ended, vars, machineVars, consoleVars, Pending,
       Contract!contractVars
  <2> QED
    BY <1>2, <2>1, <2>2, <2>3 DEF Next
<1> QED
  BY <1>1, <1>2, Invariant, PTL DEF Spec, FulfilsContract, Contract!ContractSpec

-----------------------------------------------------------------------------
(* The two programs of MCEcho. *)

\* What the echo has done between two instructions: every key taken is
\* written; or one key, or the end of the input, is on its way.
Caught == consumed = output
Drained == inputClosed /\ Pending = <<>>
Carried(key) ==
  \/ key \in Byte /\ consumed = Append(output, key)
  \/ key = EndOfInput /\ Caught /\ Drained

\* The instruction at a is fetched next, or being executed.
At(a) ==
  \/ control = "fetch" /\ PC = a
  \/ control = "execute" /\ PC = a + 1 /\ instruction = Peek(memory, a)

InPlace(program) ==
  \A a \in DOMAIN program.cells : Peek(memory, a) = program.cells[a]

\* Both programs take a key into R0, then BRn 2, OUT, BR back and HALT, from
\* test on; they differ in how they take it.
EchoProgram(test) == IF test = 12289 THEN GetcEcho ELSE PollEcho
Status == registers[PROCESSOR_STATUS]

Echoing(test, a) ==
  \/ a = test /\ Carried(registers[R0])
       /\ Status = ConditionFlag(registers[R0])
  \/ a = test + 1 /\ Carried(registers[R0]) /\ registers[R0] \in Byte
  \/ a = test + 2 /\ Caught
  \/ a = test + 3 /\ Caught /\ Drained

Reading(test, a) ==
  \/ a = 12288 /\ Caught
  \/ /\ test = 12291 /\ a = 12289
     /\ \/ Status = CONDITION_FLAG_NEGATIVE /\ Carried(Peek(memory, MR_KBDR))
        \/ Status = CONDITION_FLAG_ZERO /\ Caught
  \/ test = 12291 /\ a = 12290 /\ Carried(Peek(memory, MR_KBDR))

\* HALT's message is behind the echo and stays in stdout's buffer.
Finished ==
  /\ control = "halted"
  /\ output = Append(consumed, HaltMessage) /\ flushed = Len(consumed)
  /\ Drained

Here(test) ==
  \E a \in 12288 .. test + 3 : At(a) /\ (Reading(test, a) \/ Echoing(test, a))

EchoInv ==
  \E test \in {12289, 12291} :
    /\ InPlace(EchoProgram(test))
    /\ Here(test) \/ Finished

\* Every program in memory is one of the two; the other cells may hold
\* anything.
OnlyEchoPrograms ==
  \A program \in Programs :
    /\ program.origin = 12288
    /\ \E echo \in EchoPrograms :
         \A a \in DOMAIN echo.cells : Peek(program.cells, a) = echo.cells[a]

(* The code of the two programs, word by word, and where it lies.          *)
LEMMA EchoCode ==
  /\ DOMAIN GetcEcho.cells = 12288 .. 12292
  /\ DOMAIN PollEcho.cells = 12288 .. 12296
  /\ InPlace(GetcEcho) <=>
       /\ Peek(memory, 12288) = 61472 /\ Peek(memory, 12289) = 2050
       /\ Peek(memory, 12290) = 61473 /\ Peek(memory, 12291) = 4092
       /\ Peek(memory, 12292) = HALT
  /\ InPlace(PollEcho) <=>
       /\ Peek(memory, 12288) = 40966 /\ Peek(memory, 12289) = 2046
       /\ Peek(memory, 12290) = 40965 /\ Peek(memory, 12291) = 2050
       /\ Peek(memory, 12292) = 61473 /\ Peek(memory, 12293) = 4090
       /\ Peek(memory, 12294) = HALT /\ Peek(memory, 12295) = 65024
       /\ Peek(memory, 12296) = 65026
<1> DEFINE getc == <<61472, 2050, 61473, 4092, HALT>>
           poll == <<40966, 2046, 40965, 2050, 61473, 4090, HALT, 65024, 65026>>
<1>1. HALT \in Int
  BY DEF HALT
<1>2. getc \in Seq(Int) /\ Len(getc) = 5 /\ poll \in Seq(Int) /\ Len(poll) = 9
  BY <1>1
<1>3. /\ DOMAIN GetcEcho.cells = 12288 .. 12292
      /\ \A a \in 12288 .. 12292 : GetcEcho.cells[a] = getc[a - 12287]
  <2>1. /\ DOMAIN GetcEcho.cells = 12288 .. 12288 + 5 - 1
        /\ \A a \in 12288 .. 12288 + 5 - 1 :
             GetcEcho.cells[a] = getc[a - 12288 + 1]
    <3>1. GetcEcho = Code(12288, getc)
      BY DEF GetcEcho
    <3>2. /\ DOMAIN Code(12288, getc).cells = 12288 .. 12288 + 5 - 1
          /\ \A a \in 12288 .. 12288 + 5 - 1 :
               Code(12288, getc).cells[a] = getc[a - 12288 + 1]
      BY <1>2 DEF Code
    <3> QED
      BY <3>1, <3>2
  <2>2. 12288 + 5 - 1 = 12292
    OBVIOUS
  <2>3. \A a \in 12288 .. 12292 : a - 12288 + 1 = a - 12287
    OBVIOUS
  <2> QED
    BY <2>1, <2>2, <2>3
<1>4. /\ DOMAIN PollEcho.cells = 12288 .. 12296
      /\ \A a \in 12288 .. 12296 : PollEcho.cells[a] = poll[a - 12287]
  <2>1. /\ DOMAIN PollEcho.cells = 12288 .. 12288 + 9 - 1
        /\ \A a \in 12288 .. 12288 + 9 - 1 :
             PollEcho.cells[a] = poll[a - 12288 + 1]
    <3>1. PollEcho = Code(12288, poll)
      BY DEF PollEcho
    <3>2. /\ DOMAIN Code(12288, poll).cells = 12288 .. 12288 + 9 - 1
          /\ \A a \in 12288 .. 12288 + 9 - 1 :
               Code(12288, poll).cells[a] = poll[a - 12288 + 1]
      BY <1>2 DEF Code
    <3> QED
      BY <3>1, <3>2
  <2>2. 12288 + 9 - 1 = 12296
    OBVIOUS
  <2>3. \A a \in 12288 .. 12296 : a - 12288 + 1 = a - 12287
    OBVIOUS
  <2> QED
    BY <2>1, <2>2, <2>3
<1>5. InPlace(GetcEcho) <=>
        \A a \in 12288 .. 12292 : Peek(memory, a) = getc[a - 12287]
  BY <1>3 DEF InPlace
<1>6. InPlace(PollEcho) <=>
        \A a \in 12288 .. 12296 : Peek(memory, a) = poll[a - 12287]
  BY <1>4 DEF InPlace
<1>7. \A a : a \in 12288 .. 12292 <=> a \in {12288, 12289, 12290, 12291, 12292}
  OBVIOUS
<1>8. \A a : a \in 12288 .. 12296 <=>
        a \in {12288, 12289, 12290, 12291, 12292, 12293, 12294, 12295, 12296}
  OBVIOUS
<1>9. /\ getc[12288 - 12287] = 61472 /\ getc[12289 - 12287] = 2050
      /\ getc[12290 - 12287] = 61473 /\ getc[12291 - 12287] = 4092
      /\ getc[12292 - 12287] = HALT
  OBVIOUS
<1>10. /\ poll[12288 - 12287] = 40966 /\ poll[12289 - 12287] = 2046
       /\ poll[12290 - 12287] = 40965 /\ poll[12291 - 12287] = 2050
       /\ poll[12292 - 12287] = 61473 /\ poll[12293 - 12287] = 4090
       /\ poll[12294 - 12287] = HALT /\ poll[12295 - 12287] = 65024
       /\ poll[12296 - 12287] = 65026
  OBVIOUS
<1> HIDE DEF getc, poll
<1> QED
  BY <1>3, <1>4, <1>5, <1>6, <1>7, <1>8, <1>9, <1>10

(* The fields of the words of the two programs.                            *)
LEMMA EchoFields ==
  /\ \A word \in {2046, 2050, 4090, 4092} : Opcode(word) = OP_BR
  /\ \A word \in {40965, 40966} : Opcode(word) = OP_LDI /\ FieldDR(word) = R0
  /\ \A word \in {61472, 61473, HALT} : Opcode(word) = OP_TRAP
  /\ 61472 % 256 = TRAP_GETC /\ 61473 % 256 = TRAP_OUT /\ HALT % 256 = TRAP_HALT
  /\ PcOffset9(2050) = 2 /\ PcOffset9(2046) = 65534
  /\ PcOffset9(4092) = 65532 /\ PcOffset9(4090) = 65530
  /\ PcOffset9(40965) = 5 /\ PcOffset9(40966) = 6
<1>1. /\ \A word \in {2046, 2050, 4090, 4092} : Opcode(word) = OP_BR
      /\ \A word \in {40965, 40966} :
           Opcode(word) = OP_LDI /\ FieldDR(word) = R0
      /\ \A word \in {61472, 61473, HALT} : Opcode(word) = OP_TRAP
  BY DEF Opcode, FieldDR, OP_BR, OP_LDI, OP_TRAP, HALT, R0
<1>2. /\ 61472 % 256 = TRAP_GETC /\ 61473 % 256 = TRAP_OUT
      /\ HALT % 256 = TRAP_HALT
  BY DEF TRAP_GETC, TRAP_OUT, TRAP_HALT, HALT
<1>3. /\ PcOffset9(2050) = 2 /\ PcOffset9(2046) = 65534
      /\ PcOffset9(4092) = 65532 /\ PcOffset9(4090) = 65530
      /\ PcOffset9(40965) = 5 /\ PcOffset9(40966) = 6
  BY DEF PcOffset9, SignExtend, WORD_MAX
<1> QED
  BY <1>1, <1>2, <1>3

(* A step that executes an instruction is that instruction's operation.    *)
LEMMA ExecutedIs ==
  ASSUME MachineNext, control = "execute"
  PROVE  /\ Opcode(instruction) = OP_BR => OperationBr
         /\ Opcode(instruction) = OP_LDI => OperationLdi
         /\ Opcode(instruction) = OP_ADD => OperationAdd
         /\ Opcode(instruction) = OP_AND => OperationAnd
         /\ Opcode(instruction) = OP_NOT => OperationNot
         /\ Opcode(instruction) = OP_LEA => OperationLea
         /\ Opcode(instruction) = OP_JMP => OperationJmp
         /\ Opcode(instruction) = OP_JSR => OperationJsr
         /\ Opcode(instruction) = OP_LD => OperationLd
         /\ Opcode(instruction) = OP_LDR => OperationLdr
         /\ Opcode(instruction) = OP_ST => OperationSt
         /\ Opcode(instruction) = OP_STR => OperationStr
         /\ Trapping(TRAP_GETC) => TrapGetc
         /\ Trapping(TRAP_OUT) => TrapOut
         /\ Trapping(TRAP_HALT) => TrapHalt
<1>1. Operations \/ TrapSteps
  BY DEF MachineNext, Fetch
<1>2. TrapSteps => Opcode(instruction) = OP_TRAP
  BY DEF TrapSteps, TrapGetc, TrapOut, TrapIn, TrapInEcho, StartString,
     PrintWord, FinishString, FaultOnString, TrapHalt, AbortTrap, Trapping,
     Executing
<1>3. Operations => Opcode(instruction) # OP_TRAP
  BY DEF Operations, OperationAdd, OperationAnd, OperationNot, OperationLea,
     OperationBr, OperationJmp, OperationJsr, OperationLd, OperationLdr,
     OperationLdi, OperationSt, OperationStr, OperationSti, AbortOperation,
     Executing, OP_BR, OP_ADD, OP_LD, OP_ST, OP_JSR, OP_AND, OP_LDR, OP_STR,
     OP_RTI, OP_NOT, OP_LDI, OP_STI, OP_JMP, OP_RES, OP_LEA, OP_TRAP
<1>4. Operations =>
        /\ Opcode(instruction) = OP_BR => OperationBr
        /\ Opcode(instruction) = OP_LDI => OperationLdi
        /\ Opcode(instruction) = OP_ADD => OperationAdd
        /\ Opcode(instruction) = OP_AND => OperationAnd
        /\ Opcode(instruction) = OP_NOT => OperationNot
        /\ Opcode(instruction) = OP_LEA => OperationLea
        /\ Opcode(instruction) = OP_JMP => OperationJmp
        /\ Opcode(instruction) = OP_JSR => OperationJsr
        /\ Opcode(instruction) = OP_LD => OperationLd
        /\ Opcode(instruction) = OP_LDR => OperationLdr
        /\ Opcode(instruction) = OP_ST => OperationSt
        /\ Opcode(instruction) = OP_STR => OperationStr
  BY DEF Operations, OperationAdd, OperationAnd, OperationNot, OperationLea,
     OperationBr, OperationJmp, OperationJsr, OperationLd, OperationLdr,
     OperationLdi, OperationSt, OperationStr, OperationSti, AbortOperation,
     Executing, OP_BR, OP_ADD, OP_LD, OP_ST, OP_JSR, OP_AND, OP_LDR, OP_STR,
     OP_RTI, OP_NOT, OP_LDI, OP_STI, OP_JMP, OP_RES, OP_LEA
<1>5. /\ TrapSteps /\ Trapping(TRAP_GETC) => TrapGetc
      /\ TrapSteps /\ Trapping(TRAP_OUT) => TrapOut
      /\ TrapSteps /\ Trapping(TRAP_HALT) => TrapHalt
  BY DEF TrapSteps, TrapGetc, TrapOut, TrapIn, TrapInEcho, StartString,
     PrintWord, FinishString, FaultOnString, TrapHalt, AbortTrap, Trapping,
     Executing, TRAP_GETC, TRAP_OUT, TRAP_PUTS, TRAP_IN, TRAP_PUTSP, TRAP_HALT,
     Traps
<1>6. OP_TRAP \notin {OP_BR, OP_LDI, OP_ADD, OP_AND, OP_NOT, OP_LEA, OP_JMP,
                     OP_JSR, OP_LD, OP_LDR, OP_ST, OP_STR}
  BY DEF OP_BR, OP_LDI, OP_ADD, OP_AND, OP_NOT, OP_LEA, OP_JMP, OP_JSR, OP_LD,
     OP_LDR, OP_ST, OP_STR, OP_TRAP
<1> QED
  BY <1>1, <1>2, <1>3, <1>4, <1>5, <1>6 DEF Trapping, Executing

\* The general registers but these, and the status, stay.
Kept(codes) ==
  \A r \in GeneralRegisters \ codes : registers'[r] = registers[r]

(* A step of a process between two instructions is the fetch.              *)
LEMMA FetchesIs == MachineNext /\ control = "fetch" => Fetch
  BY DEF MachineNext, Operations, OperationAdd, OperationAnd, OperationNot,
     OperationLea, OperationBr, OperationJmp, OperationJsr, OperationLd,
     OperationLdr, OperationLdi, OperationSt, OperationStr, OperationSti,
     AbortOperation, TrapSteps, TrapGetc, TrapOut, TrapIn, TrapInEcho,
     StartString, PrintWord, FinishString, FaultOnString, TrapHalt, AbortTrap,
     Trapping, Executing

(* The registers have different codes.                                     *)
LEMMA RegistersDiffer ==
  /\ PROGRAM_COUNTER \in RegisterCodes /\ PROCESSOR_STATUS \in RegisterCodes
  /\ PROGRAM_COUNTER # PROCESSOR_STATUS
  /\ GeneralRegisters \subseteq RegisterCodes
  /\ PROGRAM_COUNTER \notin GeneralRegisters
  /\ PROCESSOR_STATUS \notin GeneralRegisters
  /\ R0 \in GeneralRegisters /\ R7 \in GeneralRegisters /\ R0 # R7
  BY DEF RegisterCodes, GeneralRegisters, PROGRAM_COUNTER, PROCESSOR_STATUS,
     R0, R7

(* A fetch anywhere but from KBSR takes the word and moves on.             *)
LEMMA FetchedIs ==
  ASSUME MachineTypeOK, Fetch, PC # MR_KBSR, PC < 65535
  PROVE  /\ control' = "execute" /\ PC' = PC + 1
         /\ instruction' = Peek(memory, PC)
         /\ Kept({}) /\ registers'[R0] = registers[R0]
         /\ Status' = Status
         /\ UNCHANGED <<memory, inputVars, outputVars>>
<1>1. registers \in [RegisterCodes -> Word]
  BY DEF MachineTypeOK
<1>2. PC \in Int /\ 0 <= PC
  BY <1>1, RegistersDiffer, WordBounds DEF PC
<1>3. Wrap(PC + 1) = PC + 1
  BY <1>2 DEF Wrap, WORD_MAX
<1>4. registers' = [registers EXCEPT ![PROGRAM_COUNTER] = PC + 1]
  <2>1. registers' = SetRegister(PROGRAM_COUNTER, Wrap(PC + 1))
    BY DEF Fetch
  <2>2. @ = SetRegister(PROGRAM_COUNTER, PC + 1)
    BY <1>3
  <2> QED
    BY <2>1, <2>2 DEF SetRegister
<1>5. PC' = PC + 1 /\ Kept({}) /\ Status' = Status
  BY <1>1, <1>4, RegistersDiffer DEF PC, Status, Kept
<1>6. registers'[R0] = registers[R0]
  BY <1>5, RegistersDiffer DEF Kept
<1>7. AfterRead(PC) = memory /\ ValueAt(PC) = Peek(memory, PC)
  BY DEF AfterRead, ValueAt
<1> QED
  BY <1>5, <1>6, <1>7 DEF Fetch, Poll

(* A branch moves the program counter, or does nothing.                    *)
LEMMA BranchedIs ==
  ASSUME MachineTypeOK, OperationBr
  PROVE  /\ control' = "fetch"
         /\ PC' = IF BranchTaken THEN PcRelative9 ELSE PC
         /\ Kept({}) /\ registers'[R0] = registers[R0]
         /\ Status' = Status
         /\ UNCHANGED <<memory, inputVars, outputVars>>
<1>1. registers \in [RegisterCodes -> Word]
  BY DEF MachineTypeOK
<1>2. /\ PC' = IF BranchTaken THEN PcRelative9 ELSE PC
      /\ Kept({}) /\ Status' = Status
  BY <1>1, RegistersDiffer DEF OperationBr, SetRegister, PC, Status, Kept
<1>3. registers'[R0] = registers[R0]
  BY <1>2, RegistersDiffer DEF Kept
<1> QED
  BY <1>2, <1>3 DEF OperationBr, RegistersOnly, Continue

(* The three branches of the two programs, taken by the sign of the last   *)
(* result.                                                                 *)
LEMMA EchoBranches ==
  /\ instruction = 2050 => (BranchTaken <=> Status = CONDITION_FLAG_NEGATIVE)
  /\ instruction = 2046 =>
       (BranchTaken <=>
         Status \in {CONDITION_FLAG_ZERO, CONDITION_FLAG_POSITIVE})
  /\ instruction \in {4090, 4092} /\ Status \in ConditionFlags => BranchTaken
<1>1. /\ (2050 \div 2048) % 2 = 1 /\ (2050 \div 1024) % 2 = 0
      /\ (2050 \div 512) % 2 = 0
      /\ (2046 \div 2048) % 2 = 0 /\ (2046 \div 1024) % 2 = 1
      /\ (2046 \div 512) % 2 = 1
      /\ (4090 \div 2048) % 2 = 1 /\ (4090 \div 1024) % 2 = 1
      /\ (4090 \div 512) % 2 = 1
      /\ (4092 \div 2048) % 2 = 1 /\ (4092 \div 1024) % 2 = 1
      /\ (4092 \div 512) % 2 = 1
  OBVIOUS
<1>2. 0 # 1
  OBVIOUS
<1> DEFINE n == (instruction \div 2048) % 2
           z == (instruction \div 1024) % 2
           p == (instruction \div 512) % 2
<1>3. BranchTaken <=> \/ n = 1 /\ Status = CONDITION_FLAG_NEGATIVE
                      \/ z = 1 /\ Status = CONDITION_FLAG_ZERO
                      \/ p = 1 /\ Status = CONDITION_FLAG_POSITIVE
  BY DEF BranchTaken, Status
<1>4. /\ instruction = 2050 => n = 1 /\ z = 0 /\ p = 0
      /\ instruction = 2046 => n = 0 /\ z = 1 /\ p = 1
      /\ instruction \in {4090, 4092} => n = 1 /\ z = 1 /\ p = 1
  BY <1>1
<1> HIDE DEF n, z, p
<1> QED
  BY <1>2, <1>3, <1>4 DEF ConditionFlags

(* The flag of a key is not negative, that of the end of the input is.     *)
LEMMA KeyFlags ==
  /\ \A key \in Byte : ConditionFlag(key) # CONDITION_FLAG_NEGATIVE
  /\ ConditionFlag(EndOfInput) = CONDITION_FLAG_NEGATIVE
  /\ EndOfInput \notin Byte /\ EndOfInput \in Word
  /\ ConditionFlag(KEY_READY) = CONDITION_FLAG_NEGATIVE
  /\ ConditionFlag(0) = CONDITION_FLAG_ZERO
  BY ConstantWords DEF ConditionFlag, Byte, EndOfInput, WORD_MAX, KEY_READY,
     CONDITION_FLAG_NEGATIVE, CONDITION_FLAG_ZERO, CONDITION_FLAG_POSITIVE

(* A key on its way stays so while the console rests.                      *)
LEMMA CarriedStays ==
  ASSUME UNCHANGED <<inputVars, outputVars>>, NEW key
  PROVE  /\ Carried(key) => Carried(key)'
         /\ Caught => Caught' /\ (Drained => Drained')
  BY DEF Carried, Caught, Drained, Pending, inputVars, outputVars

(* getc starts a key, or the end of the input, on its way.                 *)
LEMMA GetcCarries ==
  ASSUME InputTypeOK, Caught, Getc, output' = output, NEW key,
         key = NextCharacter
  PROVE  Carried(key)'
<1>1. stdinBuffer \in Seq(Byte) /\ ttyQueue \in Seq(Byte)
  BY DEF InputTypeOK
<1>2. CASE stdinBuffer # <<>> /\ consumed' = Append(consumed, Head(stdinBuffer))
  <2>1. Pending # <<>> /\ Head(Pending) = Head(stdinBuffer)
    BY <1>1, <1>2 DEF Pending
  <2>2. key \in Byte /\ key = Head(stdinBuffer)
    BY <1>1, <1>2, <2>1 DEF NextCharacter
  <2> QED
    BY <1>2, <2>2 DEF Carried, Caught
<1>3. CASE /\ stdinBuffer = <<>> /\ ttyQueue # <<>>
           /\ consumed' = Append(consumed, Head(ttyQueue))
  <2>1. Pending = ttyQueue
    BY <1>1, <1>3 DEF Pending
  <2>2. key \in Byte /\ key = Head(ttyQueue)
    BY <1>1, <1>3, <2>1 DEF NextCharacter
  <2> QED
    BY <1>3, <2>2 DEF Carried, Caught
<1>4. CASE /\ stdinBuffer = <<>> /\ ttyQueue = <<>> /\ inputClosed
           /\ UNCHANGED <<stdinBuffer, ttyQueue, consumed, inputClosed>>
  <2>1. Pending = <<>> /\ Pending' = <<>>
    BY <1>4 DEF Pending
  <2> QED
    BY <1>4, <2>1 DEF NextCharacter, Carried, Caught, Drained
<1> QED
  BY <1>2, <1>3, <1>4 DEF Getc

(* The words from the test on, and those before it.                        *)
LEMMA EchoWords ==
  ASSUME NEW test \in {12289, 12291}, InPlace(EchoProgram(test))
  PROVE  /\ Peek(memory, test) = 2050 /\ Peek(memory, test + 1) = 61473
         /\ Peek(memory, test + 2) = IF test = 12289 THEN 4092 ELSE 4090
         /\ Peek(memory, test + 3) = HALT
         /\ test = 12289 => Peek(memory, 12288) = 61472
         /\ test = 12291 =>
              /\ Peek(memory, 12288) = 40966 /\ Peek(memory, 12289) = 2046
              /\ Peek(memory, 12290) = 40965
              /\ Peek(memory, 12295) = 65024 /\ Peek(memory, 12296) = 65026
<1>1. CASE test = 12289
  BY <1>1, EchoCode DEF EchoProgram
<1>2. CASE test = 12291
  BY <1>2, EchoCode DEF EchoProgram
<1> QED
  BY <1>1, <1>2

(* The code stays where it is when only the keyboard registers change.     *)
LEMMA EchoStays ==
  ASSUME NEW test \in {12289, 12291}, InPlace(EchoProgram(test)),
         \A a : a \notin {MR_KBSR, MR_KBDR} =>
           Peek(memory', a) = Peek(memory, a)
  PROVE  InPlace(EchoProgram(test))'
<1>1. DOMAIN EchoProgram(test).cells \subseteq 12288 .. 12296
  <2>1. /\ 12288 .. 12292 \subseteq 12288 .. 12296
        /\ 12288 .. 12296 \subseteq 12288 .. 12296
    OBVIOUS
  <2> QED
    BY <2>1, EchoCode DEF EchoProgram
<1>2. \A a \in 12288 .. 12296 : a \notin {MR_KBSR, MR_KBDR}
  BY DEF MR_KBSR, MR_KBDR
<1> QED
  BY <1>1, <1>2 DEF InPlace

(* Fetching leaves what the echo has done as it is. *)
LEMMA EchoFetched ==
  ASSUME IInv, Fetch, NEW test \in {12289, 12291},
         InPlace(EchoProgram(test)), Here(test)
  PROVE  InPlace(EchoProgram(test))' /\ Here(test)'
<1>1. PICK a \in 12288 .. test + 3 :
        At(a) /\ (Reading(test, a) \/ Echoing(test, a))
  BY DEF Here
<1>2. MachineTypeOK
  BY DEF IInv, TypeOK
<1>3. PC = a
  BY <1>1 DEF At, Fetch
<1>4. a \in Int /\ 12288 <= a /\ a <= 12294
  BY <1>1
<1>5. PC # MR_KBSR /\ PC < 65535
  BY <1>3, <1>4 DEF MR_KBSR
<1>6. /\ control' = "execute" /\ PC' = PC + 1
      /\ instruction' = Peek(memory, PC)
      /\ registers'[R0] = registers[R0] /\ Status' = Status
      /\ UNCHANGED <<memory, inputVars, outputVars>>
  BY <1>2, <1>5, FetchedIs
<1>7. At(a)'
  BY <1>3, <1>6 DEF At
<1>8. Reading(test, a)' \/ Echoing(test, a)'
  BY <1>1, <1>6, CarriedStays DEF Reading, Echoing
<1> QED
  BY <1>1, <1>6, <1>7, <1>8, EchoStays DEF Here

(* PC-relative addresses of the two programs, which do not wrap. *)
LEMMA EchoAddresses ==
  ASSUME NEW a \in 12288 .. 12294, PC = a + 1
  PROVE  /\ instruction = 2050 => PcRelative9 = a + 3
         /\ instruction = 2046 => PcRelative9 = a - 1
         /\ instruction = 4092 => PcRelative9 = a - 3
         /\ instruction = 4090 => PcRelative9 = a - 5
         /\ instruction = 40966 => PcRelative9 = a + 7
         /\ instruction = 40965 => PcRelative9 = a + 6
<1>1. a \in Int /\ 12288 <= a /\ a <= 12294
  OBVIOUS
<1>2. /\ (a + 1 + 2) % 65536 = a + 3 /\ (a + 1 + 65534) % 65536 = a - 1
      /\ (a + 1 + 65532) % 65536 = a - 3 /\ (a + 1 + 65530) % 65536 = a - 5
      /\ (a + 1 + 6) % 65536 = a + 7 /\ (a + 1 + 5) % 65536 = a + 6
  BY <1>1
<1> QED
  BY <1>2, EchoFields DEF PcRelative9, Wrap, WORD_MAX

(* An instruction of the tail does its part of the echo. *)
LEMMA EchoTail ==
  ASSUME IInv, MachineNext, control = "execute", NEW test \in {12289, 12291},
         NEW a \in 12288 .. test + 3, InPlace(EchoProgram(test)), At(a),
         Echoing(test, a)
  PROVE  InPlace(EchoProgram(test))' /\ (Here(test)' \/ Finished')
<1>1. /\ MachineTypeOK /\ ConsoleTypeOK /\ OneConditionFlag
      /\ flushed = Len(output)
  BY DEF IInv, TypeOK, FlushedBetweenInstructions
<1>2. PC = a + 1 /\ instruction = Peek(memory, a)
  BY DEF At
<1>3. PICK key : key = registers[R0]
  OBVIOUS
<1>4. /\ test \in Int /\ a \in Int /\ 12288 <= a /\ a <= test + 3
      /\ a \in 12288 .. 12294
      /\ test + 1 \in 12288 .. test + 3 /\ test + 3 \in 12288 .. test + 3
      /\ test + 2 \in 12288 .. test + 3 /\ 12288 \in 12288 .. test + 3
  OBVIOUS
<1>5. ASSUME UNCHANGED memory PROVE InPlace(EchoProgram(test))'
  BY <1>5, EchoStays
<1>6. /\ registers \in [RegisterCodes -> Word]
      /\ PROGRAM_COUNTER \in RegisterCodes
      /\ R0 # PROGRAM_COUNTER /\ PROCESSOR_STATUS # PROGRAM_COUNTER
      /\ R7 # PROGRAM_COUNTER /\ R7 # PROCESSOR_STATUS /\ R7 # R0
      /\ R7 \in RegisterCodes
  BY <1>1 DEF MachineTypeOK, RegisterCodes, PROGRAM_COUNTER, R0, R7,
     PROCESSOR_STATUS
<1>7. CASE a = test /\ Carried(key) /\ Status = ConditionFlag(key)
  <2>1. instruction = 2050
    BY <1>2, <1>7, EchoWords
  <2>2. OperationBr
    BY <2>1, ExecutedIs, EchoFields
  <2>3. /\ control' = "fetch"
        /\ PC' = IF BranchTaken THEN PcRelative9 ELSE PC
        /\ registers'[R0] = key /\ Status' = Status
        /\ UNCHANGED <<memory, inputVars, outputVars>>
    BY <1>1, <1>3, <2>2, BranchedIs
  <2>4. PcRelative9 = a + 3
    BY <1>2, <1>4, <2>1, EchoAddresses
  <2>5. CASE Status = CONDITION_FLAG_NEGATIVE
    <3>1. PC' = test + 3
      BY <1>7, <2>1, <2>3, <2>4, <2>5, EchoBranches
    <3>2. Caught /\ Drained
      <4>1. ConditionFlag(key) = CONDITION_FLAG_NEGATIVE
        BY <1>7, <2>5
      <4>2. key \notin Byte
        BY <4>1, KeyFlags
      <4>3. Carried(key)
        BY <1>7
      <4> QED
        BY <4>2, <4>3 DEF Carried
    <3>3. Caught' /\ Drained'
      BY <2>3, <3>2, CarriedStays
    <3>4. At(test + 3)' /\ Echoing(test, test + 3)'
      BY <2>3, <3>1, <3>3 DEF At, Echoing
    <3> QED
      BY <1>4, <1>5, <2>3, <3>4 DEF Here
  <2>6. CASE Status # CONDITION_FLAG_NEGATIVE
    <3>1. PC' = test + 1
      BY <1>2, <1>7, <2>1, <2>3, <2>6, EchoBranches
    <3>2. key \in Byte /\ Carried(key)'
      BY <1>7, <2>3, <2>6, CarriedStays, KeyFlags DEF Carried
    <3>3. At(test + 1)' /\ Echoing(test, test + 1)'
      BY <2>3, <3>1, <3>2 DEF At, Echoing
    <3> QED
      BY <1>4, <1>5, <2>3, <3>3 DEF Here
  <2> QED
    BY <2>5, <2>6
<1>8. CASE a = test + 1 /\ Carried(key) /\ key \in Byte
  <2>1. instruction = 61473
    BY <1>2, <1>8, EchoWords
  <2>2. TrapOut
    BY <2>1, ExecutedIs, EchoFields DEF Trapping, Executing, TrapVector
  <2>3. CharOf(key) = key
    BY <1>8 DEF CharOf, Byte
  <2>4. /\ output' = output \o <<key>> /\ control' = "fetch"
        /\ registers' = [registers EXCEPT ![R7] = PC]
        /\ UNCHANGED <<memory, inputVars>>
    BY <1>3, <2>2, <2>3 DEF TrapOut, PutAndFlush, Linked, SetRegister
  <2>5. output \in Seq(OutputItems) /\ consumed = Append(output, key)
    BY <1>1, <1>8, KeyFlags DEF ConsoleTypeOK, OutputTypeOK, Carried
  <2>6. Caught'
    BY <2>4, <2>5 DEF Caught, inputVars
  <2>7. PC' = test + 2
    <3>1. PC' = PC
      BY <1>6, <2>4 DEF PC
    <3> QED
      BY <1>2, <1>4, <1>8, <3>1
  <2>8. At(test + 2)' /\ Echoing(test, test + 2)'
    BY <2>4, <2>6, <2>7 DEF At, Echoing
  <2> QED
    BY <1>4, <1>5, <2>4, <2>8 DEF Here
<1>9. CASE a = test + 2 /\ Caught
  <2>1. instruction = IF test = 12289 THEN 4092 ELSE 4090
    BY <1>2, <1>9, EchoWords
  <2>2. OperationBr
    BY <2>1, ExecutedIs, EchoFields
  <2>3. BranchTaken
    BY <1>1, <2>1, EchoBranches DEF OneConditionFlag, Status
  <2>4. PcRelative9 = 12288
    <3>1. a \in 12288 .. 12294
      BY <1>4
    <3>2. CASE test = 12289
      BY <1>2, <1>9, <2>1, <3>1, <3>2, EchoAddresses
    <3>3. CASE test = 12291
      BY <1>2, <1>9, <2>1, <3>1, <3>3, EchoAddresses
    <3> QED
      BY <3>2, <3>3
  <2>5. /\ control' = "fetch" /\ PC' = 12288
        /\ UNCHANGED <<memory, inputVars, outputVars>>
    BY <1>1, <2>2, <2>3, <2>4, BranchedIs
  <2>6. Caught'
    BY <1>9, <2>5, CarriedStays
  <2>7. At(12288)' /\ Reading(test, 12288)'
    BY <2>5, <2>6 DEF At, Reading
  <2> QED
    BY <1>4, <1>5, <2>5, <2>7 DEF Here
<1>10. CASE a = test + 3 /\ Caught /\ Drained
  <2>1. instruction = HALT
    BY <1>2, <1>10, EchoWords
  <2>2. TrapHalt
    BY <2>1, ExecutedIs, EchoFields DEF Trapping, Executing, TrapVector
  <2>3. /\ control' = "halted" /\ output' = output \o <<HaltMessage>>
        /\ flushed' = flushed /\ UNCHANGED <<memory, inputVars>>
    BY <2>2 DEF TrapHalt, Put
  <2>4. /\ output \in Seq(OutputItems) /\ consumed' = output
        /\ consumed' = consumed
    BY <1>1, <1>10, <2>3 DEF ConsoleTypeOK, OutputTypeOK, Caught, inputVars
  <2>5. output' = Append(consumed', HaltMessage) /\ flushed' = Len(consumed')
    BY <1>1, <2>3, <2>4
  <2>6. Drained'
    BY <1>10, <2>3 DEF Drained, Pending, inputVars
  <2> QED
    BY <1>5, <2>3, <2>5, <2>6 DEF Finished
<1> QED
  BY <1>3, <1>7, <1>8, <1>9, <1>10 DEF Echoing

(* What LDI of KBSR does: it polls, and the status is the flag. *)
LEMMA EchoPolls ==
  ASSUME IInv, OperationLdi, NEW a \in 12288 .. 12294, PC = a + 1,
         instruction = 40966, Peek(memory, a + 7) = MR_KBSR, Caught
  PROVE  /\ control' = "fetch" /\ PC' = PC /\ UNCHANGED outputVars
         /\ memory' = AfterRead(MR_KBSR)
         /\ \/ /\ Status' = CONDITION_FLAG_NEGATIVE
               /\ Carried(Peek(memory, MR_KBDR))'
            \/ Status' = CONDITION_FLAG_ZERO /\ Caught'
<1>1. MachineTypeOK /\ InputTypeOK
  BY DEF IInv, TypeOK, ConsoleTypeOK
<1>2. PcRelative9 = a + 7 /\ a + 7 # MR_KBSR
  BY EchoAddresses DEF MR_KBSR
<1>3. ValueAt(PcRelative9) = MR_KBSR
  BY <1>2 DEF ValueAt, AfterRead
<1>4. /\ Poll(MR_KBSR) /\ memory' = AfterRead(MR_KBSR)
      /\ registers' = SetResult(DR, ValueAt(MR_KBSR))
      /\ Continue
  BY <1>2, <1>3 DEF OperationLdi, ValueAt
<1>5. DR = R0
  BY EchoFields DEF DR
<1>6. /\ registers \in [RegisterCodes -> Word]
      /\ PROGRAM_COUNTER \in RegisterCodes
      /\ R0 # PROGRAM_COUNTER /\ PROCESSOR_STATUS # PROGRAM_COUNTER
      /\ R0 # PROCESSOR_STATUS /\ PROCESSOR_STATUS \in RegisterCodes
  BY <1>1 DEF MachineTypeOK, RegisterCodes, PROGRAM_COUNTER, R0,
     PROCESSOR_STATUS
<1>7. PC' = PC /\ Status' = ConditionFlag(ValueAt(MR_KBSR))
  BY <1>4, <1>5, <1>6 DEF SetResult, PC, Status
<1>8. control' = "fetch" /\ UNCHANGED outputVars
  BY <1>4 DEF Continue
<1>9. CASE check_key
  <2>1. Getc /\ ValueAt(MR_KBSR) = KEY_READY
        /\ Peek(memory', MR_KBDR) = NextCharacter
    BY <1>1, <1>4, <1>9, PollDelivers DEF Poll, AfterRead, ValueAt, Store, Peek,
       MR_KBSR, MR_KBDR
  <2>2. PICK key : key = NextCharacter
    OBVIOUS
  <2>3. Carried(key)'
    BY <1>1, <1>8, <2>1, <2>2, GetcCarries DEF outputVars
  <2>4. Carried(Peek(memory, MR_KBDR))'
    BY <2>1, <2>2, <2>3 DEF Carried
  <2> QED
    BY <1>4, <1>7, <1>8, <2>1, <2>4, KeyFlags
<1>10. CASE ~check_key
  <2>1. UNCHANGED inputVars /\ ValueAt(MR_KBSR) = 0
    BY <1>4, <1>10 DEF Poll, AfterRead, ValueAt, Store, Peek
  <2>2. Caught'
    BY <1>8, <2>1 DEF Caught, inputVars, outputVars
  <2> QED
    BY <1>4, <1>7, <1>8, <2>1, <2>2, KeyFlags
<1> QED
  BY <1>9, <1>10

(* An instruction that takes a key starts it on its way, or polls again. *)
LEMMA EchoReads ==
  ASSUME IInv, MachineNext, control = "execute", NEW test \in {12289, 12291},
         NEW a \in 12288 .. test + 3, InPlace(EchoProgram(test)), At(a),
         Reading(test, a)
  PROVE  InPlace(EchoProgram(test))' /\ Here(test)'
<1>1. MachineTypeOK /\ InputTypeOK
  BY DEF IInv, TypeOK, ConsoleTypeOK
<1>2. PC = a + 1 /\ instruction = Peek(memory, a)
  BY DEF At
<1>3. ASSUME UNCHANGED memory PROVE InPlace(EchoProgram(test))'
  BY <1>3, EchoStays
<1>4. /\ registers \in [RegisterCodes -> Word]
      /\ PROGRAM_COUNTER \in RegisterCodes
      /\ R0 # PROGRAM_COUNTER /\ PROCESSOR_STATUS # PROGRAM_COUNTER
      /\ R0 # PROCESSOR_STATUS /\ R0 \in RegisterCodes
      /\ R7 # PROGRAM_COUNTER /\ R7 # PROCESSOR_STATUS /\ R7 # R0
      /\ R7 \in RegisterCodes /\ PROCESSOR_STATUS \in RegisterCodes
  BY <1>1 DEF MachineTypeOK, RegisterCodes, PROGRAM_COUNTER, R0, R7,
     PROCESSOR_STATUS
<1>5. CASE test = 12289
  <2>1. a = 12288 /\ Caught /\ instruction = 61472
    BY <1>2, <1>5, EchoWords DEF Reading
  <2>2. TrapGetc
    BY <2>1, ExecutedIs, EchoFields DEF Trapping, Executing, TrapVector
  <2>3. PICK key : key = NextCharacter
    OBVIOUS
  <2>4. /\ Getc /\ UNCHANGED memory /\ control' = "fetch"
        /\ UNCHANGED outputVars
        /\ registers' = [[registers EXCEPT ![R7] = PC] EXCEPT
                           ![R0] = key,
                           ![PROCESSOR_STATUS] = ConditionFlag(key)]
    BY <2>2, <2>3 DEF TrapGetc, Linked, SetRegister, Continue
  <2>5. Carried(key)'
    BY <1>1, <2>1, <2>3, <2>4, GetcCarries DEF outputVars
  <2>6. PC' = PC /\ registers'[R0] = key /\ Status' = ConditionFlag(key)
    BY <1>4, <2>4 DEF PC, Status
  <2>7. At(test)' /\ Echoing(test, test)'
    BY <1>2, <1>5, <2>1, <2>4, <2>5, <2>6 DEF At, Echoing
  <2>8. test \in 12288 .. test + 3
    BY <1>5
  <2> QED
    BY <1>3, <2>4, <2>7, <2>8 DEF Here
<1>6. CASE test = 12291 /\ a = 12288
  <2>1. Caught /\ instruction = 40966
    BY <1>2, <1>6, EchoWords DEF Reading
  <2>2. OperationLdi
    BY <2>1, ExecutedIs, EchoFields
  <2>3. a \in 12288 .. 12294 /\ a + 7 = 12295
    BY <1>6
  <2>4. Peek(memory, a + 7) = MR_KBSR
    BY <1>6, <2>3, EchoWords DEF MR_KBSR
  <2>5. /\ control' = "fetch" /\ PC' = PC /\ UNCHANGED outputVars
        /\ memory' = AfterRead(MR_KBSR)
        /\ \/ /\ Status' = CONDITION_FLAG_NEGATIVE
              /\ Carried(Peek(memory, MR_KBDR))'
           \/ Status' = CONDITION_FLAG_ZERO /\ Caught'
    BY <1>2, <2>1, <2>2, <2>3, <2>4, EchoPolls
  <2>6. At(12289)' /\ Reading(test, 12289)'
    BY <1>2, <1>6, <2>5 DEF At, Reading
  <2>7. 12289 \in 12288 .. test + 3
    BY <1>6
  <2>8. InPlace(EchoProgram(test))'
    BY <2>5, PollsElsewhere, EchoStays
  <2> QED
    BY <2>6, <2>7, <2>8 DEF Here
<1>7. CASE test = 12291 /\ a = 12289
  <2>1. instruction = 2046
    BY <1>2, <1>7, EchoWords
  <2>2. OperationBr
    BY <2>1, ExecutedIs, EchoFields
  <2>3. a \in 12288 .. 12294
    BY <1>7
  <2>4. PcRelative9 = 12288
    BY <1>2, <1>7, <2>1, <2>3, EchoAddresses
  <2>5. /\ control' = "fetch" /\ PC' = IF BranchTaken THEN PcRelative9 ELSE PC
        /\ UNCHANGED <<memory, inputVars, outputVars>>
    BY <1>1, <2>2, BranchedIs
  <2>6. /\ CONDITION_FLAG_NEGATIVE # CONDITION_FLAG_ZERO
        /\ CONDITION_FLAG_NEGATIVE # CONDITION_FLAG_POSITIVE
    BY DEF CONDITION_FLAG_NEGATIVE, CONDITION_FLAG_ZERO, CONDITION_FLAG_POSITIVE
  <2>7. CASE Status = CONDITION_FLAG_NEGATIVE /\ Carried(Peek(memory, MR_KBDR))
    <3>1. PC' = 12290
      BY <1>2, <1>7, <2>1, <2>5, <2>6, <2>7, EchoBranches
    <3>2. Carried(Peek(memory, MR_KBDR))'
      BY <2>5, <2>7, CarriedStays
    <3>3. At(12290)' /\ Reading(test, 12290)' /\ 12290 \in 12288 .. test + 3
      BY <1>7, <2>5, <3>1, <3>2 DEF At, Reading
    <3> QED
      BY <1>3, <2>5, <3>3 DEF Here
  <2>8. CASE Status = CONDITION_FLAG_ZERO /\ Caught
    <3>1. PC' = 12288
      BY <2>1, <2>4, <2>5, <2>8, EchoBranches
    <3>2. Caught'
      BY <2>5, <2>8, CarriedStays
    <3>3. At(12288)' /\ Reading(test, 12288)' /\ 12288 \in 12288 .. test + 3
      BY <1>7, <2>5, <3>1, <3>2 DEF At, Reading
    <3> QED
      BY <1>3, <2>5, <3>3 DEF Here
  <2> QED
    BY <1>7, <2>7, <2>8 DEF Reading
<1>8. CASE test = 12291 /\ a = 12290
  <2>1. instruction = 40965 /\ Carried(Peek(memory, MR_KBDR))
    BY <1>2, <1>8, EchoWords DEF Reading
  <2>2. OperationLdi
    BY <2>1, ExecutedIs, EchoFields
  <2>3. a \in 12288 .. 12294 /\ a + 6 = 12296
    BY <1>8
  <2>4. PcRelative9 = 12296
    BY <1>2, <2>1, <2>3, EchoAddresses
  <2>5. /\ 12296 # MR_KBSR /\ MR_KBDR # MR_KBSR
        /\ Peek(memory, 12296) = MR_KBDR
    BY <1>8, EchoWords DEF MR_KBSR, MR_KBDR
  <2>6. PICK key : key = Peek(memory, MR_KBDR)
    OBVIOUS
  <2>7. DR = R0
    BY <2>1, EchoFields DEF DR
  <2>8. /\ UNCHANGED <<memory, inputVars>> /\ Continue
        /\ registers' = SetResult(R0, key)
    BY <2>2, <2>4, <2>5, <2>6, <2>7 DEF OperationLdi, ValueAt, AfterRead, Poll
  <2>9. PC' = PC /\ registers'[R0] = key /\ Status' = ConditionFlag(key)
    BY <1>4, <2>8 DEF SetResult, PC, Status
  <2>10. Carried(key)'
    BY <2>1, <2>6, <2>8, CarriedStays DEF Continue
  <2>11. At(test)' /\ Echoing(test, test)' /\ test \in 12288 .. test + 3
    BY <1>2, <1>8, <2>8, <2>9, <2>10 DEF At, Echoing, Continue
  <2> QED
    BY <1>3, <2>8, <2>11 DEF Here
<1> QED
  BY <1>5, <1>6, <1>7, <1>8 DEF Reading

(* Once the program has halted, nothing moves. *)
LEMMA HaltedRests == control = "halted" => ~MachineNext
  BY DEF MachineNext, Fetch, Operations, OperationAdd, OperationAnd,
     OperationNot, OperationLea, OperationBr, OperationJmp, OperationJsr,
     OperationLd, OperationLdr, OperationLdi, OperationSt, OperationStr,
     OperationSti, AbortOperation, TrapSteps, TrapGetc, TrapOut, TrapIn,
     TrapInEcho, StartString, PrintWord, FinishString, FaultOnString, TrapHalt,
     AbortTrap, Trapping, Executing

(* The user types and closes the input without disturbing the echo. *)
LEMMA EchoUnattended ==
  ASSUME UNCHANGED <<machineVars, outputVars, consumed>>, Drained => Drained',
         EchoInv
  PROVE  EchoInv'
<1>1. PICK test \in {12289, 12291} :
        InPlace(EchoProgram(test)) /\ (Here(test) \/ Finished)
  BY DEF EchoInv
<1>2. /\ UNCHANGED <<memory, registers, instruction, control>>
      /\ UNCHANGED <<output, flushed, consumed>>
  BY DEF machineVars, outputVars
<1>3. InPlace(EchoProgram(test))'
  BY <1>1, <1>2, EchoStays
<1>4. Caught => Caught'
  BY <1>2 DEF Caught
<1>5. ASSUME NEW key, Carried(key) PROVE Carried(key)'
  BY <1>2, <1>4, <1>5 DEF Carried
<1>6. CASE Here(test)
  <2>1. PICK a \in 12288 .. test + 3 :
          At(a) /\ (Reading(test, a) \/ Echoing(test, a))
    BY <1>6 DEF Here
  <2>2. At(a)'
    BY <1>2, <2>1 DEF At, PC
  <2>3. Reading(test, a)' \/ Echoing(test, a)'
    BY <1>2, <1>4, <1>5, <2>1 DEF Reading, Echoing, Status
  <2> QED
    BY <1>3, <2>2, <2>3 DEF EchoInv, Here
<1>7. CASE Finished
  BY <1>2, <1>3, <1>7 DEF EchoInv, Finished
<1> QED
  BY <1>1, <1>6, <1>7

(* Every step keeps the echo going. *)
LEMMA EchoSteps == IInv /\ EchoInv /\ [Next]_vars => EchoInv'
<1> SUFFICES ASSUME IInv, EchoInv, [Next]_vars PROVE EchoInv'
  OBVIOUS
<1>1. CASE MachineNext
  <2>1. PICK test \in {12289, 12291} :
          InPlace(EchoProgram(test)) /\ (Here(test) \/ Finished)
    BY DEF EchoInv
  <2>2. Here(test)
    BY <1>1, <2>1, HaltedRests DEF Finished
  <2>3. PICK a \in 12288 .. test + 3 :
          At(a) /\ (Reading(test, a) \/ Echoing(test, a))
    BY <2>2 DEF Here
  <2>4. CASE control = "fetch"
    <3>1. Fetch
      BY <1>1, <2>4, FetchesIs
    <3> QED
      BY <2>1, <2>2, <3>1, EchoFetched DEF EchoInv
  <2>5. CASE control = "execute"
    BY <1>1, <2>1, <2>3, <2>5, EchoReads, EchoTail DEF EchoInv
  <2> QED
    BY <2>3, <2>4, <2>5 DEF At
<1>2. CASE Environment
  <2>1. UNCHANGED <<machineVars, outputVars, consumed>>
    BY <1>2 DEF Environment, TypeKey, CloseInput, outputVars
  <2>2. Drained => Drained'
    BY <1>2 DEF Environment, TypeKey, CloseInput, Drained, Pending
  <2> QED
    BY <2>1, <2>2, EchoUnattended
<1>3. CASE UNCHANGED vars
  <2>1. UNCHANGED <<machineVars, outputVars, consumed>> /\ (Drained => Drained')
    BY <1>3 DEF vars, consoleVars, outputVars, Drained, Pending
  <2> QED
    BY <2>1, EchoUnattended
<1> QED
  BY <1>1, <1>2, <1>3 DEF Next, Ended

(* It starts with nothing taken and nothing written. *)
LEMMA EchoStarts == OnlyEchoPrograms /\ Init => EchoInv
<1> SUFFICES ASSUME OnlyEchoPrograms, Init PROVE EchoInv
  OBVIOUS
<1>1. PICK program \in Programs :
        /\ memory = program.cells
        /\ registers = ResetRegisters(program.origin)
        /\ ConsoleInit(program.closed)
  BY DEF Init
<1>2. PICK echo \in EchoPrograms :
        \A a \in DOMAIN echo.cells : Peek(memory, a) = echo.cells[a]
  BY <1>1 DEF OnlyEchoPrograms
<1>3. PICK test \in {12289, 12291} : echo = EchoProgram(test)
  BY 12289 # 12291 DEF EchoPrograms, EchoProgram
<1>4. InPlace(EchoProgram(test))
  BY <1>2, <1>3 DEF InPlace
<1>5. PC = 12288
  <2>1. program.origin = 12288
    BY DEF OnlyEchoPrograms
  <2>2. /\ PROGRAM_COUNTER \in RegisterCodes
        /\ PROGRAM_COUNTER # PROCESSOR_STATUS
    BY DEF RegisterCodes, PROGRAM_COUNTER, PROCESSOR_STATUS
  <2>3. ASSUME NEW origin
        PROVE  ResetRegisters(origin)[PROGRAM_COUNTER] = origin
    BY <2>2 DEF ResetRegisters
  <2>4. registers = ResetRegisters(12288)
    BY <1>1, <2>1
  <2> QED
    BY <2>3, <2>4 DEF PC
<1>6. At(12288) /\ Reading(test, 12288)
  BY <1>1, <1>5 DEF Init, At, Reading, Caught, ConsoleInit
<1>7. 12288 \in 12288 .. test + 3
  OBVIOUS
<1> QED
  BY <1>4, <1>6, <1>7 DEF EchoInv, Here

(* So the echo goes on, next to the machine's own invariant. *)
LEMMA EchoGoesOn == ASSUME OnlyEchoPrograms PROVE Spec => [](IInv /\ EchoInv)
<1>1. Init => IInv /\ EchoInv
  BY InitInvariant, EchoStarts
<1>2. IInv /\ EchoInv /\ [Next]_vars => (IInv /\ EchoInv)'
  BY StepInvariant, EchoSteps
<1> QED
  BY <1>1, <1>2, PTL DEF Spec

(* What the invariant says of the echo: it is the front of what was typed, *)
(* and all of it at the end.                                               *)
LEMMA EchoedIs ==
  ASSUME IInv, EchoInv
  PROVE  /\ Echoed \in Seq(Byte)
         /\ \E rest : rest \in Seq(Byte) /\ typed = Echoed \o rest
         /\ control = "halted" => Echoed = typed
<1> DEFINE Starts(echoed) ==
      /\ echoed \in Seq(Byte)
      /\ \E rest : rest \in Seq(Byte) /\ typed = echoed \o rest
<1> SUFFICES Starts(Echoed) /\ (control = "halted" => Echoed = typed)
  OBVIOUS
<1>1. /\ stdinBuffer \in Seq(Byte) /\ ttyQueue \in Seq(Byte)
      /\ consumed \in Seq(Byte) /\ output \in Seq(OutputItems)
      /\ typed = consumed \o stdinBuffer \o ttyQueue
      /\ control \in {"fetch", "execute"} => flushed = Len(output)
  BY DEF IInv, TypeOK, ConsoleTypeOK, InputTypeOK, OutputTypeOK, InputFIFO,
     FlushedBetweenInstructions
<1>2. Pending \in Seq(Byte) /\ typed = consumed \o Pending
  BY <1>1 DEF Pending
<1>3. PICK test \in {12289, 12291} : Here(test) \/ Finished
  BY DEF EchoInv
<1>4. Starts(consumed)
  BY <1>1, <1>2
<1>5. ASSUME NEW s \in Seq(OutputItems) PROVE SubSeq(s, 1, Len(s)) = s
  BY <1>5
<1>6. CASE Here(test)
  <2>1. PICK a \in 12288 .. test + 3 :
          At(a) /\ (Reading(test, a) \/ Echoing(test, a))
    BY <1>6 DEF Here
  <2>2. control \in {"fetch", "execute"}
    BY <2>1 DEF At
  <2>3. Echoed = output
    BY <1>1, <1>5, <2>2 DEF Echoed
  <2>4. Caught \/ \E key \in Byte : consumed = Append(output, key)
    BY <2>1 DEF Reading, Echoing, Carried
  <2>5. CASE Caught
    <3>1. Echoed = consumed
      BY <2>3, <2>5 DEF Caught
    <3>2. control # "halted"
      BY <2>2
    <3> HIDE DEF Starts
    <3> QED
      BY <1>4, <3>1, <3>2
  <2>6. ASSUME NEW key \in Byte, consumed = Append(output, key)
        PROVE  Starts(Echoed)
    <3>1. output = SubSeq(consumed, 1, Len(consumed) - 1) /\ Len(consumed) > 0
      BY <1>1, <2>6
    <3>2. output \in Seq(Byte)
      BY <1>1, <3>1
    <3>3. <<key>> \o Pending \in Seq(Byte)
      BY <1>2
    <3>4. Append(output, key) \o Pending = output \o (<<key>> \o Pending)
      BY <1>2, <3>2
    <3> QED
      <4>1. typed = output \o (<<key>> \o Pending)
        BY <1>2, <2>6, <3>4
      <4>2. Starts(output)
        <5>1. \E rest : rest \in Seq(Byte) /\ typed = output \o rest
          <6> DEFINE tail == <<key>> \o Pending
          <6>1. tail \in Seq(Byte) /\ typed = output \o tail
            BY <3>3, <4>1
          <6> HIDE DEF tail
          <6> QED
            BY <6>1
        <5> QED
          BY <3>2, <5>1
      <4> HIDE DEF Starts
      <4> QED
        BY <2>3, <4>2
  <2>7. control # "halted"
    BY <2>2
  <2> HIDE DEF Starts
  <2> QED
    BY <2>4, <2>5, <2>6, <2>7
<1>7. CASE Finished
  <2>1. output = Append(consumed, HaltMessage) /\ flushed = Len(consumed)
    BY <1>7 DEF Finished
  <2>2. SubSeq(Append(consumed, HaltMessage), 1, Len(consumed)) = consumed
    BY <1>1
  <2>3. Echoed = consumed
    BY <2>1, <2>2 DEF Echoed
  <2>4. Pending = <<>> /\ typed = consumed
    BY <1>1, <1>2, <1>7 DEF Finished, Drained
  <2> QED
    <3> HIDE DEF Starts
    <3> QED
      BY <1>4, <2>3, <2>4
<1> QED
  BY <1>3, <1>6, <1>7

(* Whatever the interleaving of typing and reading, and however many keys  *)
(* are typed, both programs echo keys in the order typed, none twice and   *)
(* none skipped.                                                           *)
THEOREM EchoesInOrder == ASSUME OnlyEchoPrograms PROVE Spec => []EchoIsPrefix
<1>1. IInv /\ EchoInv => EchoIsPrefix
  <2> SUFFICES ASSUME IInv, EchoInv
               PROVE  \E n \in 0 .. Len(typed) : Echoed = SubSeq(typed, 1, n)
    BY DEF EchoIsPrefix
  <2>1. PICK rest :
          rest \in Seq(Byte) /\ Echoed \in Seq(Byte) /\ typed = Echoed \o rest
    BY EchoedIs
  <2>2. Len(Echoed) \in 0 .. Len(typed)
    BY <2>1
  <2>3. SubSeq(Echoed \o rest, 1, Len(Echoed)) = Echoed
    BY <2>1
  <2> QED
    BY <2>1, <2>2, <2>3
<1> QED
  BY <1>1, EchoGoesOn, PTL

(* At the end of input nothing typed is left behind, in either queue: the  *)
(* whole input has been echoed, and has left the program.                  *)
THEOREM EchoesEverything == ASSUME OnlyEchoPrograms PROVE Spec => []EchoComplete
<1>1. IInv /\ EchoInv => EchoComplete
  BY EchoedIs DEF EchoComplete
<1> QED
  BY <1>1, EchoGoesOn, PTL

-----------------------------------------------------------------------------
(* The programs of MCOperations: what holds at each of their instructions. *)

\* An operation with a result: the program goes on with the flag of the
\* value, which is in the register, and with everything else as it was.
Results(code, value) ==
  /\ control' = "fetch" /\ UNCHANGED memory
  /\ PC' = PC /\ registers'[code] = value /\ Status' = ConditionFlag(value)
  /\ Kept({code})

(* What setting a result leaves.                                           *)
LEMMA ResultsAre ==
  ASSUME MachineTypeOK, NEW code \in GeneralRegisters, NEW value,
         registers' = SetResult(code, value), UNCHANGED memory, Continue
  PROVE  Results(code, value)
<1>1. registers \in [RegisterCodes -> Word]
  BY DEF MachineTypeOK
<1> QED
  BY <1>1, RegistersDiffer DEF SetResult, Continue, PC, Status, Kept, Results

(* A load from anywhere but KBSR has the word at the address for a result. *)
LEMMA LoadedIs ==
  ASSUME MachineTypeOK, NEW address, address # MR_KBSR, Load(address)
  PROVE  Results(DR, Peek(memory, address))
<1>1. AfterRead(address) = memory /\ ValueAt(address) = Peek(memory, address)
  BY DEF AfterRead, ValueAt
<1> QED
  BY <1>1, OperandTypes, ResultsAre DEF Load

(* A load from KBSR changes the keyboard's registers in memory only.       *)
LEMMA PolledIs ==
  ASSUME MachineTypeOK, NEW address, Load(address)
  PROVE  /\ control' = "fetch" /\ PC' = PC
         /\ \A a : a \notin {MR_KBSR, MR_KBDR} =>
              Peek(memory', a) = Peek(memory, a)
<1>1. registers \in [RegisterCodes -> Word] /\ DR \in GeneralRegisters
  BY OperandTypes DEF MachineTypeOK
<1>2. PC' = PC
  BY <1>1, RegistersDiffer DEF Load, SetResult, PC
<1>3. memory' = AfterRead(address)
  BY DEF Load
<1> QED
  BY <1>2, <1>3, PollsElsewhere DEF Load, Continue

(* HALT stops where it is.                                                 *)
LEMMA HaltedIs ==
  ASSUME MachineTypeOK, TrapHalt
  PROVE  /\ control' = "halted" /\ PC' = PC /\ Kept({R7}) /\ UNCHANGED memory
<1>1. registers \in [RegisterCodes -> Word]
  BY DEF MachineTypeOK
<1> QED
  BY <1>1, RegistersDiffer DEF TrapHalt, Linked, SetRegister, PC, Kept

\* Where the code of these programs lies.
Place == 12288 .. 12300

(* A fetch makes the instruction there the one being executed.             *)
LEMMA AtFetched ==
  ASSUME MachineTypeOK, Fetch, NEW a \in Place, At(a)
  PROVE  At(a)' /\ UNCHANGED memory /\ Kept({}) /\ Status' = Status
<1>1. PC = a
  BY DEF At, Fetch
<1>2. PC # MR_KBSR /\ PC < 65535
  BY <1>1 DEF Place, MR_KBSR
<1> QED
  BY <1>1, <1>2, FetchedIs DEF At

(* The address an offset leads to from there.                              *)
LEMMA Ahead ==
  ASSUME NEW a \in Place, PC = a + 1, NEW off \in 0 .. 20
  PROVE  /\ PcOffset9(instruction) = off => PcRelative9 = a + 1 + off
         /\ PcOffset11(instruction) = off => PcRelative11 = a + 1 + off
         /\ a + 1 + off # MR_KBSR
<1>1. /\ a \in Int /\ 12288 <= a /\ a <= 12300
      /\ off \in Int /\ 0 <= off /\ off <= 20
  BY DEF Place
<1>2. (a + 1 + off) % 65536 = a + 1 + off
  BY <1>1
<1> QED
  BY <1>1, <1>2 DEF PcRelative9, PcRelative11, Wrap, WORD_MAX, MR_KBSR

\* A program is in memory: its cells hold these words from ORIGIN on.
InMemory(words) ==
  \A n \in 0 .. Len(words) - 1 : Cell(n) = words[n + 1]

\* Every program in memory is one of these; other cells may hold anything.
Only(programs) ==
  \A program \in Programs :
    /\ program.origin = ORIGIN
    /\ \E loaded \in programs :
         \A a \in DOMAIN loaded.cells :
           Peek(program.cells, a) = loaded.cells[a]

(* So it starts with such a program in memory, at its first instruction.   *)
LEMMA StartsWith ==
  ASSUME NEW programs, Only(programs), Init
  PROVE  /\ At(ORIGIN) /\ registers[2] = 0
         /\ \E program \in programs : InPlace(program)
<1>1. PICK program \in Programs :
        memory = program.cells /\ registers = ResetRegisters(program.origin)
  BY DEF Init
<1>2. program.origin = ORIGIN
  BY DEF Only
<1>3. PICK loaded \in programs :
        \A a \in DOMAIN loaded.cells : Peek(memory, a) = loaded.cells[a]
  BY <1>1 DEF Only
<1>4. PC = ORIGIN /\ registers[2] = 0
  <2>1. 2 \in RegisterCodes /\ 2 # PROGRAM_COUNTER /\ 2 # PROCESSOR_STATUS
    BY DEF RegisterCodes, PROGRAM_COUNTER, PROCESSOR_STATUS
  <2>2. ASSUME NEW origin
        PROVE  /\ ResetRegisters(origin)[PROGRAM_COUNTER] = origin
               /\ ResetRegisters(origin)[2] = 0
    BY <2>1, RegistersDiffer DEF ResetRegisters
  <2>3. registers = ResetRegisters(ORIGIN)
    BY <1>1, <1>2
  <2> QED
    BY <2>2, <2>3 DEF PC
<1> QED
  BY <1>3, <1>4 DEF Init, At, InPlace

(* The cells of a program are its words.                                   *)
LEMMA CodeInPlace ==
  ASSUME NEW words \in Seq(Int)
  PROVE  InPlace(Code(ORIGIN, words)) => InMemory(words)
<1> DEFINE cells == Code(ORIGIN, words).cells
           last == ORIGIN + Len(words) - 1
<1>1. ORIGIN \in Int /\ Len(words) \in Nat
  BY DEF ORIGIN
<1>2. /\ DOMAIN cells = ORIGIN .. last
      /\ \A a \in ORIGIN .. last : cells[a] = words[a - ORIGIN + 1]
  BY DEF Code
<1>3. InPlace(Code(ORIGIN, words)) =>
        \A a \in DOMAIN cells : Peek(memory, a) = cells[a]
  BY DEF InPlace
<1>4. \A n \in 0 .. Len(words) - 1 :
        ORIGIN + n \in ORIGIN .. last /\ (ORIGIN + n) - ORIGIN + 1 = n + 1
  BY <1>1
<1> HIDE DEF cells, last
<1>5. ASSUME InPlace(Code(ORIGIN, words)), NEW n \in 0 .. Len(words) - 1
      PROVE  Peek(memory, ORIGIN + n) = words[n + 1]
  <2>1. PICK a : a = ORIGIN + n
    OBVIOUS
  <2>2. a \in ORIGIN .. last /\ a - ORIGIN + 1 = n + 1
    BY <1>4, <2>1
  <2>3. Peek(memory, a) = words[a - ORIGIN + 1]
    BY <1>2, <1>3, <1>5, <2>2
  <2> QED
    BY <2>1, <2>2, <2>3
<1> QED
  BY <1>5 DEF InMemory, Cell

(* A step of the process, or of the user, who leaves the machine alone.    *)
LEMMA MachineOrUser == [Next]_vars => MachineNext \/ UNCHANGED machineVars
  BY DEF Next, Environment, Ended, vars

(* The instruction at a, and the addresses from there.                     *)
LEMMA Executes ==
  ASSUME MachineNext, control = "execute", NEW n \in 0 .. 12, At(ORIGIN + n)
  PROVE  /\ instruction = Cell(n) /\ PC = ORIGIN + n + 1
         /\ \A off \in 0 .. 20 : PcOffset9(instruction) = off =>
              PcRelative9 = ORIGIN + n + 1 + off /\ PcRelative9 # MR_KBSR
<1>1. ORIGIN + n \in Place
  BY DEF ORIGIN, Place
<1>2. instruction = Cell(n) /\ PC = ORIGIN + n + 1
  BY DEF At, Cell
<1> QED
  BY <1>1, <1>2, Ahead

(* LD from a cell ahead.                                                   *)
LEMMA LoadsCell ==
  ASSUME MachineTypeOK, MachineNext, control = "execute",
         NEW n \in 0 .. 12, At(ORIGIN + n), NEW m \in 0 .. 20,
         Opcode(Cell(n)) = OP_LD, PcOffset9(Cell(n)) = m
  PROVE  Results(FieldDR(Cell(n)), Cell(n + 1 + m))
<1>1. instruction = Cell(n) /\ OperationLd
  BY Executes, ExecutedIs
<1>2. PcRelative9 = ORIGIN + n + 1 + m /\ PcRelative9 # MR_KBSR
  BY <1>1, Executes
<1>3. Results(DR, Peek(memory, PcRelative9))
  BY <1>1, <1>2, LoadedIs DEF OperationLd
<1>4. ORIGIN + n + 1 + m = ORIGIN + (n + 1 + m)
  BY DEF ORIGIN
<1> QED
  BY <1>1, <1>2, <1>3, <1>4 DEF DR, Cell

(* What a result leaves behind is at the next instruction.                 *)
LEMMA ResultGoesOn ==
  ASSUME NEW code, NEW value, Results(code, value),
         NEW n \in 0 .. 12, PC = ORIGIN + n + 1
  PROVE  At(ORIGIN + (n + 1))'
<1>1. ORIGIN + n + 1 = ORIGIN + (n + 1)
  BY DEF ORIGIN
<1> QED
  BY <1>1 DEF Results, At

-----------------------------------------------------------------------------
(* ADD, AND and NOT. *)

ArithmeticCode ==
  /\ Cell(0) = 8195 /\ Cell(1) = 8707 /\ Cell(2) \in Arithmetic
  /\ Cell(3) = HALT

\* At the nth instruction, from 0.
ArithmeticAt(n) ==
  /\ n > 0 => registers[0] = Cell(4)
  /\ n > 1 => registers[1] = Cell(5)
  /\ n > 2 => Computed(Cell(2), Cell(4), Cell(5), registers[2])

ArithmeticInv ==
  /\ ArithmeticCode
  /\ \/ \E n \in 0 .. 3 : At(ORIGIN + n) /\ ArithmeticAt(n)
     \/ control = "halted" /\ Computed(Cell(2), Cell(4), Cell(5), registers[2])

\* The fields of an operation with R2 for its result and R0 for its operand.
TakesR0(op, opcode) ==
  Opcode(op) = opcode /\ FieldDR(op) = 2 /\ FieldSR1(op) = 0

(* The instructions of these programs.                                     *)
LEMMA ArithmeticFields ==
  /\ Opcode(8195) = OP_LD /\ FieldDR(8195) = 0 /\ PcOffset9(8195) = 3
  /\ Opcode(8707) = OP_LD /\ FieldDR(8707) = 1 /\ PcOffset9(8707) = 3
  /\ TakesR0(ADD_REGISTER, OP_ADD) /\ TakesR0(AND_REGISTER, OP_AND)
  /\ TakesR0(NOT_REGISTER, OP_NOT)
  /\ FieldSR2(ADD_REGISTER) = 1 /\ ~ImmediateMode(ADD_REGISTER)
  /\ FieldSR2(AND_REGISTER) = 1 /\ ~ImmediateMode(AND_REGISTER)
<1>1. /\ Opcode(8195) = OP_LD /\ FieldDR(8195) = 0
      /\ Opcode(8707) = OP_LD /\ FieldDR(8707) = 1
  BY DEF Opcode, FieldDR, OP_LD
<1>2. PcOffset9(8195) = 3 /\ PcOffset9(8707) = 3
  BY DEF PcOffset9, SignExtend, WORD_MAX
<1>3. /\ TakesR0(ADD_REGISTER, OP_ADD) /\ TakesR0(AND_REGISTER, OP_AND)
      /\ TakesR0(NOT_REGISTER, OP_NOT)
  BY DEF TakesR0, Opcode, FieldDR, FieldSR1, ADD_REGISTER, AND_REGISTER,
     NOT_REGISTER, OP_ADD, OP_AND, OP_NOT
<1>4. /\ FieldSR2(ADD_REGISTER) = 1 /\ ~ImmediateMode(ADD_REGISTER)
      /\ FieldSR2(AND_REGISTER) = 1 /\ ~ImmediateMode(AND_REGISTER)
  BY DEF FieldSR2, ImmediateMode, ADD_REGISTER, AND_REGISTER
<1> QED
  BY <1>1, <1>2, <1>3, <1>4

(* With an immediate, whatever it is.                                      *)
LEMMA ImmediateFields ==
  ASSUME NEW imm \in 0 .. 31
  PROVE  /\ TakesR0(ADD_IMMEDIATE(imm), OP_ADD)
         /\ TakesR0(AND_IMMEDIATE(imm), OP_AND)
         /\ ImmediateMode(ADD_IMMEDIATE(imm))
         /\ ImmediateMode(AND_IMMEDIATE(imm))
         /\ ADD_IMMEDIATE(imm) % 32 = imm /\ AND_IMMEDIATE(imm) % 32 = imm
<1>1. imm \in Int /\ 0 <= imm /\ imm <= 31
  OBVIOUS
<1>2. /\ (5152 + imm) \div 4096 = 1 /\ (5152 + imm) \div 512 = 10
      /\ (5152 + imm) \div 64 = 80 /\ (5152 + imm) \div 32 = 161
      /\ (5152 + imm) % 32 = imm
  BY <1>1
<1>3. /\ (21536 + imm) \div 4096 = 5 /\ (21536 + imm) \div 512 = 42
      /\ (21536 + imm) \div 64 = 336 /\ (21536 + imm) \div 32 = 673
      /\ (21536 + imm) % 32 = imm
  BY <1>1
<1>4. /\ 10 % 8 = 2 /\ 80 % 8 = 0 /\ 161 % 2 = 1
      /\ 42 % 8 = 2 /\ 336 % 8 = 0 /\ 673 % 2 = 1
  OBVIOUS
<1> QED
  BY <1>2, <1>3, <1>4 DEF TakesR0, Opcode, FieldDR, FieldSR1, ImmediateMode,
     ADD_IMMEDIATE, AND_IMMEDIATE, OP_ADD, OP_AND

(* A sum stored in a uint16_t is the signed sum modulo 2^16.               *)
LEMMA SumIsSigned ==
  ASSUME NEW a \in Word, NEW b \in Word
  PROVE  (Signed(a) + Signed(b) - Signed(Wrap(a + b))) % WORD_MAX = 0
<1>1. /\ a \in Int /\ 0 <= a /\ a <= 65535 /\ b \in Int /\ 0 <= b /\ b <= 65535
  BY WordBounds
<1>2. PICK c : c = (a + b) % 65536
  OBVIOUS
<1>3. c \in Int /\ 0 <= c /\ (a + b = c \/ a + b = c + 65536)
  BY <1>1, <1>2
<1>4. PICK x \in Int : x = (IF a < 32768 THEN a ELSE a - 65536)
  BY <1>1
<1>5. PICK y \in Int : y = (IF b < 32768 THEN b ELSE b - 65536)
  BY <1>1
<1>6. PICK z \in Int : z = (IF c < 32768 THEN c ELSE c - 65536)
  BY <1>3
<1>7. \E k \in {-2, -1, 0, 1, 2} : x + y - z = k * 65536
  BY <1>1, <1>3, <1>4, <1>5, <1>6
<1>8. (x + y - z) % 65536 = 0
  BY <1>7
<1>9. Signed(a) = x /\ Signed(b) = y /\ Signed(Wrap(a + b)) = z
  BY <1>2, <1>4, <1>5, <1>6 DEF Signed, Wrap, WORD_MAX
<1> QED
  BY <1>8, <1>9 DEF WORD_MAX

(* The immediate is the sign-extended field.                               *)
LEMMA ImmediateIs ==
  ASSUME NEW op \in Word
  PROVE  /\ Imm5(op) \in Word
         /\ Signed(Imm5(op))
              = IF op % 32 < 16 THEN op % 32 ELSE (op % 32) - 32
         /\ Imm5(op)
              = (IF op % 32 < 16 THEN op % 32 ELSE (op % 32) - 32) % WORD_MAX
<1>1. op \in Int /\ 0 <= op
  BY WordBounds
<1>2. PICK x : x = op % 32
  OBVIOUS
<1>3. x \in Int /\ 0 <= x /\ x <= 31
  BY <1>1, <1>2
<1>4. Imm5(op) \in Word
  BY SignExtendType
<1>5. 32 \in {32, 64, 512, 2048} /\ 32 \div 2 = 16
  OBVIOUS
<1>6. Imm5(op) = SignExtend(x, 32)
  BY <1>2 DEF Imm5
<1>7. SignExtend(x, 32) = IF x < 16 THEN x ELSE x - 32 + 65536
  BY <1>3 DEF SignExtend, WORD_MAX
<1>8. Signed(Imm5(op)) = IF x < 16 THEN x ELSE x - 32
  BY <1>3, <1>6, <1>7 DEF Signed, WORD_MAX
<1>9. x < 16 => x % 65536 = x
  BY <1>3
<1>10. ~(x < 16) => (x - 32) % 65536 = x - 32 + 65536
  BY <1>3
<1>11. Imm5(op) = (IF x < 16 THEN x ELSE x - 32) % WORD_MAX
  BY <1>6, <1>7, <1>9, <1>10 DEF WORD_MAX
<1> QED
  BY <1>2, <1>4, <1>8, <1>11

\* The value of an immediate field, in -16 .. 15.
ImmediateValue(op) == IF op % 32 < 16 THEN op % 32 ELSE (op % 32) - 32

(* What an operation has to compute, one by one.                           *)
LEMMA ComputedIs ==
  ASSUME NEW a, NEW b, NEW result
  PROVE  /\ (Signed(a) + Signed(b) - Signed(result)) % WORD_MAX = 0 =>
              Computed(ADD_REGISTER, a, b, result)
         /\ IsAnd(result, a, b) => Computed(AND_REGISTER, a, b, result)
         /\ Signed(result) = -Signed(a) - 1 =>
              Computed(NOT_REGISTER, a, b, result)
         /\ \A imm \in 0 .. 31 :
              LET op == ADD_IMMEDIATE(imm)
              IN  (Signed(a) + ImmediateValue(op) - Signed(result)) % WORD_MAX
                    = 0 => Computed(op, a, b, result)
         /\ \A imm \in 0 .. 31 :
              LET op == AND_IMMEDIATE(imm)
              IN  IsAnd(result, a, ImmediateValue(op) % WORD_MAX) =>
                    Computed(op, a, b, result)
<1> DEFINE sum == (Signed(a) + Signed(b) - Signed(result)) % WORD_MAX = 0
           plus(op) ==
             (Signed(a) + ImmediateValue(op) - Signed(result)) % WORD_MAX = 0
           both == IsAnd(result, a, b)
           masked(op) == IsAnd(result, a, ImmediateValue(op) % WORD_MAX)
           not == Signed(result) = -Signed(a) - 1
<1>1. ASSUME NEW op
      PROVE  Computed(op, a, b, result) <=>
               /\ op = ADD_REGISTER => sum
               /\ op \div 32 = ADD_IMMEDIATE(0) \div 32 => plus(op)
               /\ op = AND_REGISTER => both
               /\ op \div 32 = AND_IMMEDIATE(0) \div 32 => masked(op)
               /\ op = NOT_REGISTER => not
  BY DEF Computed, ImmediateValue
<1>2. /\ ADD_REGISTER \div 32 = 160 /\ AND_REGISTER \div 32 = 672
      /\ NOT_REGISTER \div 32 = 1185
      /\ ADD_IMMEDIATE(0) \div 32 = 161 /\ AND_IMMEDIATE(0) \div 32 = 673
      /\ ADD_REGISTER # AND_REGISTER /\ ADD_REGISTER # NOT_REGISTER
      /\ AND_REGISTER # NOT_REGISTER
  BY DEF ADD_REGISTER, AND_REGISTER, NOT_REGISTER, ADD_IMMEDIATE, AND_IMMEDIATE
<1>3. ASSUME NEW imm \in 0 .. 31
      PROVE  /\ ADD_IMMEDIATE(imm) \div 32 = 161
             /\ AND_IMMEDIATE(imm) \div 32 = 673
  BY <1>3 DEF ADD_IMMEDIATE, AND_IMMEDIATE
<1>4. /\ 160 # 161 /\ 160 # 673 /\ 672 # 161 /\ 672 # 673 /\ 1185 # 161
      /\ 1185 # 673 /\ 161 # 673 /\ 161 # 672 /\ 161 # 1185 /\ 673 # 160
      /\ 673 # 672 /\ 673 # 1185
  OBVIOUS
<1> HIDE DEF sum, plus, both, masked, not
<1>5. /\ sum => Computed(ADD_REGISTER, a, b, result)
      /\ both => Computed(AND_REGISTER, a, b, result)
      /\ not => Computed(NOT_REGISTER, a, b, result)
  BY <1>1, <1>2, <1>4
<1>6. ASSUME NEW imm \in 0 .. 31
      PROVE  /\ plus(ADD_IMMEDIATE(imm)) =>
                  Computed(ADD_IMMEDIATE(imm), a, b, result)
             /\ masked(AND_IMMEDIATE(imm)) =>
                  Computed(AND_IMMEDIATE(imm), a, b, result)
  BY <1>1, <1>2, <1>3, <1>4
<1> QED
  BY <1>5, <1>6 DEF sum, plus, both, masked, not

(* The operation of such a program computes what it stands for.            *)
LEMMA ArithmeticComputes ==
  ASSUME MachineTypeOK, MachineNext, control = "execute",
         instruction \in Arithmetic
  PROVE  \E result :
           /\ Results(2, result)
           /\ Computed(instruction, registers[0], registers[1], result)
<1>1. /\ registers \in [RegisterCodes -> Word] /\ instruction \in Word
      /\ 0 \in RegisterCodes /\ 1 \in RegisterCodes /\ 2 \in GeneralRegisters
  BY DEF MachineTypeOK, RegisterCodes, GeneralRegisters
<1>2. PICK a \in Word, b \in Word : a = registers[0] /\ b = registers[1]
  BY <1>1
<1>3. SUFFICES \E result :
        Results(2, result) /\ Computed(instruction, a, b, result)
  BY <1>2
<1>4. ASSUME TakesR0(instruction, OP_ADD)
      PROVE  Results(2, Wrap(a + OtherValue))
  <2>1. OperationAdd
    BY <1>4, ExecutedIs DEF TakesR0
  <2>2. registers' = SetResult(2, Wrap(a + OtherValue))
    BY <1>2, <1>4, <2>1 DEF OperationAdd, TakesR0, DR, SR1
  <2> QED
    BY <1>1, <2>1, <2>2, ResultsAre DEF OperationAdd, RegistersOnly
<1>5. ASSUME TakesR0(instruction, OP_AND)
      PROVE  Results(2, BitAnd(a, OtherValue))
  <2>1. OperationAnd
    BY <1>5, ExecutedIs DEF TakesR0
  <2>2. registers' = SetResult(2, BitAnd(a, OtherValue))
    BY <1>2, <1>5, <2>1 DEF OperationAnd, TakesR0, DR, SR1
  <2> QED
    BY <1>1, <2>1, <2>2, ResultsAre DEF OperationAnd, RegistersOnly
<1>6. CASE instruction = ADD_REGISTER
  <2>1. OtherValue = b
    BY <1>2, <1>6, ArithmeticFields DEF OtherValue, SR2
  <2>2. Results(2, Wrap(a + b))
    BY <1>4, <1>6, <2>1, ArithmeticFields
  <2> QED
    BY <1>6, <2>2, SumIsSigned, ComputedIs
<1>7. CASE instruction = AND_REGISTER
  <2>1. OtherValue = b
    BY <1>2, <1>7, ArithmeticFields DEF OtherValue, SR2
  <2>2. Results(2, BitAnd(a, b))
    BY <1>5, <1>7, <2>1, ArithmeticFields
  <2> QED
    BY <1>7, <2>2, AndIsBitByBit, ComputedIs
<1>8. CASE instruction = NOT_REGISTER
  <2>1. OperationNot
    BY <1>8, ArithmeticFields, ExecutedIs DEF TakesR0
  <2>2. registers' = SetResult(2, BitNot(a))
    BY <1>2, <1>8, <2>1, ArithmeticFields DEF OperationNot, TakesR0, DR, SR1
  <2>3. Results(2, BitNot(a))
    BY <1>1, <2>1, <2>2, ResultsAre DEF OperationNot, RegistersOnly
  <2>4. Signed(BitNot(a)) = -Signed(a) - 1
    <3>1. a \in Int /\ 0 <= a /\ a <= 65535
      BY WordBounds
    <3> QED
      BY <3>1 DEF Signed, BitNot, WORD_MAX
  <2> QED
    BY <1>8, <2>3, <2>4, ComputedIs
<1>9. ASSUME NEW imm \in 0 .. 31, instruction = ADD_IMMEDIATE(imm)
      PROVE  \E result :
               Results(2, result) /\ Computed(instruction, a, b, result)
  <2>1. OtherValue = Imm5(instruction)
    BY <1>9, ImmediateFields DEF OtherValue
  <2>2. PICK v \in Word :
          v = Imm5(instruction) /\ Signed(v) = ImmediateValue(instruction)
    BY <1>1, ImmediateIs DEF ImmediateValue
  <2>3. Results(2, Wrap(a + v))
    BY <1>4, <1>9, <2>1, <2>2, ImmediateFields
  <2>4. (Signed(a) + ImmediateValue(instruction) - Signed(Wrap(a + v)))
          % WORD_MAX = 0
    BY <2>2, SumIsSigned
  <2>5. Computed(instruction, a, b, Wrap(a + v))
    BY <1>9, <2>4, ComputedIs
  <2> QED
    BY <2>3, <2>5
<1>10. ASSUME NEW imm \in 0 .. 31, instruction = AND_IMMEDIATE(imm)
       PROVE  \E result :
                Results(2, result) /\ Computed(instruction, a, b, result)
  <2>1. OtherValue = Imm5(instruction)
    BY <1>10, ImmediateFields DEF OtherValue
  <2>2. PICK v \in Word :
          v = Imm5(instruction) /\ v = ImmediateValue(instruction) % WORD_MAX
    BY <1>1, ImmediateIs DEF ImmediateValue
  <2>3. Results(2, BitAnd(a, v))
    BY <1>5, <1>10, <2>1, <2>2, ImmediateFields
  <2>4. IsAnd(BitAnd(a, v), a, ImmediateValue(instruction) % WORD_MAX)
    BY <2>2, AndIsBitByBit
  <2>5. Computed(instruction, a, b, BitAnd(a, v))
    BY <1>10, <2>4, ComputedIs
  <2> QED
    BY <2>3, <2>5
<1>11. \/ instruction \in {ADD_REGISTER, AND_REGISTER, NOT_REGISTER}
       \/ \E imm \in 0 .. 31 : instruction \in {ADD_IMMEDIATE(imm),
                                                AND_IMMEDIATE(imm)}
  BY OperationsAssumption DEF Arithmetic
<1> QED
  BY <1>6, <1>7, <1>8, <1>9, <1>10, <1>11

(* Every step of such a program keeps its invariant.                       *)
LEMMA ArithmeticSteps ==
  MachineTypeOK /\ ArithmeticInv /\ MachineNext => ArithmeticInv'
<1> SUFFICES ASSUME MachineTypeOK, ArithmeticInv, MachineNext
             PROVE  ArithmeticInv'
  OBVIOUS
<1>1. PICK n \in 0 .. 3 : At(ORIGIN + n) /\ ArithmeticAt(n)
  BY HaltedRests DEF ArithmeticInv
<1>2. ArithmeticCode /\ n \in 0 .. 12
  BY <1>1 DEF ArithmeticInv
<1>3. ASSUME UNCHANGED memory
      PROVE  ArithmeticCode' /\ Cell(2)' = Cell(2) /\ Cell(4)' = Cell(4)
             /\ Cell(5)' = Cell(5)
  BY <1>2, <1>3 DEF ArithmeticCode, Cell
<1>4. 0 \in GeneralRegisters /\ 1 \in GeneralRegisters /\ 2 \in GeneralRegisters
  BY DEF GeneralRegisters
<1>5. CASE control = "fetch"
  <2>1. ORIGIN + n \in Place
    BY <1>1 DEF ORIGIN, Place
  <2>2. At(ORIGIN + n)' /\ UNCHANGED memory /\ Kept({})
    BY <1>1, <1>5, <2>1, FetchesIs, AtFetched
  <2>3. /\ registers'[0] = registers[0] /\ registers'[1] = registers[1]
        /\ registers'[2] = registers[2]
    BY <1>4, <2>2 DEF Kept
  <2>4. ArithmeticAt(n)'
    BY <1>1, <1>3, <2>2, <2>3 DEF ArithmeticAt
  <2> QED
    BY <1>1, <1>3, <2>2, <2>4 DEF ArithmeticInv
<1>6. CASE control = "execute"
  <2>1. instruction = Cell(n) /\ PC = ORIGIN + n + 1
    BY <1>1, <1>2, <1>6, Executes
  <2>2. ASSUME NEW code, NEW value, Results(code, value), n < 3,
               ArithmeticAt(n + 1)'
        PROVE  ArithmeticInv'
    <3>1. At(ORIGIN + (n + 1))' /\ n + 1 \in 0 .. 3
      BY <1>2, <2>1, <2>2, ResultGoesOn
    <3> QED
      BY <1>3, <2>2, <3>1 DEF ArithmeticInv, Results
  <2>3. CASE n = 0
    <3>1. Results(0, Cell(4))
      BY <1>1, <1>2, <1>6, <2>3, LoadsCell, ArithmeticFields DEF ArithmeticCode
    <3>2. ArithmeticAt(1)'
      BY <1>3, <3>1 DEF ArithmeticAt, Results
    <3> QED
      BY <2>2, <2>3, <3>1, <3>2
  <2>4. CASE n = 1
    <3>1. Results(1, Cell(5))
      BY <1>1, <1>2, <1>6, <2>4, LoadsCell, ArithmeticFields DEF ArithmeticCode
    <3>2. ArithmeticAt(2)'
      BY <1>1, <1>3, <1>4, <2>4, <3>1 DEF ArithmeticAt, Results, Kept
    <3> QED
      BY <2>2, <2>4, <3>1, <3>2
  <2>5. CASE n = 2
    <3>1. PICK result :
            /\ Results(2, result)
            /\ Computed(instruction, registers[0], registers[1], result)
      BY <1>2, <1>6, <2>1, <2>5, ArithmeticComputes DEF ArithmeticCode
    <3>2. Computed(Cell(2), Cell(4), Cell(5), result)
      BY <1>1, <2>1, <2>5, <3>1 DEF ArithmeticAt
    <3>3. registers'[2] = result /\ UNCHANGED memory
          /\ registers'[0] = registers[0] /\ registers'[1] = registers[1]
      BY <1>4, <3>1 DEF Results, Kept
    <3>4. ArithmeticAt(3)'
      BY <1>1, <1>3, <2>5, <3>2, <3>3 DEF ArithmeticAt
    <3> QED
      BY <2>2, <2>5, <3>1, <3>4
  <2>6. CASE n = 3
    <3>1. TrapHalt
      BY <1>2, <1>6, <2>1, <2>6, ExecutedIs, EchoFields
         DEF ArithmeticCode, Trapping, Executing, TrapVector
    <3>2. control' = "halted" /\ Kept({R7}) /\ UNCHANGED memory
      BY <3>1, HaltedIs
    <3>3. registers'[2] = registers[2]
      BY <1>4, <3>2 DEF Kept, R7
    <3>4. Computed(Cell(2), Cell(4), Cell(5), registers[2])'
      BY <1>1, <1>3, <2>6, <3>2, <3>3 DEF ArithmeticAt
    <3> QED
      BY <1>3, <3>2, <3>4 DEF ArithmeticInv
  <2> QED
    BY <1>1, <2>3, <2>4, <2>5, <2>6
<1> QED
  BY <1>1, <1>5, <1>6 DEF At

(* So does a step that leaves the machine alone.                           *)
LEMMA ArithmeticRests ==
  ArithmeticInv /\ UNCHANGED machineVars => ArithmeticInv'
  BY DEF ArithmeticInv, ArithmeticCode, ArithmeticAt, At, Cell, PC, machineVars

\* Every program is one of these, on any operands and with any immediate.
OnlyArithmeticPrograms == Only(ArithmeticPrograms)

(* They start at their first instruction.                                  *)
LEMMA ArithmeticStarts == OnlyArithmeticPrograms /\ Init => ArithmeticInv
<1> SUFFICES ASSUME OnlyArithmeticPrograms, Init PROVE ArithmeticInv
  OBVIOUS
<1>1. At(ORIGIN) /\ \E program \in ArithmeticPrograms : InPlace(program)
  BY StartsWith DEF OnlyArithmeticPrograms
<1> DEFINE code(op, a, b) == <<8195, 8707, op, HALT, a, b>>
<1>2. PICK op \in Arithmetic, a \in Operands, b \in Operands :
        InPlace(Code(ORIGIN, code(op, a, b)))
  <2>1. ArithmeticPrograms =
          {Code(ORIGIN, code(op, a, b)) :
             op \in Arithmetic, a \in Operands, b \in Operands}
    BY DEF ArithmeticPrograms
  <2> HIDE DEF code
  <2> QED
    BY <1>1, <2>1
<1> DEFINE words == code(op, a, b)
<1>3. op \in Int
  <2>1. \A imm \in Immediates : imm \in Int
    BY OperationsAssumption
  <2> QED
    BY <2>1 DEF Arithmetic, ADD_REGISTER, AND_REGISTER, NOT_REGISTER,
       ADD_IMMEDIATE, AND_IMMEDIATE
<1>4. a \in Int /\ b \in Int /\ HALT \in Int
  BY OperationsAssumption, WordBounds DEF HALT
<1>5. /\ words \in Seq(Int) /\ Len(words) = 6
      /\ words[1] = 8195 /\ words[2] = 8707 /\ words[3] = op /\ words[4] = HALT
  BY <1>3, <1>4
<1> HIDE DEF code
<1>6. InMemory(words)
  BY <1>2, <1>5, CodeInPlace
<1> HIDE DEF words
<1>7. ArithmeticCode
  BY <1>5, <1>6 DEF InMemory, ArithmeticCode
<1>8. ORIGIN = ORIGIN + 0
  BY DEF ORIGIN
<1>9. At(ORIGIN + 0) /\ ArithmeticAt(0)
  BY <1>1, <1>8 DEF ArithmeticAt
<1> QED
  BY <1>7, <1>9 DEF ArithmeticInv

(* Whatever two words and whatever immediate: ADD is signed addition       *)
(* modulo 2^16, AND the bitwise and, NOT the negation less one.            *)
THEOREM ResultsAreSigned ==
  ASSUME OnlyArithmeticPrograms PROVE Spec => []ArithmeticIsSigned
<1>1. Init => IInv /\ ArithmeticInv
  BY InitInvariant, ArithmeticStarts
<1>2. IInv /\ ArithmeticInv /\ [Next]_vars => (IInv /\ ArithmeticInv)'
  BY StepInvariant, ArithmeticSteps, ArithmeticRests, MachineOrUser
     DEF IInv, TypeOK
<1>3. ArithmeticInv => ArithmeticIsSigned
  BY DEF ArithmeticInv, ArithmeticIsSigned, Ends, At
<1> QED
  BY <1>1, <1>2, <1>3, PTL DEF Spec

-----------------------------------------------------------------------------
(* Branches. *)

BranchCode ==
  /\ Cell(0) = 8195 /\ Cell(1) \in {mask * 512 + 1 : mask \in 0 .. 7}
  /\ Cell(2) = HALT /\ Cell(3) = HALT

\* The HALT the branch should lead to.
Goal == IF Names(Cell(1) \div 512, Signed(Cell(4))) THEN 3 ELSE 2

BranchInv ==
  /\ BranchCode
  /\ \/ At(ORIGIN + 0)
     \/ At(ORIGIN + 1) /\ Status = ConditionFlag(Cell(4))
     \/ At(ORIGIN + Goal)
     \/ control = "halted" /\ PC = ORIGIN + Goal + 1

(* The branch with each mask.                                              *)
LEMMA MaskFields ==
  ASSUME NEW mask \in 0 .. 7, NEW word, word = mask * 512 + 1
  PROVE  /\ Opcode(word) = OP_BR /\ PcOffset9(word) = 1 /\ word \div 512 = mask
         /\ (word \div 2048) % 2 = 1 <=> mask \in {4, 5, 6, 7}
         /\ (word \div 1024) % 2 = 1 <=> mask \in {2, 3, 6, 7}
         /\ (word \div 512) % 2 = 1 <=> mask \in {1, 3, 5, 7}
<1>1. mask \in {0, 1, 2, 3, 4, 5, 6, 7}
  OBVIOUS
<1>2. /\ word \div 4096 = 0 /\ word % 512 = 1 /\ word \div 512 = mask
  BY <1>1
<1>3. Opcode(word) = OP_BR
  BY <1>2 DEF Opcode, OP_BR
<1>4. PcOffset9(word) = 1
  <2>1. PcOffset9(word) = SignExtend(1, 512)
    BY <1>2 DEF PcOffset9
  <2> QED
    BY <2>1 DEF SignExtend, WORD_MAX
<1>5. (word \div 2048) % 2 = 1 <=> mask \in {4, 5, 6, 7}
  BY <1>1
<1>6. (word \div 1024) % 2 = 1 <=> mask \in {2, 3, 6, 7}
  BY <1>1
<1>7. (word \div 512) % 2 = 1 <=> mask \in {1, 3, 5, 7}
  BY <1>1
<1> QED
  BY <1>2, <1>3, <1>4, <1>5, <1>6, <1>7

(* With the flag of a word for the status, a branch is taken when its mask *)
(* names the word's sign.                                                  *)
LEMMA TakenBySign ==
  ASSUME NEW mask \in 0 .. 7, instruction = mask * 512 + 1, NEW value \in Word,
         Status = ConditionFlag(value)
  PROVE  BranchTaken <=> Names(mask, Signed(value))
<1> DEFINE n == (instruction \div 2048) % 2 = 1
           z == (instruction \div 1024) % 2 = 1
           p == (instruction \div 512) % 2 = 1
<1>1. BranchTaken <=> \/ n /\ Status = CONDITION_FLAG_NEGATIVE
                      \/ z /\ Status = CONDITION_FLAG_ZERO
                      \/ p /\ Status = CONDITION_FLAG_POSITIVE
  BY DEF BranchTaken, Status
<1>2. /\ n <=> mask \in {4, 5, 6, 7}
      /\ z <=> mask \in {2, 3, 6, 7}
      /\ p <=> mask \in {1, 3, 5, 7}
  BY MaskFields
<1> HIDE DEF n, z, p
<1>3. Signed(value) \in Int
  BY WordBounds DEF Signed, WORD_MAX
<1>4. /\ Status = CONDITION_FLAG_NEGATIVE <=> Signed(value) < 0
      /\ Status = CONDITION_FLAG_ZERO <=> Signed(value) = 0
      /\ Status \in ConditionFlags
  BY FlagIsSignOfWord, ConditionFlagType
<1>5. Status = CONDITION_FLAG_POSITIVE <=> Signed(value) > 0
  <2>1. Status = CONDITION_FLAG_POSITIVE <=>
          ~(Status = CONDITION_FLAG_NEGATIVE) /\ ~(Status = CONDITION_FLAG_ZERO)
    BY <1>4 DEF ConditionFlags, CONDITION_FLAG_NEGATIVE, CONDITION_FLAG_ZERO,
       CONDITION_FLAG_POSITIVE
  <2> QED
    BY <1>3, <1>4, <2>1
<1> QED
  BY <1>1, <1>2, <1>4, <1>5 DEF Names

(* Every step of such a program keeps its invariant.                       *)
LEMMA BranchSteps == MachineTypeOK /\ BranchInv /\ MachineNext => BranchInv'
<1> SUFFICES ASSUME MachineTypeOK, BranchInv, MachineNext PROVE BranchInv'
  OBVIOUS
<1>1. BranchCode /\ Goal \in {2, 3}
  BY DEF BranchInv, Goal
<1>2. PICK mask \in 0 .. 7 : Cell(1) = mask * 512 + 1
  BY <1>1 DEF BranchCode
<1>3. PICK goal \in {2, 3} : goal = Goal
  BY <1>1
<1>4. ASSUME UNCHANGED memory
      PROVE  BranchCode' /\ Goal' = goal /\ Cell(4)' = Cell(4)
  BY <1>1, <1>3, <1>4 DEF BranchCode, Goal, Cell
<1>5. PICK n \in 0 .. 3 : /\ At(ORIGIN + n) /\ n \in {0, 1, goal}
                          /\ n = 1 => Status = ConditionFlag(Cell(4))
  BY <1>3, HaltedRests DEF BranchInv
<1>6. n \in 0 .. 12
  OBVIOUS
<1>7. CASE control = "fetch"
  <2>1. ORIGIN + n \in Place
    BY DEF ORIGIN, Place
  <2>2. At(ORIGIN + n)' /\ UNCHANGED memory /\ Status' = Status
    BY <1>5, <1>7, <2>1, FetchesIs, AtFetched
  <2> QED
    BY <1>4, <1>5, <2>2 DEF BranchInv
<1>8. CASE control = "execute"
  <2>1. instruction = Cell(n) /\ PC = ORIGIN + n + 1
    BY <1>5, <1>6, <1>8, Executes
  <2>2. CASE n = 0
    <3>1. Results(0, Cell(4))
      BY <1>1, <1>5, <1>8, <2>2, LoadsCell, ArithmeticFields DEF BranchCode
    <3>2. At(ORIGIN + 1)'
      BY <2>1, <2>2, <3>1, ResultGoesOn
    <3> QED
      BY <1>4, <3>1, <3>2 DEF Results, BranchInv
  <2>3. CASE n = 1
    <3>1. instruction = mask * 512 + 1
      BY <1>2, <2>1, <2>3
    <3>2. Opcode(instruction) = OP_BR /\ PcOffset9(instruction) = 1
          /\ Cell(1) \div 512 = mask
      BY <1>2, <3>1, MaskFields
    <3>3. /\ control' = "fetch" /\ UNCHANGED memory
          /\ PC' = IF BranchTaken THEN PcRelative9 ELSE PC
      BY <1>8, <3>2, ExecutedIs, BranchedIs
    <3>4. PcRelative9 = ORIGIN + n + 1 + 1
      BY <1>5, <1>6, <1>8, <3>2, Executes
    <3>5. Cell(4) \in Word
      BY PeekType DEF MachineTypeOK, Cell
    <3>6. BranchTaken <=> Names(mask, Signed(Cell(4)))
      BY <1>5, <2>3, <3>1, <3>5, TakenBySign
    <3>7. goal = IF BranchTaken THEN 3 ELSE 2
      BY <1>3, <3>2, <3>6 DEF Goal
    <3>8. PC' = ORIGIN + goal
      BY <2>1, <2>3, <3>3, <3>4, <3>7 DEF ORIGIN
    <3> QED
      BY <1>4, <3>3, <3>8 DEF At, BranchInv
  <2>4. CASE n = goal
    <3>1. instruction = HALT
      BY <1>1, <2>1, <2>4 DEF BranchCode
    <3>2. TrapHalt
      BY <1>8, <3>1, ExecutedIs, EchoFields DEF Trapping, Executing, TrapVector
    <3>3. control' = "halted" /\ PC' = PC /\ UNCHANGED memory
      BY <3>2, HaltedIs
    <3> QED
      BY <1>4, <2>1, <2>4, <3>3 DEF BranchInv
  <2> QED
    BY <1>5, <2>2, <2>3, <2>4
<1> QED
  BY <1>5, <1>7, <1>8 DEF At

(* So does a step that leaves the machine alone.                           *)
LEMMA BranchRests == BranchInv /\ UNCHANGED machineVars => BranchInv'
  BY DEF BranchInv, BranchCode, Goal, At, Cell, PC, Status, machineVars

\* Every program is one of these, on any operand.
OnlyBranchPrograms == Only(BranchPrograms)

(* They start at their first instruction.                                  *)
LEMMA BranchStarts == OnlyBranchPrograms /\ Init => BranchInv
<1> SUFFICES ASSUME OnlyBranchPrograms, Init PROVE BranchInv
  OBVIOUS
<1>1. At(ORIGIN) /\ \E program \in BranchPrograms : InPlace(program)
  BY StartsWith DEF OnlyBranchPrograms
<1> DEFINE code(mask, a) == <<8195, mask * 512 + 1, HALT, HALT, a>>
<1>2. PICK mask \in 0 .. 7, a \in Operands :
        InPlace(Code(ORIGIN, code(mask, a)))
  <2>1. BranchPrograms =
          {Code(ORIGIN, code(mask, a)) : mask \in 0 .. 7, a \in Operands}
    BY DEF BranchPrograms
  <2> HIDE DEF code
  <2> QED
    BY <1>1, <2>1
<1> DEFINE words == code(mask, a)
<1>3. a \in Int /\ HALT \in Int /\ mask * 512 + 1 \in Int
  BY OperationsAssumption, WordBounds DEF HALT
<1>4. /\ words \in Seq(Int) /\ Len(words) = 5
      /\ words[1] = 8195 /\ words[2] = mask * 512 + 1 /\ words[3] = HALT
      /\ words[4] = HALT
  BY <1>3
<1> HIDE DEF code
<1>5. InMemory(words)
  BY <1>2, <1>4, CodeInPlace
<1> HIDE DEF words
<1>6. BranchCode
  BY <1>4, <1>5 DEF InMemory, BranchCode
<1>7. ORIGIN = ORIGIN + 0
  BY DEF ORIGIN
<1> QED
  BY <1>1, <1>6, <1>7 DEF BranchInv

(* With any mask and on any word: a branch is taken exactly when its mask  *)
(* names the sign of the value loaded last.                                *)
THEOREM BranchesFollowSign ==
  ASSUME OnlyBranchPrograms PROVE Spec => []BranchFollowsSign
<1>1. Init => IInv /\ BranchInv
  BY InitInvariant, BranchStarts
<1>2. IInv /\ BranchInv /\ [Next]_vars => (IInv /\ BranchInv)'
  BY StepInvariant, BranchSteps, BranchRests, MachineOrUser DEF IInv, TypeOK
<1>3. BranchInv => BranchFollowsSign
  <2>1. ORIGIN + 3 + 1 = ORIGIN + 4 /\ ORIGIN + 2 + 1 = ORIGIN + 3
    BY DEF ORIGIN
  <2> QED
    BY <2>1 DEF BranchInv, BranchFollowsSign, Goal, Ends, At
<1> QED
  BY <1>1, <1>2, <1>3, PTL DEF Spec

-----------------------------------------------------------------------------
(* A store and a load. *)

StoringCode ==
  /\ Cell(0) = 8196 /\ Cell(1) = 8708 /\ Cell(4) = HALT /\ Cell(6) \in Bases
  /\ \E off \in Offsets : Cell(2) = 28736 + off /\ Cell(3) = 25664 + off

\* Where the two of them lead.
Aim == Reach(Cell(6), Cell(3) % 64)

\* A load from KBSR would have the status of the keyboard instead.
LoadedBack ==
  Aim # MR_KBSR => registers[2] = Cell(5) /\ Peek(memory, Aim) = Cell(5)

\* At the nth instruction, from 0.
StoringAt(n) ==
  /\ n \in {1, 2} => registers[0] = Cell(5)
  /\ n \in {2, 3} => registers[1] = Cell(6)
  /\ n = 3 => Peek(memory, Aim) = Cell(5)
  /\ n = 4 => LoadedBack

StoringInv ==
  /\ StoringCode
  /\ \/ \E n \in 0 .. 4 : At(ORIGIN + n) /\ StoringAt(n)
     \/ control = "halted" /\ LoadedBack

(* The instructions of these programs.                                     *)
LEMMA StoringFields ==
  /\ Opcode(8196) = OP_LD /\ FieldDR(8196) = 0 /\ PcOffset9(8196) = 4
  /\ Opcode(8708) = OP_LD /\ FieldDR(8708) = 1 /\ PcOffset9(8708) = 4
  /\ \A off \in 0 .. 63 :
       /\ Opcode(28736 + off) = OP_STR /\ FieldDR(28736 + off) = 0
       /\ FieldSR1(28736 + off) = 1 /\ (28736 + off) % 64 = off
       /\ Opcode(25664 + off) = OP_LDR /\ FieldDR(25664 + off) = 2
       /\ FieldSR1(25664 + off) = 1 /\ (25664 + off) % 64 = off
<1>1. /\ Opcode(8196) = OP_LD /\ FieldDR(8196) = 0
      /\ Opcode(8708) = OP_LD /\ FieldDR(8708) = 1
  BY DEF Opcode, FieldDR, OP_LD
<1>2. PcOffset9(8196) = 4 /\ PcOffset9(8708) = 4
  BY DEF PcOffset9, SignExtend, WORD_MAX
<1>3. ASSUME NEW off \in 0 .. 63
      PROVE  /\ Opcode(28736 + off) = OP_STR /\ FieldDR(28736 + off) = 0
             /\ FieldSR1(28736 + off) = 1 /\ (28736 + off) % 64 = off
             /\ Opcode(25664 + off) = OP_LDR /\ FieldDR(25664 + off) = 2
             /\ FieldSR1(25664 + off) = 1 /\ (25664 + off) % 64 = off
  <2>1. off \in Int /\ 0 <= off /\ off <= 63
    BY <1>3
  <2>2. /\ (28736 + off) \div 4096 = 7 /\ (28736 + off) \div 512 = 56
        /\ (28736 + off) \div 64 = 449 /\ (28736 + off) % 64 = off
    BY <2>1
  <2>3. /\ (25664 + off) \div 4096 = 6 /\ (25664 + off) \div 512 = 50
        /\ (25664 + off) \div 64 = 401 /\ (25664 + off) % 64 = off
    BY <2>1
  <2>4. 56 % 8 = 0 /\ 449 % 8 = 1 /\ 50 % 8 = 2 /\ 401 % 8 = 1
    OBVIOUS
  <2> QED
    BY <2>2, <2>3, <2>4 DEF Opcode, FieldDR, FieldSR1, OP_STR, OP_LDR
<1> QED
  BY <1>1, <1>2, <1>3

(* The base and offset of an instruction lead where they say.              *)
LEMMA BaseReaches ==
  ASSUME MachineTypeOK
  PROVE  BaseOffset = Reach(registers[SR1], instruction % 64)
<1>1. instruction \in Word /\ registers[SR1] \in Word
  BY OperandTypes DEF MachineTypeOK
<1>2. 64 \in {32, 64, 512, 2048} /\ 64 \div 2 = 32
  OBVIOUS
<1> QED
  BY <1>1, <1>2, OffsetIsSigned DEF BaseOffset, Offset6, Reach

(* Every step of such a program keeps its invariant.                       *)
LEMMA StoringSteps == MachineTypeOK /\ StoringInv /\ MachineNext => StoringInv'
<1> SUFFICES ASSUME MachineTypeOK, StoringInv, MachineNext PROVE StoringInv'
  OBVIOUS
<1>1. PICK n \in 0 .. 4 : At(ORIGIN + n) /\ StoringAt(n)
  BY HaltedRests DEF StoringInv
<1>2. StoringCode /\ n \in 0 .. 12
  BY <1>1 DEF StoringInv
<1>3. PICK off \in Offsets : Cell(2) = 28736 + off /\ Cell(3) = 25664 + off
  BY <1>2 DEF StoringCode
<1>4. off \in 0 .. 63
  BY OperationsAssumption
<1>5. PICK aim : aim = Aim
  OBVIOUS
<1>6. aim = Reach(Cell(6), off) /\ aim \notin ORIGIN .. ORIGIN + 6
  <2>1. Cell(3) % 64 = off
    BY <1>3, <1>4, StoringFields
  <2> QED
    BY <1>2, <1>5, <2>1, OperationsAssumption DEF Aim, StoringCode
<1>7. ASSUME NEW m \in 0 .. 6
      PROVE  ORIGIN + m \notin {MR_KBSR, MR_KBDR} /\ ORIGIN + m # aim
  BY <1>6 DEF ORIGIN, MR_KBSR, MR_KBDR
<1>8. ASSUME \A m \in 0 .. 6 : Cell(m)' = Cell(m)
      PROVE  /\ StoringCode' /\ Aim' = aim
             /\ Cell(5)' = Cell(5) /\ Cell(6)' = Cell(6)
  BY <1>2, <1>5, <1>8 DEF StoringCode, Aim
<1>9. ASSUME UNCHANGED memory PROVE \A m \in 0 .. 6 : Cell(m)' = Cell(m)
  BY <1>9 DEF Cell
<1>10. /\ 0 \in GeneralRegisters /\ 1 \in GeneralRegisters
       /\ 2 \in GeneralRegisters
  BY DEF GeneralRegisters
<1>11. CASE control = "fetch"
  <2>1. ORIGIN + n \in Place
    BY <1>1 DEF ORIGIN, Place
  <2>2. At(ORIGIN + n)' /\ UNCHANGED memory /\ Kept({})
    BY <1>1, <1>11, <2>1, FetchesIs, AtFetched
  <2>3. /\ registers'[0] = registers[0] /\ registers'[1] = registers[1]
        /\ registers'[2] = registers[2]
    BY <1>10, <2>2 DEF Kept
  <2>4. StoringCode' /\ Aim' = aim /\ Cell(5)' = Cell(5) /\ Cell(6)' = Cell(6)
    BY <1>8, <1>9, <2>2
  <2>5. StoringAt(n)'
    BY <1>1, <1>5, <2>2, <2>3, <2>4 DEF StoringAt, LoadedBack
  <2> QED
    BY <1>1, <2>2, <2>4, <2>5 DEF StoringInv
<1>12. CASE control = "execute"
  <2>1. instruction = Cell(n) /\ PC = ORIGIN + n + 1
    BY <1>1, <1>2, <1>12, Executes
  <2>2. ASSUME NEW code, NEW value, Results(code, value), n < 4,
               StoringAt(n + 1)'
        PROVE  StoringInv'
    <3>1. At(ORIGIN + (n + 1))' /\ n + 1 \in 0 .. 4
      BY <1>2, <2>1, <2>2, ResultGoesOn
    <3>2. StoringCode'
      BY <1>8, <1>9, <2>2 DEF Results
    <3> QED
      BY <2>2, <3>1, <3>2 DEF StoringInv
  <2>3. CASE n = 0
    <3>1. Results(0, Cell(5))
      BY <1>1, <1>2, <1>12, <2>3, LoadsCell, StoringFields DEF StoringCode
    <3>2. Cell(5)' = Cell(5)
      BY <1>8, <1>9, <3>1 DEF Results
    <3>3. StoringAt(1)'
      BY <3>1, <3>2 DEF StoringAt, Results
    <3> QED
      BY <2>2, <2>3, <3>1, <3>3
  <2>4. CASE n = 1
    <3>1. Results(1, Cell(6))
      BY <1>1, <1>2, <1>12, <2>4, LoadsCell, StoringFields DEF StoringCode
    <3>2. Cell(5)' = Cell(5) /\ Cell(6)' = Cell(6)
      BY <1>8, <1>9, <3>1 DEF Results
    <3>3. registers'[0] = registers[0] /\ registers'[1] = Cell(6)
      BY <1>10, <3>1 DEF Results, Kept
    <3>4. StoringAt(2)'
      BY <1>1, <2>4, <3>2, <3>3 DEF StoringAt
    <3> QED
      BY <2>2, <2>4, <3>1, <3>4
  <2>5. CASE n = 2
    <3>1. OperationStr /\ DR = 0 /\ SR1 = 1 /\ instruction % 64 = off
      BY <1>3, <1>4, <1>12, <2>1, <2>5, ExecutedIs, StoringFields DEF DR, SR1
    <3>2. BaseOffset = aim
      BY <1>1, <1>6, <2>5, <3>1, BaseReaches DEF StoringAt
    <3>3. /\ memory' = Store(memory, aim, Cell(5)) /\ control' = "fetch"
          /\ UNCHANGED registers
      BY <1>1, <2>5, <3>1, <3>2 DEF OperationStr, StoreAt, Continue, StoringAt
    <3>4. \A m \in 0 .. 6 : Cell(m)' = Cell(m)
      BY <1>7, <3>3, StoresElsewhere DEF Cell
    <3>5. StoringCode' /\ Aim' = aim /\ Cell(5)' = Cell(5) /\ Cell(6)' = Cell(6)
      BY <1>8, <3>4
    <3>6. Peek(memory', aim) = Cell(5)
      BY <3>3 DEF Peek, Store
    <3>7. StoringAt(3)'
      BY <1>1, <2>5, <3>3, <3>5, <3>6 DEF StoringAt
    <3>8. At(ORIGIN + 3)'
      BY <2>1, <2>5, <3>3 DEF At, PC, ORIGIN
    <3> QED
      BY <3>5, <3>7, <3>8 DEF StoringInv
  <2>6. CASE n = 3
    <3>1. OperationLdr /\ DR = 2 /\ SR1 = 1 /\ instruction % 64 = off
      BY <1>3, <1>4, <1>12, <2>1, <2>6, ExecutedIs, StoringFields DEF DR, SR1
    <3>2. BaseOffset = aim
      BY <1>1, <1>6, <2>6, <3>1, BaseReaches DEF StoringAt
    <3>3. Load(aim)
      BY <3>1, <3>2 DEF OperationLdr
    <3>4. /\ control' = "fetch" /\ PC' = PC
          /\ \A a : a \notin {MR_KBSR, MR_KBDR} =>
               Peek(memory', a) = Peek(memory, a)
      BY <3>3, PolledIs
    <3>5. \A m \in 0 .. 6 : Cell(m)' = Cell(m)
      BY <1>7, <3>4 DEF Cell
    <3>6. StoringCode' /\ Aim' = aim /\ Cell(5)' = Cell(5)
      BY <1>8, <3>5
    <3>7. ASSUME aim # MR_KBSR
          PROVE  registers'[2] = Cell(5) /\ Peek(memory', aim) = Cell(5)
      <4>1. Results(2, Peek(memory, aim))
        BY <3>1, <3>3, <3>7, LoadedIs
      <4> QED
        BY <1>1, <1>5, <2>6, <4>1 DEF Results, StoringAt
    <3>8. StoringAt(4)'
      BY <3>6, <3>7 DEF StoringAt, LoadedBack
    <3>9. At(ORIGIN + 4)'
      BY <2>1, <2>6, <3>4 DEF At, ORIGIN
    <3> QED
      BY <3>6, <3>8, <3>9 DEF StoringInv
  <2>7. CASE n = 4
    <3>1. TrapHalt
      BY <1>2, <1>12, <2>1, <2>7, ExecutedIs, EchoFields
         DEF StoringCode, Trapping, Executing, TrapVector
    <3>2. control' = "halted" /\ Kept({R7}) /\ UNCHANGED memory
      BY <3>1, HaltedIs
    <3>3. registers'[2] = registers[2]
      BY <1>10, <3>2 DEF Kept, R7
    <3>4. StoringCode' /\ Aim' = aim /\ Cell(5)' = Cell(5)
      BY <1>8, <1>9, <3>2
    <3>5. LoadedBack'
      BY <1>1, <1>5, <2>7, <3>2, <3>3, <3>4 DEF StoringAt, LoadedBack
    <3> QED
      BY <3>2, <3>4, <3>5 DEF StoringInv
  <2> QED
    BY <1>1, <2>3, <2>4, <2>5, <2>6, <2>7
<1> QED
  BY <1>1, <1>11, <1>12 DEF At

(* So does a step that leaves the machine alone.                           *)
LEMMA StoringRests == StoringInv /\ UNCHANGED machineVars => StoringInv'
  BY DEF StoringInv, StoringCode, StoringAt, LoadedBack, Aim, At, Cell, PC,
     machineVars

\* Every program is one of these, on any operand, base and offset that do
\* not lead into the code.
OnlyStoreAndLoadPrograms == Only(StoreAndLoadPrograms)

(* They start at their first instruction.                                  *)
LEMMA StoringStarts == OnlyStoreAndLoadPrograms /\ Init => StoringInv
<1> SUFFICES ASSUME OnlyStoreAndLoadPrograms, Init PROVE StoringInv
  OBVIOUS
<1>1. At(ORIGIN) /\ \E program \in StoreAndLoadPrograms : InPlace(program)
  BY StartsWith DEF OnlyStoreAndLoadPrograms
<1> DEFINE code(off, a, base) ==
             <<8196, 8708, 28736 + off, 25664 + off, HALT, a, base>>
<1>2. PICK off \in Offsets, a \in Operands, base \in Bases :
        InPlace(Code(ORIGIN, code(off, a, base)))
  <2>1. StoreAndLoadPrograms =
          {Code(ORIGIN, code(off, a, base)) :
             off \in Offsets, a \in Operands, base \in Bases}
    BY DEF StoreAndLoadPrograms
  <2> HIDE DEF code
  <2> QED
    BY <1>1, <2>1
<1> DEFINE words == code(off, a, base)
<1>3. /\ a \in Int /\ base \in Int /\ HALT \in Int /\ off \in 0 .. 63
      /\ 28736 + off \in Int /\ 25664 + off \in Int
  BY OperationsAssumption, WordBounds DEF HALT
<1>4. /\ words \in Seq(Int) /\ Len(words) = 7
      /\ words[1] = 8196 /\ words[2] = 8708 /\ words[3] = 28736 + off
      /\ words[4] = 25664 + off /\ words[5] = HALT /\ words[7] = base
  BY <1>3
<1> HIDE DEF code
<1>5. InMemory(words)
  BY <1>2, <1>4, CodeInPlace
<1> HIDE DEF words
<1>6. StoringCode
  BY <1>4, <1>5 DEF InMemory, StoringCode
<1>7. ORIGIN = ORIGIN + 0
  BY DEF ORIGIN
<1>8. At(ORIGIN + 0) /\ StoringAt(0)
  BY <1>1, <1>7 DEF StoringAt
<1> QED
  BY <1>6, <1>8 DEF StoringInv

(* Any word, stored through any base register and signed offset that lead  *)
(* neither into the code nor to KBSR, is loaded back through the same, and *)
(* lies at that address.                                                   *)
THEOREM StoresAreLoadedBack ==
  ASSUME OnlyStoreAndLoadPrograms PROVE Spec => []StoredIsLoaded
<1>1. Init => IInv /\ StoringInv
  BY InitInvariant, StoringStarts
<1>2. IInv /\ StoringInv /\ [Next]_vars => (IInv /\ StoringInv)'
  BY StepInvariant, StoringSteps, StoringRests, MachineOrUser DEF IInv, TypeOK
<1>3. StoringInv => StoredIsLoaded
  BY DEF StoringInv, StoredIsLoaded, LoadedBack, Aim, At
<1> QED
  BY <1>1, <1>2, <1>3, PTL DEF Spec

-----------------------------------------------------------------------------
(* Calls. *)

CallsCode ==
  /\ Cell(0) = 57860 /\ Cell(1) = 18435 /\ Cell(2) = 16448 /\ Cell(3) = 13317
  /\ Cell(4) = HALT /\ Cell(5) = 5281 /\ Cell(6) = 49600

\* At the nth instruction, from 0; 5 and 6 are the subroutine, and k is the
\* number of calls that have come back.
CallsAt(n) ==
  /\ n \in {0, 1} => registers[2] = 0
  /\ n = 2 => registers[2] = 1
  /\ n \in {3, 4} => registers[2] = 2
  /\ n \in {1, 2, 5, 6} => registers[1] = ORIGIN + 5
  /\ n = 4 => Cell(9) = 2
  /\ n = 5 => \E k \in {0, 1} : /\ registers[2] = k
                                /\ registers[R7] = ORIGIN + 2 + k
  /\ n = 6 => \E k \in {0, 1} : /\ registers[2] = k + 1
                                /\ registers[R7] = ORIGIN + 2 + k

CallsInv ==
  /\ CallsCode
  /\ \/ \E n \in 0 .. 6 : At(ORIGIN + n) /\ CallsAt(n)
     \/ control = "halted" /\ registers[2] = 2 /\ Cell(9) = 2

LinkCode == Cell(0) = 60932 /\ Cell(1) = 16832 /\ Cell(2) = HALT

\* R7 is the address after JSRR both for the jump and after it.
LinkInv ==
  /\ LinkCode
  /\ \/ \E n \in 0 .. 2 : At(ORIGIN + n)
     \/ control = "halted" /\ PC = ORIGIN + 3

(* The instructions of these programs.                                     *)
LEMMA CallFields ==
  /\ Opcode(57860) = OP_LEA /\ FieldDR(57860) = 1 /\ PcOffset9(57860) = 4
  /\ Opcode(18435) = OP_JSR /\ OffsetMode(18435) /\ PcOffset11(18435) = 3
  /\ Opcode(16448) = OP_JSR /\ ~OffsetMode(16448) /\ FieldSR1(16448) = 1
  /\ Opcode(13317) = OP_ST /\ FieldDR(13317) = 2 /\ PcOffset9(13317) = 5
  /\ Opcode(5281) = OP_ADD /\ FieldDR(5281) = 2 /\ FieldSR1(5281) = 2
  /\ ImmediateMode(5281) /\ Imm5(5281) = 1
  /\ Opcode(49600) = OP_JMP /\ FieldSR1(49600) = 7
  /\ Opcode(60932) = OP_LEA /\ FieldDR(60932) = 7 /\ PcOffset9(60932) = 4
  /\ Opcode(16832) = OP_JSR /\ ~OffsetMode(16832) /\ FieldSR1(16832) = 7
<1>1. /\ Opcode(57860) = OP_LEA /\ Opcode(18435) = OP_JSR
      /\ Opcode(16448) = OP_JSR /\ Opcode(13317) = OP_ST
      /\ Opcode(5281) = OP_ADD /\ Opcode(49600) = OP_JMP
      /\ Opcode(60932) = OP_LEA /\ Opcode(16832) = OP_JSR
  BY DEF Opcode, OP_LEA, OP_JSR, OP_ST, OP_ADD, OP_JMP
<1>2. /\ FieldDR(57860) = 1 /\ FieldDR(13317) = 2 /\ FieldDR(5281) = 2
      /\ FieldDR(60932) = 7
      /\ FieldSR1(16448) = 1 /\ FieldSR1(5281) = 2 /\ FieldSR1(49600) = 7
      /\ FieldSR1(16832) = 7
  BY DEF FieldDR, FieldSR1
<1>3. /\ OffsetMode(18435) /\ ~OffsetMode(16448) /\ ~OffsetMode(16832)
      /\ ImmediateMode(5281)
  BY DEF OffsetMode, ImmediateMode
<1>4. /\ PcOffset9(57860) = 4 /\ PcOffset9(13317) = 5 /\ PcOffset9(60932) = 4
      /\ PcOffset11(18435) = 3 /\ Imm5(5281) = 1
  BY DEF PcOffset9, PcOffset11, Imm5, SignExtend, WORD_MAX
<1> QED
  BY <1>1, <1>2, <1>3, <1>4

(* LEA has its address for a result.                                       *)
LEMMA LeaIs ==
  ASSUME MachineTypeOK, OperationLea PROVE Results(DR, PcRelative9)
  BY OperandTypes, ResultsAre DEF OperationLea, RegistersOnly

(* A call links and jumps; the link is there before the base is read.      *)
LEMMA CalledIs ==
  ASSUME MachineTypeOK, OperationJsr
  PROVE  /\ control' = "fetch" /\ UNCHANGED memory /\ Kept({R7})
         /\ registers'[R7] = PC
         /\ OffsetMode(instruction) => PC' = PcRelative11
         /\ ~OffsetMode(instruction) /\ SR1 \in GeneralRegisters =>
              PC' = IF SR1 = R7 THEN PC ELSE registers[SR1]
<1>1. registers \in [RegisterCodes -> Word]
  BY DEF MachineTypeOK
<1> DEFINE target == IF OffsetMode(instruction) THEN PcRelative11
                     ELSE SetRegister(R7, PC)[SR1]
<1>2. registers' = LinkAndJump(target)
  BY DEF OperationJsr
<1> HIDE DEF target
<1>3. PC' = target /\ registers'[R7] = PC /\ Kept({R7})
  BY <1>1, <1>2, RegistersDiffer DEF LinkAndJump, PC, Kept
<1>4. SR1 \in GeneralRegisters =>
        SetRegister(R7, PC)[SR1] = IF SR1 = R7 THEN PC ELSE registers[SR1]
  BY <1>1, RegistersDiffer DEF SetRegister
<1> QED
  BY <1>3, <1>4 DEF target, OperationJsr, RegistersOnly, Continue

(* A jump moves the program counter and nothing else.                      *)
LEMMA JumpedIs ==
  ASSUME MachineTypeOK, OperationJmp
  PROVE  /\ control' = "fetch" /\ UNCHANGED memory /\ Kept({})
         /\ PC' = registers[SR1]
<1>1. registers \in [RegisterCodes -> Word]
  BY DEF MachineTypeOK
<1> QED
  BY <1>1, RegistersDiffer DEF OperationJmp, SetRegister, RegistersOnly,
     Continue, PC, Kept

(* Every step of the program with two calls keeps its invariant.           *)
LEMMA CallsSteps == MachineTypeOK /\ CallsInv /\ MachineNext => CallsInv'
<1> SUFFICES ASSUME MachineTypeOK, CallsInv, MachineNext PROVE CallsInv'
  OBVIOUS
<1>1. PICK n \in 0 .. 6 : At(ORIGIN + n) /\ CallsAt(n)
  BY HaltedRests DEF CallsInv
<1>2. CallsCode /\ n \in 0 .. 12
  BY <1>1 DEF CallsInv
<1>3. ASSUME UNCHANGED memory PROVE CallsCode' /\ Cell(9)' = Cell(9)
  BY <1>2, <1>3 DEF CallsCode, Cell
<1>4. /\ 1 \in GeneralRegisters /\ 2 \in GeneralRegisters
      /\ R7 \in GeneralRegisters /\ R7 # 1 /\ R7 # 2 /\ R7 = 7
  BY DEF GeneralRegisters, R7
<1>5. CASE control = "fetch"
  <2>1. ORIGIN + n \in Place
    BY <1>1 DEF ORIGIN, Place
  <2>2. At(ORIGIN + n)' /\ UNCHANGED memory /\ Kept({})
    BY <1>1, <1>5, <2>1, FetchesIs, AtFetched
  <2>3. /\ registers'[1] = registers[1] /\ registers'[2] = registers[2]
        /\ registers'[R7] = registers[R7]
    BY <1>4, <2>2 DEF Kept
  <2>4. CallsAt(n)'
    BY <1>1, <1>3, <2>2, <2>3 DEF CallsAt
  <2> QED
    BY <1>1, <1>3, <2>2, <2>4 DEF CallsInv
<1>6. CASE control = "execute"
  <2>1. /\ instruction = Cell(n) /\ PC = ORIGIN + n + 1
        /\ \A off \in 0 .. 20 : PcOffset9(instruction) = off =>
             PcRelative9 = ORIGIN + n + 1 + off
    BY <1>1, <1>2, <1>6, Executes
  <2>2. ASSUME NEW m \in 0 .. 6, control' = "fetch", PC' = ORIGIN + m,
               UNCHANGED memory, CallsAt(m)'
        PROVE  CallsInv'
    BY <1>3, <2>2 DEF CallsInv, At
  <2>3. CASE n = 0
    <3>1. OperationLea /\ DR = 1 /\ PcOffset9(instruction) = 4
      BY <1>2, <1>6, <2>1, <2>3, ExecutedIs, CallFields DEF CallsCode, DR
    <3>2. PcRelative9 = ORIGIN + 5
      BY <2>1, <2>3, <3>1 DEF ORIGIN
    <3>3. Results(1, ORIGIN + 5)
      BY <3>1, <3>2, LeaIs
    <3>4. registers'[1] = ORIGIN + 5 /\ registers'[2] = registers[2]
      BY <1>4, <3>3 DEF Results, Kept
    <3>5. CallsAt(1)'
      BY <1>1, <2>3, <3>4 DEF CallsAt
    <3>6. PC' = ORIGIN + 1
      BY <2>1, <2>3, <3>3 DEF Results, ORIGIN
    <3> QED
      BY <2>2, <3>3, <3>5, <3>6 DEF Results
  <2>4. CASE n = 1
    <3>1. OperationJsr /\ OffsetMode(instruction) /\ PcOffset11(instruction) = 3
      BY <1>2, <1>6, <2>1, <2>4, ExecutedIs, CallFields DEF CallsCode
    <3>2. PcRelative11 = ORIGIN + 5
      <4>1. ORIGIN + 1 \in Place /\ 3 \in 0 .. 20
        BY DEF ORIGIN, Place
      <4>2. PC = (ORIGIN + 1) + 1
        BY <2>1, <2>4
      <4>3. PcRelative11 = ORIGIN + 1 + 1 + 3
        BY <3>1, <4>1, <4>2, Ahead
      <4> QED
        BY <4>3 DEF ORIGIN
    <3>3. /\ control' = "fetch" /\ UNCHANGED memory /\ Kept({R7})
          /\ registers'[R7] = PC /\ PC' = ORIGIN + 5
      BY <3>1, <3>2, CalledIs
    <3>4. /\ registers'[1] = ORIGIN + 5 /\ registers'[2] = 0
          /\ registers'[R7] = ORIGIN + 2 + 0
      BY <1>1, <1>4, <2>1, <2>4, <3>3 DEF Kept, CallsAt, ORIGIN
    <3>5. CallsAt(5)'
      BY <3>4 DEF CallsAt
    <3> QED
      BY <2>2, <3>3, <3>5
  <2>5. CASE n = 2
    <3>1. OperationJsr /\ ~OffsetMode(instruction) /\ SR1 = 1
      BY <1>2, <1>6, <2>1, <2>5, ExecutedIs, CallFields DEF CallsCode, SR1
    <3>2. /\ control' = "fetch" /\ UNCHANGED memory /\ Kept({R7})
          /\ registers'[R7] = PC /\ PC' = registers[1]
      BY <1>4, <3>1, CalledIs
    <3>3. /\ registers'[1] = ORIGIN + 5 /\ registers'[2] = 1
          /\ registers'[R7] = ORIGIN + 2 + 1 /\ PC' = ORIGIN + 5
      BY <1>1, <1>4, <2>1, <2>5, <3>2 DEF Kept, CallsAt
    <3>4. CallsAt(5)'
      BY <3>3 DEF CallsAt
    <3> QED
      BY <2>2, <3>2, <3>3, <3>4
  <2>6. CASE n = 3
    <3>1. OperationSt /\ DR = 2 /\ PcOffset9(instruction) = 5
      BY <1>2, <1>6, <2>1, <2>6, ExecutedIs, CallFields DEF CallsCode, DR
    <3>2. PcRelative9 = ORIGIN + 9
      BY <2>1, <2>6, <3>1 DEF ORIGIN
    <3>3. /\ memory' = Store(memory, ORIGIN + 9, 2) /\ control' = "fetch"
          /\ UNCHANGED registers
      BY <1>1, <2>6, <3>1, <3>2 DEF OperationSt, StoreAt, Continue, CallsAt
    <3>4. \A m \in 0 .. 6 : Cell(m)' = Cell(m)
      <4>1. \A m \in 0 .. 6 : ORIGIN + m # ORIGIN + 9
        BY DEF ORIGIN
      <4> QED
        BY <3>3, <4>1, StoresElsewhere DEF Cell
    <3>5. CallsCode'
      BY <1>2, <3>4 DEF CallsCode
    <3>6. Cell(9)' = 2
      BY <3>3 DEF Cell, Peek, Store
    <3>7. CallsAt(4)'
      BY <1>1, <2>6, <3>3, <3>6 DEF CallsAt
    <3>8. At(ORIGIN + 4)'
      BY <2>1, <2>6, <3>3 DEF At, PC, ORIGIN
    <3> QED
      BY <3>5, <3>7, <3>8 DEF CallsInv
  <2>7. CASE n = 4
    <3>1. TrapHalt
      BY <1>2, <1>6, <2>1, <2>7, ExecutedIs, EchoFields
         DEF CallsCode, Trapping, Executing, TrapVector
    <3>2. control' = "halted" /\ Kept({R7}) /\ UNCHANGED memory
      BY <3>1, HaltedIs
    <3>3. registers'[2] = 2
      BY <1>1, <1>4, <2>7, <3>2 DEF Kept, CallsAt
    <3> QED
      BY <1>1, <1>3, <2>7, <3>2, <3>3 DEF CallsInv, CallsAt
  <2>8. CASE n = 5
    <3>1. /\ OperationAdd /\ DR = 2 /\ SR1 = 2 /\ ImmediateMode(instruction)
          /\ Imm5(instruction) = 1
      BY <1>2, <1>6, <2>1, <2>8, ExecutedIs, CallFields DEF CallsCode, DR, SR1
    <3>2. PICK k \in {0, 1} : registers[2] = k /\ registers[R7] = ORIGIN + 2 + k
      BY <1>1, <2>8 DEF CallsAt
    <3>3. Wrap(registers[2] + OtherValue) = k + 1
      BY <3>1, <3>2 DEF OtherValue, Wrap, WORD_MAX
    <3>4. Results(2, k + 1)
      BY <1>4, <3>1, <3>3, ResultsAre DEF OperationAdd, RegistersOnly
    <3>5. /\ registers'[2] = k + 1 /\ registers'[1] = registers[1]
          /\ registers'[R7] = ORIGIN + 2 + k
      BY <1>4, <3>2, <3>4 DEF Results, Kept
    <3>6. CallsAt(6)'
      BY <1>1, <2>8, <3>5 DEF CallsAt
    <3>7. PC' = ORIGIN + 6
      BY <2>1, <2>8, <3>4 DEF Results, ORIGIN
    <3> QED
      BY <2>2, <3>4, <3>6, <3>7 DEF Results
  <2>9. CASE n = 6
    <3>1. OperationJmp /\ SR1 = R7
      BY <1>2, <1>4, <1>6, <2>1, <2>9, ExecutedIs, CallFields DEF CallsCode, SR1
    <3>2. PICK k \in {0, 1} :
            registers[2] = k + 1 /\ registers[R7] = ORIGIN + 2 + k
      BY <1>1, <2>9 DEF CallsAt
    <3>3. /\ control' = "fetch" /\ UNCHANGED memory /\ Kept({})
          /\ PC' = ORIGIN + 2 + k
      BY <3>1, <3>2, JumpedIs
    <3>4. registers'[2] = k + 1 /\ registers'[1] = registers[1]
      BY <1>4, <3>2, <3>3 DEF Kept
    <3>5. ORIGIN + 2 + k = ORIGIN + (2 + k) /\ 2 + k \in 0 .. 6
      BY DEF ORIGIN
    <3>6. CallsAt(2 + k)'
      BY <1>1, <2>9, <3>4 DEF CallsAt
    <3> QED
      BY <2>2, <3>3, <3>5, <3>6
  <2> QED
    BY <1>1, <2>3, <2>4, <2>5, <2>6, <2>7, <2>8, <2>9
<1> QED
  BY <1>1, <1>5, <1>6 DEF At

(* So does every step of the call through the link register.               *)
LEMMA LinkSteps == MachineTypeOK /\ LinkInv /\ MachineNext => LinkInv'
<1> SUFFICES ASSUME MachineTypeOK, LinkInv, MachineNext PROVE LinkInv'
  OBVIOUS
<1>1. PICK n \in 0 .. 2 : At(ORIGIN + n)
  BY HaltedRests DEF LinkInv
<1>2. LinkCode /\ n \in 0 .. 12
  BY <1>1 DEF LinkInv
<1>3. ASSUME UNCHANGED memory PROVE LinkCode'
  BY <1>2, <1>3 DEF LinkCode, Cell
<1>4. CASE control = "fetch"
  <2>1. ORIGIN + n \in Place
    BY <1>1 DEF ORIGIN, Place
  <2>2. At(ORIGIN + n)' /\ UNCHANGED memory
    BY <1>1, <1>4, <2>1, FetchesIs, AtFetched
  <2> QED
    BY <1>1, <1>3, <2>2 DEF LinkInv
<1>5. CASE control = "execute"
  <2>1. instruction = Cell(n) /\ PC = ORIGIN + n + 1
    BY <1>1, <1>2, <1>5, Executes
  <2>2. ASSUME NEW m \in 0 .. 2, control' = "fetch", PC' = ORIGIN + m,
               UNCHANGED memory
        PROVE  LinkInv'
    BY <1>3, <2>2 DEF LinkInv, At
  <2>3. CASE n = 0
    <3>1. OperationLea
      BY <1>2, <1>5, <2>1, <2>3, ExecutedIs, CallFields DEF LinkCode
    <3>2. control' = "fetch" /\ PC' = PC /\ UNCHANGED memory
      BY <3>1, LeaIs DEF Results
    <3>3. PC' = ORIGIN + 1
      BY <2>1, <2>3, <3>2 DEF ORIGIN
    <3> QED
      BY <2>2, <3>2, <3>3
  <2>4. CASE n = 1
    <3>1. /\ OperationJsr /\ ~OffsetMode(instruction) /\ SR1 = R7
          /\ SR1 \in GeneralRegisters
      BY <1>2, <1>5, <2>1, <2>4, ExecutedIs, CallFields
         DEF LinkCode, SR1, R7, GeneralRegisters
    <3>2. control' = "fetch" /\ UNCHANGED memory /\ PC' = PC
      BY <3>1, CalledIs
    <3>3. PC' = ORIGIN + 2
      BY <2>1, <2>4, <3>2 DEF ORIGIN
    <3> QED
      BY <2>2, <3>2, <3>3
  <2>5. CASE n = 2
    <3>1. TrapHalt
      BY <1>2, <1>5, <2>1, <2>5, ExecutedIs, EchoFields
         DEF LinkCode, Trapping, Executing, TrapVector
    <3>2. control' = "halted" /\ PC' = PC /\ UNCHANGED memory
      BY <3>1, HaltedIs
    <3>3. PC' = ORIGIN + 3
      BY <2>1, <2>5, <3>2 DEF ORIGIN
    <3> QED
      BY <1>3, <3>2, <3>3 DEF LinkInv
  <2> QED
    BY <1>1, <2>3, <2>4, <2>5
<1> QED
  BY <1>1, <1>4, <1>5 DEF At

(* And a step that leaves the machine alone.                               *)
LEMMA CallsRest ==
  UNCHANGED machineVars => /\ CallsInv => CallsInv'
                           /\ LinkInv => LinkInv'
  BY DEF CallsInv, CallsCode, CallsAt, LinkInv, LinkCode, At, Cell, PC,
     machineVars

\* Every program is one of the two.
OnlyCallPrograms == Only({Calls(ORIGIN), CallThroughLink})

\* Their words.
CallWords == <<57860, 18435, 16448, 13317, HALT, 5281, 49600>>
LinkWords == <<60932, 16832, HALT, HALT, HALT, HALT>>

LEMMA CallWordsAre ==
  /\ Calls(ORIGIN) = Code(ORIGIN, CallWords)
  /\ CallThroughLink = Code(ORIGIN, LinkWords)
  /\ CallWords \in Seq(Int) /\ Len(CallWords) = 7
  /\ LinkWords \in Seq(Int) /\ Len(LinkWords) = 6
<1>1. HALT \in Int
  BY DEF HALT
<1>2. /\ CallWords \in Seq(Int) /\ Len(CallWords) = 7
      /\ LinkWords \in Seq(Int) /\ Len(LinkWords) = 6
  BY <1>1 DEF CallWords, LinkWords
<1>3. Calls(ORIGIN) = Code(ORIGIN, CallWords)
  BY DEF Calls, CallWords
<1>4. CallThroughLink = Code(ORIGIN, LinkWords)
  BY DEF CallThroughLink, LinkWords
<1> QED
  BY <1>2, <1>3, <1>4

(* A program that is held is known by its first word.                      *)
LEMMA FirstWord ==
  ASSUME NEW words \in Seq(Int), Len(words) > 0, Holds(Code(ORIGIN, words))
  PROVE  Cell(0) = words[1]
<1> DEFINE cells == Code(ORIGIN, words).cells
<1>1. ORIGIN \in Int /\ Len(words) \in Nat
  BY DEF ORIGIN
<1>2. /\ DOMAIN cells = ORIGIN .. ORIGIN + Len(words) - 1
      /\ cells[ORIGIN] = words[ORIGIN - ORIGIN + 1]
  <2>1. ORIGIN \in ORIGIN .. ORIGIN + Len(words) - 1
    BY <1>1
  <2> QED
    BY <2>1 DEF Code
<1>3. ORIGIN \in DOMAIN cells \ {MR_KBSR, MR_KBDR}
  <2>1. ORIGIN \in ORIGIN .. ORIGIN + Len(words) - 1
    BY <1>1
  <2>2. ORIGIN # MR_KBSR /\ ORIGIN # MR_KBDR
    BY DEF ORIGIN, MR_KBSR, MR_KBDR
  <2> QED
    BY <1>2, <2>1, <2>2
<1>4. Peek(memory, ORIGIN) = cells[ORIGIN]
  BY <1>3 DEF Holds
<1>5. ORIGIN - ORIGIN + 1 = 1 /\ ORIGIN + 0 = ORIGIN
  BY <1>1
<1> HIDE DEF cells
<1> QED
  BY <1>2, <1>4, <1>5 DEF Cell

(* They start at their first instruction.                                  *)
LEMMA CallsStart == OnlyCallPrograms /\ Init => CallsInv \/ LinkInv
<1> SUFFICES ASSUME OnlyCallPrograms, Init PROVE CallsInv \/ LinkInv
  OBVIOUS
<1>1. /\ At(ORIGIN) /\ registers[2] = 0
      /\ InPlace(Calls(ORIGIN)) \/ InPlace(CallThroughLink)
  BY StartsWith DEF OnlyCallPrograms
<1>2. ORIGIN = ORIGIN + 0
  BY DEF ORIGIN
<1>3. CASE InPlace(Calls(ORIGIN))
  <2>1. InMemory(CallWords)
    BY <1>3, CallWordsAre, CodeInPlace
  <2>2. \A n \in 0 .. 6 : Cell(n) = CallWords[n + 1]
    BY <2>1, CallWordsAre DEF InMemory
  <2>3. CallsCode
    BY <2>2 DEF CallsCode, CallWords
  <2>4. At(ORIGIN + 0) /\ CallsAt(0)
    BY <1>1, <1>2 DEF CallsAt
  <2> QED
    BY <2>3, <2>4 DEF CallsInv
<1>4. CASE InPlace(CallThroughLink)
  <2>1. InMemory(LinkWords)
    BY <1>4, CallWordsAre, CodeInPlace
  <2>2. \A n \in 0 .. 5 : Cell(n) = LinkWords[n + 1]
    BY <2>1, CallWordsAre DEF InMemory
  <2>3. LinkCode
    BY <2>2 DEF LinkCode, LinkWords
  <2> QED
    BY <1>1, <1>2, <2>3 DEF LinkInv
<1> QED
  BY <1>1, <1>3, <1>4

(* Two calls of one subroutine, by offset and by register, both come back  *)
(* to the instruction after them; JSRR R7 goes on with the instruction     *)
(* after it, since the link is written before the base register is read.   *)
THEOREM CallsComeBack ==
  ASSUME OnlyCallPrograms PROVE Spec => []CallsReturn
<1> DEFINE Inv == CallsInv \/ LinkInv
<1>1. Init => IInv /\ Inv
  BY InitInvariant, CallsStart
<1>2. IInv /\ Inv /\ [Next]_vars => (IInv /\ Inv)'
  BY StepInvariant, CallsSteps, LinkSteps, CallsRest, MachineOrUser
     DEF IInv, TypeOK
<1>3. Inv => CallsReturn
  <2>1. CallWords[1] = 57860 /\ LinkWords[1] = 60932
    BY DEF CallWords, LinkWords
  <2>2. Holds(Calls(ORIGIN)) => Cell(0) = 57860
    BY <2>1, CallWordsAre, FirstWord
  <2>3. Holds(CallThroughLink) => Cell(0) = 60932
    BY <2>1, CallWordsAre, FirstWord
  <2> QED
    BY <2>2, <2>3 DEF CallsInv, CallsCode, LinkInv, LinkCode, CallsReturn, At
<1> QED
  BY <1>1, <1>2, <1>3, PTL DEF Spec
=============================================================================
