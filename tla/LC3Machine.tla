----------------------------- MODULE LC3Machine -----------------------------
(***************************************************************************)
(* The virtual machine: memory, registers, the fetch loop of lc_3.c, the   *)
(* thirteen operations of virtual_machine/operation.c and the six traps of *)
(* virtual_machine/trap.c.                                                 *)
(*                                                                         *)
(* A step is what the process does without looking at the outside world    *)
(* again: a fetch, an operation, one trip round the loop of PUTS or PUTSP, *)
(* or one of the two halves of IN, whose getc may block after the prompt.  *)
(*                                                                         *)
(* This module has the state and the steps; LC3Program runs them on a      *)
(* program in memory, LC3 inside the whole life of the process.            *)
(***************************************************************************)
EXTENDS LC3Console

CONSTANTS
  ForeignWords,   \* words that may lie behind the memory array
  MaxOverrun      \* bound: how many of them a string trap reads

ASSUME MachineAssumption ==
  ForeignWords \subseteq Word /\ MaxOverrun \in Nat

VARIABLES
  memory,        \* the cells that are not known to be zero
  registers,     \* R0 to R7, program counter and processor status
  instruction,   \* the word fetched last
  control,       \* where the process is in the fetch loop
  cursor         \* the pointer of a running PUTS or PUTSP, 0 otherwise

machineVars == <<memory, registers, instruction, control, cursor>>

-----------------------------------------------------------------------------
(* Constants of core/registers.h. *)

MR_KBSR == 65024
MR_KBDR == 65026
KEY_READY == 32768   \* 1 << 15

Running == {"fetch", "execute", "puts", "putsp", "in"}
Stopped == {"halted", "aborted", "faulted"}

-----------------------------------------------------------------------------
(* Memory.  It is zero-initialised, so a cell outside the domain holds 0.  *)

IsMemory(cells) ==
  DOMAIN cells \subseteq Word /\ cells \in [DOMAIN cells -> Word]

Peek(cells, address) ==
  IF address \in DOMAIN cells THEN cells[address] ELSE 0

Store(cells, address, value) ==
  [a \in DOMAIN cells \cup {address} |->
     IF a = address THEN value ELSE cells[a]]

\* Plausible slips: a poll without a key clears KBDR; a poll with a key
\* forgets to store it.
AfterReadClears(address) ==
  IF address # MR_KBSR THEN memory
  ELSE IF check_key
       THEN Store(Store(memory, MR_KBSR, KEY_READY), MR_KBDR, NextCharacter)
       ELSE Store(Store(memory, MR_KBSR, 0), MR_KBDR, 0)
AfterReadForgets(address) ==
  IF address # MR_KBSR THEN memory
  ELSE Store(memory, MR_KBSR, IF check_key THEN KEY_READY ELSE 0)
\* read_memory's side effect: reading KBSR polls the keyboard.
AfterRead(address) ==
  IF address # MR_KBSR THEN memory
  ELSE IF check_key
       THEN Store(Store(memory, MR_KBSR, KEY_READY), MR_KBDR, NextCharacter)
       ELSE Store(memory, MR_KBSR, 0)

\* What read_memory returns.
ValueAt(address) == Peek(AfterRead(address), address)

\* A plausible slip: the character is looked at and not taken.
PollMutant(address) == UNCHANGED inputVars

\* A plausible slip: a poll takes every byte that waits.
PollDrains(address) ==
  \/ /\ address = MR_KBSR /\ check_key
     /\ consumed' = consumed \o Pending
     /\ stdinBuffer' = <<>> /\ ttyQueue' = <<>>
     /\ UNCHANGED <<inputClosed, typed>>
  \/ /\ ~(address = MR_KBSR /\ check_key)
     /\ UNCHANGED inputVars

\* The poll's effect on the input: a ready keyboard is read, once.
Poll(address) ==
  \/ /\ address = MR_KBSR /\ check_key
     /\ Getc
  \/ /\ ~(address = MR_KBSR /\ check_key)
     /\ UNCHANGED inputVars

-----------------------------------------------------------------------------
(* Registers. *)

PC == registers[PROGRAM_COUNTER]

SetRegister(code, value) == [registers EXCEPT ![code] = value]

\* Set a destination register and update the condition flags from it.
SetResult(code, value) ==
  [registers EXCEPT ![code] = value,
                    ![PROCESSOR_STATUS] = ConditionFlag(value)]

\* A plausible slip: linking the calling instruction itself.
LinkAndJumpMutant(target) ==
  [registers EXCEPT ![R7] = PC - 1, ![PROGRAM_COUNTER] = target]

\* Set the link register and jump.
LinkAndJump(target) ==
  [registers EXCEPT ![R7] = PC, ![PROGRAM_COUNTER] = target]

DR == FieldDR(instruction)       \* also SR of the stores
SR1 == FieldSR1(instruction)     \* also BaseR
SR2 == FieldSR2(instruction)
PcRelative9 == Wrap(PC + PcOffset9(instruction))
PcRelative11 == Wrap(PC + PcOffset11(instruction))

\* A plausible slip: the offset is not sign-extended.
BaseOffsetMutant == Wrap(registers[SR1] + (instruction % 64))

BaseOffset == Wrap(registers[SR1] + Offset6(instruction))

-----------------------------------------------------------------------------
(* The fetch loop. *)

Fetch ==
  /\ control = "fetch"
  /\ Poll(PC)
  /\ memory' = AfterRead(PC)
  /\ instruction' = ValueAt(PC)
  /\ registers' = SetRegister(PROGRAM_COUNTER, Wrap(PC + 1))
  /\ control' = "execute"
  /\ UNCHANGED <<cursor, outputVars>>

Executing(operation) ==
  /\ control = "execute"
  /\ Opcode(instruction) = operation

\* The operations return to the loop and write no output.
Continue == control' = "fetch" /\ UNCHANGED <<instruction, cursor, outputVars>>

\* A register-only operation neither polls nor stores.
RegistersOnly == UNCHANGED <<memory, inputVars>>

-----------------------------------------------------------------------------
(* Register operations. *)

OtherValue ==
  IF ImmediateMode(instruction) THEN Imm5(instruction) ELSE registers[SR2]

OperationAdd ==
  /\ Executing(OP_ADD)
  /\ registers' = SetResult(DR, Wrap(registers[SR1] + OtherValue))
  /\ RegistersOnly /\ Continue

OperationAnd ==
  /\ Executing(OP_AND)
  /\ registers' = SetResult(DR, BitAnd(registers[SR1], OtherValue))
  /\ RegistersOnly /\ Continue

OperationNot ==
  /\ Executing(OP_NOT)
  /\ registers' = SetResult(DR, BitNot(registers[SR1]))
  /\ RegistersOnly /\ Continue

\* A plausible slip: LEA leaves the condition flags alone.
OperationLeaMutant ==
  /\ Executing(OP_LEA)
  /\ registers' = SetRegister(DR, PcRelative9)
  /\ RegistersOnly /\ Continue

OperationLea ==
  /\ Executing(OP_LEA)
  /\ registers' = SetResult(DR, PcRelative9)
  /\ RegistersOnly /\ Continue

-----------------------------------------------------------------------------
(* Control operations. *)

\* The n, z and p bits of a BR and the flag each one selects.
BranchTaken ==
  \/ (instruction \div 2048) % 2 = 1
       /\ registers[PROCESSOR_STATUS] = CONDITION_FLAG_NEGATIVE
  \/ (instruction \div 1024) % 2 = 1
       /\ registers[PROCESSOR_STATUS] = CONDITION_FLAG_ZERO
  \/ (instruction \div 512) % 2 = 1
       /\ registers[PROCESSOR_STATUS] = CONDITION_FLAG_POSITIVE

OperationBr ==
  /\ Executing(OP_BR)
  /\ registers' = IF BranchTaken
                  THEN SetRegister(PROGRAM_COUNTER, PcRelative9)
                  ELSE registers
  /\ RegistersOnly /\ Continue

OperationJmp ==
  /\ Executing(OP_JMP)
  /\ registers' = SetRegister(PROGRAM_COUNTER, registers[SR1])
  /\ RegistersOnly /\ Continue

\* A plausible slip: BaseR is read before the link.
OperationJsrMutant ==
  /\ Executing(OP_JSR)
  /\ registers' = LinkAndJump(IF OffsetMode(instruction) THEN PcRelative11
                              ELSE registers[SR1])
  /\ RegistersOnly /\ Continue

\* R7 is written before BaseR is read, so JSRR R7 jumps to the address just
\* linked.
OperationJsr ==
  /\ Executing(OP_JSR)
  /\ registers' = LinkAndJump(IF OffsetMode(instruction) THEN PcRelative11
                              ELSE SetRegister(R7, PC)[SR1])
  /\ RegistersOnly /\ Continue

-----------------------------------------------------------------------------
(* Loads and stores. *)

\* A load: read_memory at the address, result into DR.
Load(address) ==
  /\ Poll(address)
  /\ memory' = AfterRead(address)
  /\ registers' = SetResult(DR, ValueAt(address))
  /\ Continue

OperationLd == Executing(OP_LD) /\ Load(PcRelative9)

OperationLdr == Executing(OP_LDR) /\ Load(BaseOffset)

\* Two reads, of which at most one polls: what a poll leaves in KBSR is not
\* KBSR's address.
OperationLdi ==
  /\ Executing(OP_LDI)
  /\ LET pointer == ValueAt(PcRelative9)
         polled == IF PcRelative9 = MR_KBSR THEN MR_KBSR ELSE pointer
     IN  /\ Poll(polled)
         /\ memory' = AfterRead(polled)
         /\ registers' = SetResult(DR, Peek(AfterRead(polled), pointer))
  /\ Continue

\* A store: write_memory at the address, without a poll.
StoreAt(address) ==
  /\ memory' = Store(memory, address, registers[DR])
  /\ UNCHANGED <<registers, inputVars>>
  /\ Continue

OperationSt == Executing(OP_ST) /\ StoreAt(PcRelative9)

OperationStr == Executing(OP_STR) /\ StoreAt(BaseOffset)

\* A plausible slip: STI without the indirection.
OperationStiMutant == Executing(OP_STI) /\ StoreAt(PcRelative9)

\* The pointer is read, which may poll; the target is only written.
OperationSti ==
  /\ Executing(OP_STI)
  /\ Poll(PcRelative9)
  /\ memory' = Store(AfterRead(PcRelative9), ValueAt(PcRelative9),
                     registers[DR])
  /\ UNCHANGED registers
  /\ Continue

\* RTI and RES have no execute function.
AbortOperation ==
  /\ Executing(OP_RTI) \/ Executing(OP_RES)
  /\ control' = "aborted"
  /\ UNCHANGED <<registers, instruction, cursor, outputVars>>
  /\ RegistersOnly

-----------------------------------------------------------------------------
(* Traps.  R7 is linked before the vector is looked at. *)

TrapVector == instruction % 256

Trapping(vector) == Executing(OP_TRAP) /\ TrapVector = vector

Linked == SetRegister(R7, PC)

\* A plausible slip: the character is kept in a signed char.
SignedChar(character) ==
  IF character \in 128 .. 255 THEN character + 65280 ELSE character
TrapGetcSigned ==
  /\ Trapping(TRAP_GETC)
  /\ Getc
  /\ LET character == SignedChar(NextCharacter)
     IN  registers' = [Linked EXCEPT
                         ![R0] = character,
                         ![PROCESSOR_STATUS] = ConditionFlag(character)]
  /\ UNCHANGED memory
  /\ Continue

TrapGetc ==
  /\ Trapping(TRAP_GETC)
  /\ Getc
  /\ registers' = [Linked EXCEPT
                     ![R0] = NextCharacter,
                     ![PROCESSOR_STATUS] = ConditionFlag(NextCharacter)]
  /\ UNCHANGED memory
  /\ Continue

\* A plausible slip: OUT does not flush.
TrapOutMutant ==
  /\ Trapping(TRAP_OUT)
  /\ Put(<<CharOf(registers[R0])>>)
  /\ registers' = Linked
  /\ control' = "fetch"
  /\ UNCHANGED <<memory, instruction, cursor, inputVars>>

TrapOut ==
  /\ Trapping(TRAP_OUT)
  /\ PutAndFlush(<<CharOf(registers[R0])>>)
  /\ registers' = Linked
  /\ control' = "fetch"
  /\ UNCHANGED <<memory, instruction, cursor, inputVars>>

\* The prompt stays in stdout's buffer while getc blocks.
TrapIn ==
  /\ Trapping(TRAP_IN)
  /\ Put(<<Prompt>>)
  /\ registers' = Linked
  /\ control' = "in"
  /\ UNCHANGED <<memory, instruction, cursor, inputVars>>

\* A plausible slip: the echo is left in stdout's buffer like the prompt.
TrapInEchoMutant ==
  /\ control = "in"
  /\ Getc
  /\ registers' = SetRegister(R0, NextCharacter)
  /\ Put(<<CharOf(NextCharacter)>>)
  /\ control' = "fetch"
  /\ UNCHANGED <<memory, instruction, cursor>>

\* The character is stored and echoed; the condition flags stay as they are.
TrapInEcho ==
  /\ control = "in"
  /\ Getc
  /\ registers' = SetRegister(R0, NextCharacter)
  /\ PutAndFlush(<<CharOf(NextCharacter)>>)
  /\ control' = "fetch"
  /\ UNCHANGED <<memory, instruction, cursor>>

StartString ==
  /\ \/ Trapping(TRAP_PUTS) /\ control' = "puts"
     \/ Trapping(TRAP_PUTSP) /\ control' = "putsp"
  /\ cursor' = registers[R0]
  /\ registers' = Linked
  /\ UNCHANGED <<memory, instruction, consoleVars>>

\* What one word of a string prints: PUTS its low byte, PUTSP the low byte
\* and then the high byte unless that is 0.
PutsChars(word) == <<CharOf(word)>>

\* A plausible slip: the high byte first.
PutspCharsMutant(word) ==
  IF word \div 256 = 0 THEN <<CharOf(word)>>
  ELSE <<word \div 256, CharOf(word)>>

PutspChars(word) ==
  IF word \div 256 = 0 THEN <<CharOf(word)>>
  ELSE <<CharOf(word), word \div 256>>

\* The word under the cursor, read straight from the array.  Behind its end
\* lies whatever the build put there.
WordsAtCursor ==
  IF cursor < WORD_MAX THEN {Peek(memory, cursor)}
  ELSE IF cursor < WORD_MAX + MaxOverrun THEN ForeignWords ELSE {}

\* A plausible slip: the terminator is not looked for.
PrintWordMutant ==
  /\ control \in {"puts", "putsp"}
  /\ \E word \in WordsAtCursor :
       Put(IF control = "puts" THEN PutsChars(word) ELSE PutspChars(word))
  /\ cursor' = cursor + 1
  /\ UNCHANGED <<memory, registers, instruction, control, inputVars>>

PrintWord ==
  /\ control \in {"puts", "putsp"}
  /\ \E word \in WordsAtCursor \ {0} :
       Put(IF control = "puts" THEN PutsChars(word) ELSE PutspChars(word))
  /\ cursor' = cursor + 1
  /\ UNCHANGED <<memory, registers, instruction, control, inputVars>>

FinishString ==
  /\ control \in {"puts", "putsp"}
  /\ 0 \in WordsAtCursor
  /\ Flush
  /\ control' = "fetch"
  /\ cursor' = 0
  /\ UNCHANGED <<memory, registers, instruction, inputVars>>

\* Reading behind the array may also end the process.
FaultOnString ==
  /\ control \in {"puts", "putsp"}
  /\ cursor >= WORD_MAX
  /\ control' = "faulted"
  /\ UNCHANGED <<memory, registers, instruction, cursor, consoleVars>>

\* HALT leaves its message in stdout's buffer and the loop ends.
TrapHalt ==
  /\ Trapping(TRAP_HALT)
  /\ Put(<<HaltMessage>>)
  /\ registers' = Linked
  /\ control' = "halted"
  /\ UNCHANGED <<memory, instruction, cursor, inputVars>>

AbortTrap ==
  /\ Executing(OP_TRAP) /\ TrapVector \notin Traps
  /\ registers' = Linked
  /\ control' = "aborted"
  /\ UNCHANGED <<memory, instruction, cursor, consoleVars>>

-----------------------------------------------------------------------------
Operations ==
  \/ OperationAdd \/ OperationAnd \/ OperationNot \/ OperationLea
  \/ OperationBr \/ OperationJmp \/ OperationJsr
  \/ OperationLd \/ OperationLdr \/ OperationLdi
  \/ OperationSt \/ OperationStr \/ OperationSti
  \/ AbortOperation

TrapSteps ==
  \/ TrapGetc \/ TrapOut \/ TrapIn \/ TrapInEcho
  \/ StartString \/ PrintWord \/ FinishString \/ FaultOnString
  \/ TrapHalt \/ AbortTrap

MachineNext == Fetch \/ Operations \/ TrapSteps

\* A plausible slip: no condition flag set at the start.
ResetRegistersMutant(origin) ==
  [code \in RegisterCodes |-> IF code = PROGRAM_COUNTER THEN origin ELSE 0]

\* Registers as main sets them before the loop.
ResetRegisters(origin) ==
  [code \in RegisterCodes |->
     CASE code = PROGRAM_COUNTER -> origin
       [] code = PROCESSOR_STATUS -> CONDITION_FLAG_ZERO
       [] OTHER -> 0]

-----------------------------------------------------------------------------
(* Properties of every state of the machine. *)

MachineTypeOK ==
  /\ IsMemory(memory)
  /\ registers \in [RegisterCodes -> Word]
  /\ instruction \in Word
  /\ control \in Running \cup Stopped
  /\ cursor \in 0 .. WORD_MAX + MaxOverrun

(* "exactly one condition flag should be set at all times" (lc_3.c).       *)
OneConditionFlag == registers[PROCESSOR_STATUS] \in ConditionFlags

(* Between instructions the program has flushed everything it wrote, so an *)
(* abort, which discards stdout's buffer, loses no output of an earlier    *)
(* trap.                                                                   *)
FlushedBetweenInstructions ==
  control \in {"fetch", "execute", "aborted"} => flushed = Len(output)

(* PUTS and PUTSP run off the end of memory only when no zero word lies    *)
(* between R0 and the last cell: a string terminated anywhere above R0 is  *)
(* printed safely.                                                         *)
FaultOnlyUnterminated ==
  control = "faulted" =>
    \A address \in registers[R0] .. WORD_MAX - 1 : Peek(memory, address) # 0
=============================================================================
