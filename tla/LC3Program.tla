----------------------------- MODULE LC3Program -----------------------------
(***************************************************************************)
(* The fetch loop running a program that is already in memory, next to a   *)
(* user who types and may close the input at any moment.                   *)
(***************************************************************************)
EXTENDS LC3Machine, SequencesExt

CONSTANT Programs   \* records: an origin, the cells that are not zero, and
                    \* whether the input is at its end (</dev/null)

ASSUME ProgramsAssumption ==
  \A program \in Programs :
    /\ program.origin \in Word /\ IsMemory(program.cells)
    /\ program.closed \in BOOLEAN

vars == <<machineVars, consoleVars>>

Init ==
  /\ \E program \in Programs :
       /\ memory = program.cells
       /\ registers = ResetRegisters(program.origin)
       /\ ConsoleInit(program.closed)
  /\ instruction = 0
  /\ control = "fetch"
  /\ cursor = 0

Environment ==
  /\ (\E key \in Keys : TypeKey(key)) \/ CloseInput
  /\ UNCHANGED machineVars

\* The loop has ended: no step is left.
Ended == control \in Stopped /\ UNCHANGED vars

Next == MachineNext \/ Environment \/ Ended

\* The operating system schedules the process; nobody has to type.
Fairness == WF_vars(MachineNext)

Spec == Init /\ [][Next]_vars /\ Fairness

\* Programs for the instances: code from its origin on, and cells elsewhere.
Code(origin, words) ==
  [origin |-> origin, closed |-> FALSE,
   cells |-> [a \in origin .. origin + Len(words) - 1 |->
                words[a - origin + 1]]]
WithCells(program, cells) == [program EXCEPT !.cells = @ @@ cells]
Unattended(program) == [program EXCEPT !.closed = TRUE]

\* The program whose code is in memory: a poll writes only KBSR and KBDR.
Holds(program) ==
  \A a \in DOMAIN program.cells \ {MR_KBSR, MR_KBDR} :
    Peek(memory, a) = program.cells[a]
HALT == 61477

-----------------------------------------------------------------------------
TypeOK == MachineTypeOK /\ ConsoleTypeOK

(* What a running PUTS or PUTSP has printed since it started is the text   *)
(* of the words from R0 up to its cursor, whatever was typed meanwhile.    *)
StringPrinted ==
  control \in {"puts", "putsp"} /\ cursor <= WORD_MAX =>
    LET word(n) == Peek(memory, registers[R0] + n - 1)
        chars(n) ==
          IF control = "puts" THEN <<word(n) % 256>>
          ELSE IF word(n) < 256 THEN <<word(n)>>
          ELSE <<word(n) % 256, word(n) \div 256>>
    IN  SubSeq(output, flushed + 1, Len(output))
          = FlattenSeq([n \in 1 .. cursor - registers[R0] |-> chars(n)])

(* The address a store instruction names, in signed arithmetic.  STI finds *)
(* it in memory before it stores, even where it overwrites its own pointer;*)
(* KBSR as the pointer holds the status just polled.                       *)
StoreTarget ==
  LET field(span) == IF instruction % span < span \div 2
                     THEN instruction % span
                     ELSE (instruction % span) - span
      relative == (PC + field(512)) % WORD_MAX
  IN  CASE Opcode(instruction) = OP_ST -> relative
        [] Opcode(instruction) = OP_STI ->
             IF relative # MR_KBSR THEN Peek(memory, relative)
             ELSE IF check_key THEN KEY_READY ELSE 0
        [] Opcode(instruction) = OP_STR ->
             (registers[(instruction \div 64) % 8] + field(64)) % WORD_MAX

Stores == {OP_ST, OP_STI, OP_STR}
StoresAt(address) ==
  /\ control = "execute" /\ Opcode(instruction) \in Stores
  /\ StoreTarget = address

(* Memory is written by stores, at the address the instruction names, and  *)
(* by keyboard polls in KBSR and KBDR; a trap, a load or a fetch never     *)
(* writes another cell.                                                    *)
StoresHitTheirTarget ==
  [][\A a \in DOMAIN memory' :
       Peek(memory', a) # Peek(memory, a) =>
         a \in {MR_KBSR, MR_KBDR} \/ StoresAt(a)]_vars

(* KBDR keeps the last key until a poll finds the next one ready: a poll   *)
(* that finds none does not disturb it.                                    *)
KeyDataLatched ==
  [][Peek(memory', MR_KBDR) # Peek(memory, MR_KBDR) =>
       \/ StoresAt(MR_KBDR)
       \/ /\ Peek(memory', MR_KBSR) = KEY_READY
          /\ \/ consumed' = Append(consumed, Peek(memory', MR_KBDR))
             \/ inputClosed /\ Peek(memory', MR_KBDR) = EndOfInput]_vars

(* Every byte taken from the input is the next one typed, and reaches the  *)
(* program: GETC and IN leave it in R0, a poll in KBDR.                    *)
KeysReachTheMachine ==
  [][consumed' # consumed =>
       LET key == typed[Len(consumed) + 1]
       IN  /\ consumed' = Append(consumed, key)
           /\ registers'[R0] = key \/ Peek(memory', MR_KBDR) = key]_vars

(* The condition flags belong to the last value an instruction or GETC     *)
(* put in a general register; only links to R7 and IN leave them behind.   *)
FlagsFollowResult ==
  [][\A r \in GeneralRegisters :
       registers'[r] # registers[r] =>
         \/ registers'[PROCESSOR_STATUS] = ConditionFlag(registers'[r])
         \/ r = R7 /\ registers'[R7] = PC
         \/ r = R0 /\ control = "in"]_vars

\* The program as its user sees it: keys in, output out.
Contract == INSTANCE LC3Contract WITH
  Key <- Keys, pending <- Pending, received <- consumed,
  closed <- inputClosed, printed <- output, delivered <- flushed,
  ended <- control \in Stopped

(* Whatever program runs, it is a filter from keys to output: it takes the *)
(* keys one at a time in the order typed, from two queues as from one, it  *)
(* takes nothing back of what it printed, and its end is final.            *)
FulfilsContract == Contract!ContractSpec

(* The status of the keyboard: an LDI of KBSR says ready whenever a byte   *)
(* was typed and not yet consumed ("MR_KBSR, keyboard status",             *)
(* core/registers.h).                                                      *)
KeyboardStatusReported ==
  [][(/\ Executing(OP_LDI) /\ ValueAt(PcRelative9) = MR_KBSR
      /\ control' = "fetch" /\ Pending # <<>>)
     => Peek(memory', MR_KBSR) = KEY_READY]_vars
=============================================================================
