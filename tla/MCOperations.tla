---------------------------- MODULE MCOperations ----------------------------
(***************************************************************************)
(* Short programs that run every operation on operands around the edges of *)
(* the 16-bit range, compared with signed arithmetic and with the bitwise  *)
(* and at the program's HALT.                                              *)
(***************************************************************************)
EXTENDS LC3Program

CONSTANTS
  Operands,     \* words, for both operands
  Immediates,   \* imm5 fields of ADD and AND
  Bases,        \* what a base register holds
  Offsets       \* offset6 fields that go with the bases

ORIGIN == 12288

\* Where a base and an offset6 field lead.
Reach(base, off) == (base + (IF off < 32 THEN off ELSE off - 64)) % WORD_MAX

\* What the programs store leaves their code alone.
ASSUME OperationsAssumption ==
  /\ Operands \subseteq Word /\ Bases \subseteq Word
  /\ Immediates \subseteq 0 .. 31 /\ Offsets \subseteq 0 .. 63
  /\ \A base \in Bases, off \in Offsets :
       Reach(base, off) \notin ORIGIN .. ORIGIN + 6

\* LD R0 A  LD R1 B  operation  HALT  A  B; the operation's result is in R2.
ADD_REGISTER == 5121              \* ADD R2 R0 R1
ADD_IMMEDIATE(imm) == 5152 + imm  \* ADD R2 R0 imm5
AND_REGISTER == 21505
AND_IMMEDIATE(imm) == 21536 + imm
NOT_REGISTER == 37951
Arithmetic ==
  {ADD_REGISTER, AND_REGISTER, NOT_REGISTER}
    \cup {ADD_IMMEDIATE(imm) : imm \in Immediates}
    \cup {AND_IMMEDIATE(imm) : imm \in Immediates}
ArithmeticPrograms ==
  {Code(ORIGIN, <<8195, 8707, op, HALT, a, b>>) :
     op \in Arithmetic, a \in Operands, b \in Operands}

\* LD R0 A  BRnzp 1  HALT  HALT  A, with each mask
BranchPrograms ==
  {Code(ORIGIN, <<8195, mask * 512 + 1, HALT, HALT, a>>) :
     mask \in 0 .. 7, a \in Operands}

\* LD R0 A  LD R1 B  STR R0 R1 off  LDR R2 R1 off  HALT  A  B: memory through
\* a base register, at any address but those of the code and of KBSR.
StoreAndLoadPrograms ==
  {Code(ORIGIN, <<8196, 8708, 28736 + off, 25664 + off, HALT, a, base>>) :
     off \in Offsets, a \in Operands, base \in Bases}

\* LEA R1 4  JSR 3  JSRR R1  ST R2 5  HALT  ADD R2 R2 1  RET, at an origin
Calls(origin) ==
  Code(origin, <<57860, 18435, 16448, 13317, HALT, 5281, 49600>>)

\* LEA R7 4  JSRR R7  and four times HALT: the base register is the link.
CallThroughLink == Code(ORIGIN, <<60932, 16832, HALT, HALT, HALT, HALT>>)

\* LEA R2 1 in the last cell, HALT in cell 0: the program counter wraps.
WrapAround == WithCells(Code(65535, <<58369>>), 0 :> HALT)

\* ST R7 through STI and back through LDI: LEA R3 -1  STI R3 2  LDI R4 1
\* HALT  .FILL x8000
Indirect == Code(ORIGIN, <<59391, 46594, 43009, HALT, 32768>>)

\* LEA R3 -1  STI R3 1  HALT  and the pointer, which points to itself.
PointsToItself == Code(ORIGIN, <<59391, 46593, HALT, ORIGIN + 3>>)

OperationPrograms ==
  {Unattended(program) : program \in
     ArithmeticPrograms \cup BranchPrograms \cup StoreAndLoadPrograms
       \cup {Calls(ORIGIN), CallThroughLink, WrapAround, Indirect,
             PointsToItself}}

-----------------------------------------------------------------------------
Cell(offset) == Peek(memory, ORIGIN + offset)
Ends(programs) ==
  control = "halted"
    /\ [origin |-> ORIGIN, cells |-> memory, closed |-> FALSE] \in programs

\* The result the operation stands for; an immediate is in -16 .. 15.
Computed(op, a, b, result) ==
  LET imm == IF op % 32 < 16 THEN op % 32 ELSE (op % 32) - 32
  IN  /\ op = ADD_REGISTER =>
           (Signed(a) + Signed(b) - Signed(result)) % WORD_MAX = 0
      /\ op \div 32 = ADD_IMMEDIATE(0) \div 32 =>
           (Signed(a) + imm - Signed(result)) % WORD_MAX = 0
      /\ op = AND_REGISTER => IsAnd(result, a, b)
      /\ op \div 32 = AND_IMMEDIATE(0) \div 32 =>
           IsAnd(result, a, imm % WORD_MAX)
      /\ op = NOT_REGISTER => Signed(result) = -Signed(a) - 1

(* ADD is signed addition modulo 2^16, its immediate in -16..15; AND is    *)
(* the bitwise and with the sign-extended immediate; NOT is the negation   *)
(* less one.                                                               *)
ArithmeticIsSigned ==
  Ends(ArithmeticPrograms) => Computed(Cell(2), Cell(4), Cell(5), registers[2])

\* The mask of a branch names the sign of a word.
Names(mask, sign) ==
  \/ sign < 0 /\ mask \in {4, 5, 6, 7}
  \/ sign = 0 /\ mask \in {2, 3, 6, 7}
  \/ sign > 0 /\ mask \in {1, 3, 5, 7}

(* A branch is taken exactly when its mask names the sign of the value     *)
(* loaded last.                                                            *)
BranchFollowsSign ==
  Ends(BranchPrograms) =>
    PC = ORIGIN + (IF Names(Cell(1) \div 512, Signed(Cell(4))) THEN 4 ELSE 3)

(* A word stored through a base register and a signed offset is loaded     *)
(* back through the same, also where the address wraps, and lies at that   *)
(* address.                                                                *)
StoredIsLoaded ==
  LET started == [a \in ORIGIN .. ORIGIN + 6 |-> Peek(memory, a)]
      address == Reach(Cell(6), Cell(3) % 64)
  IN  (/\ control = "halted" /\ address # MR_KBSR
       /\ [origin |-> ORIGIN, cells |-> started, closed |-> FALSE]
            \in StoreAndLoadPrograms)
      => registers[2] = Cell(5) /\ Peek(memory, address) = Cell(5)

(* Two calls of one subroutine, by offset and by register, both come back  *)
(* to the instruction after them; JSRR R7 takes the address it has just    *)
(* linked for its target, so it goes on with the next instruction and not  *)
(* at the address R7 held.                                                 *)
CallsReturn ==
  control = "halted" =>
    /\ Holds(Calls(ORIGIN)) => registers[2] = 2 /\ Cell(9) = 2
    /\ Holds(CallThroughLink) => PC = ORIGIN + 3

(* Every one of these programs reaches its HALT: calls return to the       *)
(* instruction after them, and the program counter wraps at the top.       *)
ProgramsHalt ==
  /\ [origin |-> PC, cells |-> memory, closed |-> TRUE] \in OperationPrograms
  /\ control = "fetch"
  ~> control = "halted"
=============================================================================
