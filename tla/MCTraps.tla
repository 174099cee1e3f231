------------------------------ MODULE MCTraps -------------------------------
(***************************************************************************)
(* Programs around the traps, the keyboard registers and the edges of the  *)
(* address space.                                                          *)
(***************************************************************************)
EXTENDS LC3Program

\* LEA R0 3  PUTS  LEA R0 5  PUTSP  HALT
\* "Hi" with a high byte set and a low byte clear; "Ab", "C" and a NUL
Strings == Code(12288, <<57347, 61474, 57349, 61476, HALT,
                         328, 256, 0, 25153, 67, 17408, 0>>)

\* LD R0 2  PUTS or PUTSP  HALT  .FILL xFFFE, with no zero word above
Unterminated(trap) ==
  WithCells(Code(12288, <<8194, trap, HALT, 65534>>),
            65534 :> 16961 @@ 65535 :> 67)

\* As above, from a terminated string at xFFFE.
TopString == WithCells(Code(12288, <<8194, 61474, HALT, 65534>>), 65534 :> 65)

\* AND R0 R0 0  IN  BRnp 1  HALT  GETC  BRz 0  OUT  HALT
Prompting == Code(12288, <<20512, 61475, 2561, HALT, 61472, 1024, 61473, HALT>>)

\* LD R0 2  JMP R0  HALT  .FILL xFE00; HALT at xFE01: executes KBSR
ExecuteKbsr ==
  WithCells(Code(12288, <<8194, 49152, HALT, 65024>>), 65025 :> HALT)

\* At xFDF0: LDI R0 and STI R1 through KBSR as the pointer, then LD R2 KBDR,
\* ST R0 KBDR, LD KBSR, HALT.
ThroughKbsr == Code(65008, <<40975, 45582, 9231, 12302, 9739, HALT>>)

\* Illegal instructions after some output: OUT, then RTI, RES, TRAP x0FF.
Illegal(word) == Code(12288, <<61473, word, HALT>>)

TrapPrograms ==
  {Strings, TopString, Prompting, ExecuteKbsr, ThroughKbsr}
    \cup {Unterminated(trap) : trap \in {61474, 61476}}
    \cup {Illegal(word) : word \in {32768, 53248, 61695}}
=============================================================================
