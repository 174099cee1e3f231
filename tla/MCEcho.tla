------------------------------- MODULE MCEcho -------------------------------
(***************************************************************************)
(* Two programs that echo the keyboard until the end of input: one with    *)
(* GETC and OUT, one that polls KBSR and reads KBDR.                       *)
(***************************************************************************)
EXTENDS LC3Program

\*        GETC     BRn 2   OUT      BR -4   HALT
GetcEcho == Code(12288, <<61472, 2050, 61473, 4092, HALT>>)

\*        LDI R0 KBSR  BRzp -2  LDI R0 KBDR  BRn 2  OUT  BR -6  HALT
\*        .FILL xFE00  .FILL xFE02
PollEcho == Code(12288, <<40966, 2046, 40965, 2050, 61473, 4090, HALT,
                          65024, 65026>>)

EchoPrograms == {GetcEcho, PollEcho}
PollPrograms == {PollEcho}

\* What has left the program.
Echoed == SubSeq(output, 1, flushed)

Echoes == Holds(GetcEcho) \/ Holds(PollEcho)

(* Whatever the interleaving of typing and reading, the program echoes     *)
(* keys in the order typed, none twice and none skipped.                   *)
EchoIsPrefix ==
  Echoes => \E n \in 0 .. Len(typed) : Echoed = SubSeq(typed, 1, n)

(* At the end of input nothing typed is left behind, in either queue.      *)
EchoComplete == Echoes /\ control = "halted" => Echoed = typed

(* With GETC, every key typed is eventually echoed, even if no other key   *)
(* follows.                                                                *)
EveryKeyEchoed ==
  \A n \in 1 .. MaxKeys :
    Holds(GetcEcho) /\ Len(typed) >= n ~> Len(Echoed) >= n

(* Closing the input ends the program.                                     *)
EndOfInputHalts == Echoes /\ inputClosed ~> control = "halted"
=============================================================================
