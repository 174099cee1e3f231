---------------------------- MODULE MCAssembler -----------------------------
(***************************************************************************)
(* Short programs for the assembler: every operation and directive, with   *)
(* operands that fit, that just fit, that do not fit, of the wrong kind    *)
(* and missing, and labels in front of, behind and twice around their use. *)
(***************************************************************************)
EXTENDS LC3Assembler

L(label, name, operands) ==
  [label |-> label, operation |-> name, conditions |-> {},
   operands |-> operands]
O(name, operands) == L(NoLabel, name, operands)
Br(letters, operand) ==
  [label |-> NoLabel, operation |-> "BR", conditions |-> letters,
   operands |-> <<operand>>]

\* A pointer's low bits are far from any small field.
R(code) == Register(code, 1448)
A == Label("A", 34128)
I(n) == Integer(n)
Hi == String(<<72, 105>>)

Definitions ==
  {L("A", NULL, <<>>), L("A", "ADD", <<R(1), R(2), R(3)>>),
   L("A", ".BLKW", <<I(2)>>), L("A", ".STRINGZ", <<Hi>>),
   L("A", ".FILL", <<I(-2)>>), L("A", "BR", <<A>>)}

References ==
  {Br({}, A), Br({"N"}, A), Br({"Z", "P"}, A), O("JSR", <<A>>),
   O("LD", <<R(3), A>>), O("STI", <<R(7), A>>), O("LEA", <<R(0), A>>),
   O("ST", <<R(5), A>>), O("LDI", <<R(6), A>>), O(".FILL", <<A>>)}

Fitting ==
  {O("ADD", <<R(5), R(6), I(-16)>>), O("AND", <<R(7), R(0), I(15)>>),
   O("AND", <<R(4), R(5), R(7)>>), O("NOT", <<R(1), R(6)>>),
   O("JMP", <<R(4)>>), O("RET", <<>>), O("JSRR", <<R(5)>>),
   O("LDR", <<R(1), R(2), I(-32)>>), O("STR", <<R(6), R(5), I(31)>>),
   O("TRAP", <<I(255)>>), O("RTI", <<>>), O("HALT", <<>>), O("GETC", <<>>),
   O("OUT", <<>>), O("PUTS", <<>>), O("IN", <<>>), O("PUTSP", <<>>),
   O(".STRINGZ", <<String(<<>>)>>), O(".FILL", <<I(65535)>>)}

TooLarge ==
  {O("ADD", <<R(5), R(6), I(-17)>>), O("AND", <<R(7), R(0), I(16)>>),
   O("LDR", <<R(1), R(2), I(-33)>>), O("STR", <<R(6), R(5), I(32)>>),
   O("TRAP", <<I(256)>>), O("TRAP", <<I(-1)>>)}

WrongKind ==
  {O("ADD", <<R(1), A, R(2)>>), O("ADD", <<R(1), R(2), A>>),
   O("JSR", <<R(2)>>), O("JSRR", <<A>>), O("JMP", <<A>>), O("RET", <<R(3)>>),
   O("BR", <<I(1)>>), O("LD", <<R(1), R(2)>>), O("LD", <<A, A>>),
   O("TRAP", <<A>>), O("RES", <<>>), L("A", "FOO", <<>>)}

Lacking ==
  {O("ADD", <<R(1), R(2)>>), O("NOT", <<>>), O("JMP", <<>>), O("JSR", <<>>),
   O("BR", <<>>), O("LD", <<R(1)>>), O("LDR", <<R(1), R(2)>>),
   O("TRAP", <<>>), O(".FILL", <<>>), O(".BLKW", <<>>), O(".STRINGZ", <<>>)}

Orig(at) == O(".ORIG", <<I(at)>>)
End == O(".END", <<>>)

\* One line of any kind between two places where labels may be defined.
LineSources ==
  {<<Orig(12288), before, line, after, End>> :
     before \in Definitions \cup {O("HALT", <<>>), Br({}, A)},
     line \in Definitions \cup References \cup Fitting \cup TooLarge
              \cup WrongKind \cup Lacking,
     after \in Definitions \cup {End, O("RTI", <<>>)}}

\* Distances at the reach of a branch and of JSR.
ReachSources ==
  {<<Orig(12288), L("A", NULL, <<>>), O(".BLKW", <<I(n)>>), line>> :
     n \in {255, 256, 1023, 1024}, line \in {Br({}, A), O("JSR", <<A>>)}}
  \cup
  {<<Orig(12288), line, O(".BLKW", <<I(n)>>), L("A", "HALT", <<>>)>> :
     n \in {255, 256, 1023, 1024}, line \in {Br({}, A), O("JSR", <<A>>)}}

\* Where .ORIG and .END stand, and the top of memory.
LayoutLines ==
  {Orig(65534), End, Br({"P"}, A), O(".BLKW", <<I(2)>>), O(".STRINGZ", <<Hi>>),
   L("A", ".FILL", <<A>>), L("A", NULL, <<>>), L("A", ".ORIG", <<I(3)>>),
   O("ADD", <<R(1), R(2), I(99)>>)}

LayoutSources ==
  {<<first, second, third, fourth>> :
     first \in {Orig(65534), Orig(12288), O("HALT", <<>>)},
     second \in LayoutLines, third \in LayoutLines, fourth \in LayoutLines}
  \cup {<<>>}

AllSources == LineSources \cup ReachSources \cup LayoutSources

\* One line in front of .END and one behind it.
ShortSources ==
  {<<first, line, End, L("A", "HALT", <<>>)>> :
     first \in {Orig(12288), O("HALT", <<>>)},
     line \in Definitions \cup References \cup TooLarge \cup WrongKind
              \cup Lacking}

NegativeBlkw == {<<Orig(12288), O(".BLKW", <<I(n)>>), End>> : n \in {1, -1}}
RegisterNames ==
  {<<Orig(12288), L("A", "LD", <<R(code), A>>)>> :
     code \in {R7, PROGRAM_COUNTER}}
OneLine == {<<Orig(12288), O("HALT", <<>>)>>}
=============================================================================
