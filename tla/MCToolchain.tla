---------------------------- MODULE MCToolchain -----------------------------
(***************************************************************************)
(* Object files with words of every kind, and assembly files with lines of *)
(* every kind in several styles.                                           *)
(***************************************************************************)
EXTENDS LC3Toolchain, MCText

-----------------------------------------------------------------------------
(* Object files. *)

\* One of each operation, near and far targets, fields out of bounds.
Samples ==
  {4097, 4159, 4104,             \* ADD: registers, immediate, bit 3 set
   23344, 37375, 37374,          \* AND; NOT, and with a bit missing
   0, 3583, 2050, 1536,          \* BR: never, back, ahead, next
   49600, 49344, 49345,          \* RET; JMP; with an unused bit
   18433, 20480, 16448, 16960,   \* JSR ahead, far; JSRR, with an unused bit
   9214, 58881, 45056, 40961, 12289,
   28191, 24608, 32768, 32769, 53248,
   61477, 61695, 62464}

\* The last three: the program ends in front of the top of memory, at it, and
\* behind it.
Bases == {0, 12288, 65532, 65533, 65535}

AllImages ==
  {ToBytes(<<at, first, second, 4094>>) : at \in Bases, first \in Samples,
                                         second \in Samples}
  \cup {<<>>, <<48>>, <<48, 0>>, <<48, 0, 16>>, <<48, 0, 16, 1, 16>>}

-----------------------------------------------------------------------------
(* Assembly files. *)

T(text) == <<Name(text)>>
N(text, digits) == <<[text |-> text, minus |-> FALSE, digits |-> digits]>>
M(text, digits) == <<[text |-> text, minus |-> TRUE, digits |-> digits]>>
R(code) == <<RegisterLexeme(code)>>
LOOP == T("LOOP")

Reg(code) == Register(code, PointerBits)
Ref(token) == Label(token, PointerBits)
I(n) == Integer(n)

L(label, name, letters, operands) ==
  [label |-> label, operation |-> name, conditions |-> letters,
   operands |-> operands]

\* A line to be written: the name as a token, the operands as tokens, and
\* the line that is meant.
Statement(label, name, operands, meantLine) ==
  [label |-> label, name |-> name, operands |-> operands,
   meant |-> meantLine]
P(name, operands, values) ==
  Statement(NoLabel, name, operands, L(NoLabel, name, {}, values))
B(name, letters) ==
  Statement(LOOP, name, <<LOOP>>, L(LOOP, "BR", letters, <<Ref(LOOP)>>))

Phrase == <<Quote, Name("its"), Blank, Semicolon, Comma, Name("x"), Quote>>

LineSpecs ==
  {P("ADD", <<R(1), R(2), M("#", <<1, 6>>)>>, <<Reg(1), Reg(2), I(-16)>>),
   P("ADD", <<R(1), R(2), R(3), R(4)>>, <<Reg(1), Reg(2), Reg(3)>>),
   P("AND", <<R(6), R(7), N("x", <<15>>)>>, <<Reg(6), Reg(7), I(15)>>),
   P("AND", <<R(6), <<>>, R(7)>>, <<Reg(6), Ref(<<>>), Reg(7)>>),
   P("NOT", <<R(0), R(5)>>, <<Reg(0), Reg(5)>>),
   P("JMP", <<R(3)>>, <<Reg(3)>>), P("JMP", <<>>, <<>>), P("RET", <<>>, <<>>),
   P("JSR", <<LOOP>>, <<Ref(LOOP)>>), P("JSR", <<T("loop")>>, <<Ref(T("loop"))>>),
   P("JSRR", <<R(4)>>, <<Reg(4)>>), P("RTI", <<>>, <<>>),
   P("LD", <<R(1), LOOP>>, <<Reg(1), Ref(LOOP)>>),
   P("STI", <<R(2), LOOP>>, <<Reg(2), Ref(LOOP)>>),
   P("LDR", <<R(1), R(2), M("x", <<2, 0>>)>>, <<Reg(1), Reg(2), I(-32)>>),
   P("TRAP", <<N("x", <<2, 5>>)>>, <<I(37)>>),
   P("TRAP", <<N("0x", <<15, 15>>)>>, <<I(255)>>),
   P("TRAP", <<N("", <<3, 7>>)>>, <<I(37)>>),
   P("TRAP", <<N("#", <<15>>)>>, <<Ref(N("#", <<15>>))>>),
   P("PUTS", <<>>, <<>>), P(".FILL", <<LOOP>>, <<Ref(LOOP)>>),
   P(".FILL", <<M("", <<3, 2, 7, 6, 8>>)>>, <<I(-32768)>>),
   P(".BLKW", <<N("#", <<2>>)>>, <<I(2)>>),
   P(".STRINGZ", <<Phrase>>, <<String(Text(SubSeq(Phrase, 2, 6)))>>),
   P(".STRINGZ", <<<<Quote, Quote>>>>, <<String(<<>>)>>),
   P(".STRINGZ", <<T("x")>>, <<>>),
   B("BR", {}), B("BRP", {"P"}), B("BRZN", {"N", "Z"}), B("BRPZN", {"N", "Z", "P"}),
   Statement(T("FOO"), "FOO", <<>>, L(T("FOO"), UnknownName, {}, <<>>)),
   Statement(T("FOO"), "", <<>>, L(T("FOO"), NULL, {}, <<>>))}

\* In front of the line, between its words and operands, and behind it.
Styles ==
  {[lower |-> lower, front |-> front, between |-> between, behind |-> behind] :
     lower \in BOOLEAN, front \in {<<>>, <<Blank>>},
     between \in {<<Comma>>, <<Blank, Comma, Blank>>},
     behind \in {<<>>, <<Blank>>, <<Semicolon, Quote, Name("ADD"), Comma>>,
                 <<Blank, Semicolon, Name("its"), Semicolon, Quote, Quote>>}}

\* Registers and operation names have no case of their own.
Cased(token, style) ==
  [n \in DOMAIN token |->
     IF style.lower /\ token[n].text \in Reserved
     THEN [token[n] EXCEPT !.text = LowerOf[@]] ELSE token[n]]

StyledOperand(spec, n, style) ==
  IF spec.name = ".STRINGZ" THEN spec.operands[n] ELSE Cased(spec.operands[n], style)

Styled(spec, style) ==
  style.front
    \o (IF spec.label = NoLabel THEN <<>> ELSE spec.label \o <<Blank>>)
    \o (IF spec.name = "" THEN <<>> ELSE Cased(T(spec.name), style))
    \o FlattenSeq([n \in DOMAIN spec.operands |->
                     (IF n = 1 THEN <<Blank>> ELSE style.between)
                       \o StyledOperand(spec, n, style)])
    \o style.behind

OrigText == <<Name(".orig"), Blank, Hexadecimal("x", <<3, 0, 0, 0>>)>>
EndText == <<Name(".END")>>
OrigLine == L(NoLabel, ".ORIG", {}, <<I(12288)>>)
EndLine == L(NoLabel, ".END", {}, <<>>)

File(lines, meantLines) ==
  [text |-> <<OrigText>> \o lines \o <<LOOP, EndText>>,
   meant |-> <<OrigLine>> \o meantLines
               \o <<L(LOOP, NULL, {}, <<>>), EndLine>>]

\* A comment of 255 characters, which is all that one fgets takes, and one
\* that is longer.
Comment255 == <<Semicolon, Name(LONG), Blank>>
Comment259 == Comment255 \o T("HALT")

AllManuscripts ==
  {File(<<<<Blank>>, Styled(spec, style), Comment255, <<>>>>, <<spec.meant>>) :
     spec \in LineSpecs, style \in Styles}
  \cup {[text |-> <<LOOP>>, meant |-> <<L(LOOP, NULL, {}, <<>>)>>]}

LongLines == {File(<<comment>>, <<>>) : comment \in {Comment255, Comment259}}
=============================================================================
