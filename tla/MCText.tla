------------------------------- MODULE MCText -------------------------------
(***************************************************************************)
(* The letters of strings: toupper and the bytes of a spelling, for every  *)
(* spelling the instances use.                                             *)
(***************************************************************************)
EXTENDS LC3Parser

\* The characters from 32, with blanks for some.
Ascii == " ! #$%&    +,-./0123456789:;<=>?@ABCDEFGHIJKLMNOPQRSTUVWXYZ[_] _ abcdefghijklmnopqrstuvwxyz"

Letter(string, i) == SubSeq(string, i, i)
CodeOf(letter) ==
  IF letter = Quote.text THEN 34
  ELSE 31 + CHOOSE i \in 1 .. Len(Ascii) : Letter(Ascii, i) = letter

Bytes(string) == [i \in 1 .. Len(string) |-> CodeOf(Letter(string, i))]

\* The spelling with the letters from first to last, by code, moved.
Shifted(string, first, last, by) ==
  LET code(i) == CodeOf(Letter(string, i))
      place(i) == code(i) - 31 + (IF code(i) \in first .. last THEN by ELSE 0)
      upto[i \in 0 .. Len(string)] ==
        IF i = 0 THEN "" ELSE upto[i - 1] \o Letter(Ascii, place(i))
  IN  upto[Len(string)]
InUpper(string) == Shifted(string, 97, 122, -32)
InLower(string) == Shifted(string, 65, 90, 32)

RegisterSpellings == {RegisterName(code) : code \in RegisterCodes}
Reserved == OperationNames \cup RegisterSpellings
Mixed == {"Add", "rEt", "BRn", "BRz", "BRp", "BRnz", "BRnp", "BRzp", "BRnzp", "BrpN"}
\* TLC computes a table made with @@ once.
LowerOf == [name \in Reserved |-> InLower(name)] @@ <<>>

Twice(string) == string \o string
LONG == SubSeq(Twice(Twice(Twice(Twice("----------------")))), 1, 253)
Symbols == {" ", ",", ";", Quote.text, "#", "x", "X", "0x", "0X", "", "L_", "LOOP", "loop",
           "FOO", "its", LONG, "-"}

UpperTable ==
  [name \in {LowerOf[n] : n \in Reserved} \cup Mixed |-> InUpper(name)] @@ <<>>
SpellingTable ==
  [text \in Reserved \cup DOMAIN UpperTable \cup Symbols |-> Bytes(text)] @@ <<>>

UpperOf(text) ==
  IF text \in DOMAIN UpperTable THEN UpperTable[text] ELSE text
SpellingOf(text) == SpellingTable[text]
AllSpellings == DOMAIN SpellingTable
=============================================================================
