----------------------------- MODULE LC3Parser -----------------------------
(***************************************************************************)
(* parse_assembly_line of assembler/assembler.c: from a line of text to an *)
(* instruction, by way of find_comment, trim, strtok_r and split.          *)
(***************************************************************************)
EXTENDS LC3Text, SequencesExt, FiniteSetsExt

CONSTANT Spelling(_)   \* the bytes of a spelling

Characters(lexeme) ==
  Spelling(lexeme.text) \o (IF lexeme.minus THEN <<45>> ELSE <<>>)
    \o [n \in DOMAIN lexeme.digits |->
          lexeme.digits[n] + (IF lexeme.digits[n] < 10 THEN 48 ELSE 55)]

\* The characters of a token.
Text(token) == FlattenSeq([n \in DOMAIN token |-> Characters(token[n])])

-----------------------------------------------------------------------------
(* Cutting a line up. *)

Places(line, lexeme) == {i \in DOMAIN line : line[i] = lexeme}

\* A plausible slip: the first semicolon, inside a string or not.
UncommentedMutant(line) ==
  IF Places(line, Semicolon) = {} THEN line
  ELSE SubSeq(line, 1, Min(Places(line, Semicolon)) - 1)

\* Everything in front of the first semicolon outside of a string, which a
\* quote enters and the next one leaves.
Uncommented(line) ==
  LET quotesBefore(i) == {j \in Places(line, Quote) : j < i}
      comments == {i \in Places(line, Semicolon) :
                     Cardinality(quotesBefore(i)) % 2 = 0}
  IN  IF comments = {} THEN line ELSE SubSeq(line, 1, Min(comments) - 1)

Trim(line) ==
  LET solid == DOMAIN line \ Places(line, Blank)
  IN  IF solid = {} THEN <<>> ELSE SubSeq(line, Min(solid), Max(solid))

\* strtok_r on a trimmed line: the first token, and what is left behind it.
FirstToken(line) ==
  LET blanks == Places(line, Blank)
  IN  IF blanks = {} THEN line ELSE SubSeq(line, 1, Min(blanks) - 1)

Behind(line) == Trim(SubSeq(line, Len(FirstToken(line)) + 1, Len(line)))

\* What has n smaller elements in a set of numbers.
Nth(n, S) == CHOOSE j \in S : Cardinality({i \in S : i < j}) = n

\* split at the commas, each piece trimmed.
Split(line) ==
  LET stops == {0, Len(line) + 1} \cup Places(line, Comma)
  IN  [n \in 1 .. Cardinality(stops) - 1 |->
         Trim(SubSeq(line, Nth(n - 1, stops) + 1, Nth(n, stops) - 1))]

-----------------------------------------------------------------------------
(* Operation names. *)

\* "BR" and condition letters, in any order.
\* Bound: a branch names each condition once at most.
Branches ==
  [BR |-> {}, BRN |-> {"N"}, BRZ |-> {"Z"}, BRP |-> {"P"},
   BRNZ |-> {"N", "Z"}, BRZN |-> {"N", "Z"}, BRNP |-> {"N", "P"},
   BRPN |-> {"N", "P"}, BRZP |-> {"Z", "P"}, BRPZ |-> {"Z", "P"},
   BRNZP |-> {"N", "Z", "P"}, BRNPZ |-> {"N", "Z", "P"},
   BRZNP |-> {"N", "Z", "P"}, BRZPN |-> {"N", "Z", "P"},
   BRPNZ |-> {"N", "Z", "P"}, BRPZN |-> {"N", "Z", "P"}]

OperationNames ==
  (DOMAIN Opcodes) \cup TrapNames \cup Directives \cup DOMAIN Branches

ASSUME SpellingAssumption ==
  \A text \in Spellings : Spelling(text) \in Seq(Byte)

IsOperationName(token) ==
  /\ Len(token) = 1 /\ token[1] = Name(token[1].text)
  /\ Upper(token[1]).text \in OperationNames

\* A name no table knows, which no encoder is found for.
UnknownName == "unknown"

\* The provers do not know that a literal is a string.
ASSUME NamesAssumption == {NULL, UnknownName} \subseteq STRING

Operation(token) ==
  CASE token = <<>> -> NULL
    [] token # <<>> /\ ~IsOperationName(token) -> UnknownName
    [] OTHER -> LET name == Upper(token[1]).text
                IN  IF name \in DOMAIN Branches THEN "BR" ELSE name

Conditions(token) ==
  IF IsOperationName(token) /\ Upper(token[1]).text \in DOMAIN Branches
  THEN Branches[Upper(token[1]).text] ELSE {}

-----------------------------------------------------------------------------
(* The operands. *)

MAX_OPERANDS == 3

\* The text between the first quote and the last, as one operand.
StringOperands(region) ==
  LET quotes == Places(region, Quote)
  IN  IF Cardinality(quotes) < 2 THEN <<>>
      ELSE <<String(Text(SubSeq(region, Min(quotes) + 1, Max(quotes) - 1)))>>

\* A plausible slip: nothing stops a fourth operand.
PlainOperandsMutant(region) ==
  IF region = <<>> THEN <<>>
  ELSE [n \in DOMAIN Split(region) |-> BuildOperand(Split(region)[n])]

\* Operands beyond the third are dropped.
PlainOperands(region) ==
  IF region = <<>> THEN <<>>
  ELSE LET pieces == Split(region)
       IN  [n \in 1 .. Min({MAX_OPERANDS, Len(pieces)}) |->
              BuildOperand(pieces[n])]

\* NULL for a line with nothing but blanks and a comment.
IsBlankLine(line) == Trim(Uncommented(line)) = <<>>

\* The first word is the operation, or else a label in front of it.
Parse(line) ==
  LET body == Trim(Uncommented(line))
      first == FirstToken(body)
      labelled == ~IsOperationName(first)
      name == IF labelled THEN FirstToken(Behind(body)) ELSE first
      region == IF labelled THEN Behind(Behind(body)) ELSE Behind(body)
  IN  [label |-> IF labelled THEN first ELSE NoLabel,
       operation |-> Operation(name), conditions |-> Conditions(name),
       operands |-> IF Operation(name) = ".STRINGZ" THEN StringOperands(region)
                    ELSE PlainOperands(region)]
=============================================================================
