------------------------------ MODULE LC3Text ------------------------------
(***************************************************************************)
(* The text of assembly files, cut into lexemes: words, numerals, blanks   *)
(* and the punctuation a line is divided by.  A lexeme is a spelling       *)
(* followed by the digits of a number, if it has any: "#-16" is the        *)
(* spelling "#", a minus and the digits 1 and 6.                           *)
(*                                                                         *)
(* The disassembler prints lexemes and the assembler reads them, so this   *)
(* module has what both need: printing numbers, to_upper_copy and          *)
(* build_operand of assembler/assembler.c.                                 *)
(***************************************************************************)
EXTENDS LC3Encoding

CONSTANTS
  Spellings,     \* the words and the punctuation text may hold
  UpperCase(_),  \* toupper on every letter of a spelling
  PointerBits    \* what as.integer reads of an operand that holds a pointer

Digits == 0 .. 15
Lexemes == [text : Spellings, minus : BOOLEAN, digits : Seq(Digits)]

\* A token is what lies between two delimiters.
Tokens == Seq(Lexemes)

ASSUME TextAssumption ==
  /\ Spellings \subseteq STRING
  /\ \A code \in RegisterCodes : UpperCase(RegisterName(code)) = RegisterName(code)
  /\ PointerBits \in Int

Name(text) == [text |-> text, minus |-> FALSE, digits |-> <<>>]

Blank == Name(" ")
Comma == Name(",")
Quote == Name("\"")
Semicolon == Name(";")

-----------------------------------------------------------------------------
(* Printing. *)

\* "%02X" and "%04X"
Hex2(n) == <<n \div 16, n % 16>>
Hex4(n) == <<n \div 4096, (n \div 256) % 16, (n \div 16) % 16, n % 16>>

Hexadecimal(prefix, digits) ==
  [text |-> prefix, minus |-> FALSE, digits |-> digits]

\* "#%d" of a signed field, which has two digits at most.
Decimal(n) ==
  LET size == IF n < 0 THEN -n ELSE n
  IN  [text |-> "#", minus |-> n < 0,
       digits |-> IF size < 10 THEN <<size>> ELSE <<size \div 10, size % 10>>]

RegisterLexeme(code) == Name(RegisterName(code))

-----------------------------------------------------------------------------
(* Reading. *)

\* to_upper_copy, on a lexeme and on a token.
Upper(lexeme) ==
  [text |-> UpperCase(lexeme.text), minus |-> lexeme.minus,
   digits |-> lexeme.digits]
UpperToken(token) == [n \in DOMAIN token |-> Upper(token[n])]

\* The base build_operand derives from the start of a token.
Base(text) == IF text \in {"#", ""} THEN 10 ELSE 16

\* strtol on digits that are all below the base.
\* Bound: numerals have at most five digits.
Value(digits, base) ==
  LET place(n) == IF n <= Len(digits) THEN digits[Len(digits) - n + 1] ELSE 0
  IN  place(1) + base * (place(2) + base * (place(3)
        + base * (place(4) + base * place(5))))

\* A numeral to its last digit; anything else is a label.
IsNumeral(token) ==
  /\ Len(token) = 1
  /\ token[1].text \in {"#", "", "x", "X", "0x", "0X"}
  /\ token[1].digits # <<>>
  /\ \A n \in DOMAIN token[1].digits :
       token[1].digits[n] < Base(token[1].text)

\* The registers a token names; register_by_name takes the first.
RegistersNamed(token) ==
  {code \in RegisterCodes : UpperToken(token) = <<RegisterLexeme(code)>>}

BuildOperand(token) ==
  IF RegistersNamed(token) # {}
  THEN Register(CHOOSE code \in RegistersNamed(token) : TRUE, PointerBits)
  ELSE IF IsNumeral(token)
  THEN LET value == Value(token[1].digits, Base(token[1].text))
       IN  Integer(IF token[1].minus THEN -value ELSE value)
  ELSE Label(token, PointerBits)
=============================================================================
