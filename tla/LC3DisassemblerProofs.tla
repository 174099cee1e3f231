------------------------ MODULE LC3DisassemblerProofs ------------------------
(***************************************************************************)
(* The disassembler, for every object file.  In the first part, one word:  *)
(* decoding it and encoding the line again gives the word back, for every  *)
(* word, every address and every symbol table that knows the label.  In    *)
(* the second part, the whole listing: the array of lines follows the      *)
(* words of the file, the labelling pass labels every target inside, and   *)
(* each line of a finished listing is assembled into its word again.  The  *)
(* labelling pass changes lines in front of and behind the one it is at:   *)
(* its invariant, Progress, says what is settled about the lines before it *)
(* and that the rest differ from freshly decoded ones in labels only.      *)
(***************************************************************************)
EXTENDS LC3Disassembler, LC3EncodingProofs

-----------------------------------------------------------------------------
(* A field that the decoder printed as a signed number is masked back.     *)
LEMMA SignedFieldMasked ==
  ASSUME NEW word \in Word, NEW span \in {32, 64, 512, 2048}
  PROVE  /\ SignedField(word, span) \in Int
         /\ SignedField(word, span) \in -(span \div 2) .. span \div 2 - 1
         /\ ImmediateBits(SignedField(word, span), span) = word % span
<1>1. word \in Int /\ 0 <= word
  BY WordBounds
<1>2. word % span \in Word /\ (word % span) % span = word % span
      /\ word % span \in 0 .. span - 1
  <2>1. word % span \in 0 .. span - 1 /\ (word % span) % span = word % span
    BY <1>1
  <2> QED
    BY <2>1, BoundedIsWord
<1>3. SignedField(word, span)
        = IF word % span < span \div 2 THEN word % span ELSE (word % span) - span
  BY <1>2, SignExtendValue DEF SignedField
<1> DEFINE f == word % span
<1> HIDE DEF f
<1>4. ASSUME NEW n \in 0 .. span - 1
      PROVE  LET v == IF n < span \div 2 THEN n ELSE n - span
             IN  v \in -(span \div 2) .. span \div 2 - 1 /\ v % span = n
  OBVIOUS
<1> QED
  BY <1>2, <1>3, <1>4 DEF ImmediateBits

(* The part of it that the offsets need. *)
LEMMA SignedFieldBounds ==
  ASSUME NEW word \in Word, NEW span \in {512, 2048}
  PROVE  /\ SignedField(word, span) \in Int
         /\ -1024 <= SignedField(word, span) /\ SignedField(word, span) <= 1023
<1>1. word \in Int /\ 0 <= word
  BY WordBounds
<1>2. span \in {32, 64, 512, 2048}
  OBVIOUS
<1>3. SignedField(word, span)
        = IF word % span < span \div 2 THEN word % span ELSE (word % span) - span
  <2>1. word % span \in Word /\ (word % span) % span = word % span
    <3>1. word % span \in 0 .. span - 1 /\ (word % span) % span = word % span
      BY <1>1
    <3> QED
      BY <3>1, BoundedIsWord
  <2> QED
    BY <1>2, <2>1, SignExtendValue DEF SignedField
<1> QED
  BY <1>1, <1>3

-----------------------------------------------------------------------------
(* The operands of a listing, read by build_operand. *)

(* No two registers share a name. *)
LEMMA RegisterNamesDiffer ==
  ASSUME NEW c \in RegisterCodes, NEW d \in RegisterCodes,
         RegisterName(c) = RegisterName(d)
  PROVE  c = d
<1>1. c \in 0 .. 9 /\ d \in 0 .. 9
  BY DEF RegisterCodes
<1> QED
  BY <1>1 DEF RegisterName

LEMMA RegisterReadBack ==
  ASSUME NEW code \in RegisterCodes
  PROVE  BuildOperand(<<RegisterLexeme(code)>>) = Register(code, PointerBits)
<1> DEFINE token == <<RegisterLexeme(code)>>
<1>1. Upper(RegisterLexeme(code)) = RegisterLexeme(code)
  <2>1. UpperCase(RegisterName(code)) = RegisterName(code)
    BY TextAssumption
  <2> QED
    BY <2>1 DEF Upper, RegisterLexeme, Name
<1>2. UpperToken(token) = token
  BY <1>1 DEF UpperToken
<1>3. ASSUME NEW c \in RegisterCodes, token = <<RegisterLexeme(c)>>
      PROVE  c = code
  <2>1. RegisterLexeme(code).text = RegisterLexeme(c).text
    BY <1>3
  <2>2. RegisterName(code) = RegisterName(c)
    BY <2>1 DEF RegisterLexeme, Name
  <2> QED
    BY <2>2, RegisterNamesDiffer
<1>4. RegistersNamed(token) = {code}
  BY <1>2, <1>3 DEF RegistersNamed
<1>5. (CHOOSE c \in {code} : TRUE) = code
  OBVIOUS
<1> HIDE DEF token
<1>6. BuildOperand(token) = Register(code, PointerBits)
  BY <1>4, <1>5 DEF BuildOperand
<1> QED
  BY <1>6 DEF token

(* A lexeme with digits is no register. *)
LEMMA DigitsAreNoRegister ==
  ASSUME NEW text, NEW minus, NEW digits, digits # <<>>
  PROVE  RegistersNamed(<<[text |-> text, minus |-> minus,
                           digits |-> digits]>>) = {}
<1> DEFINE lexeme == [text |-> text, minus |-> minus, digits |-> digits]
           token == <<lexeme>>
<1>1. UpperToken(token)[1] = Upper(lexeme)
  BY DEF UpperToken
<1>2. Upper(lexeme).digits = digits
  BY DEF Upper
<1>3. ASSUME NEW c \in RegisterCodes PROVE UpperToken(token) # <<RegisterLexeme(c)>>
  <2>1. <<RegisterLexeme(c)>>[1].digits = <<>>
    BY DEF RegisterLexeme, Name
  <2> QED
    BY <1>1, <1>2, <2>1
<1> HIDE DEF token
<1>4. RegistersNamed(token) = {}
  BY <1>3 DEF RegistersNamed
<1> QED
  BY <1>4 DEF token

(* The digits of a numeral, one or two of them. *)
LEMMA Values ==
  ASSUME NEW radix \in Int,
         NEW a \in Int, NEW b \in Int
  PROVE  /\ Value(<<a>>, radix) = a
         /\ Value(<<a, b>>, radix) = b + radix * a
<1>1. Value(<<a>>, radix) = a
  <2>1. Value(<<a>>, radix) = a + radix * (0 + radix * (0 + radix * (0 + radix * 0)))
    BY DEF Value
  <2> QED
    BY <2>1
<1>2. Value(<<a, b>>, radix) = b + radix * a
  <2>1. Value(<<a, b>>, radix)
          = b + radix * (a + radix * (0 + radix * (0 + radix * 0)))
    BY DEF Value
  <2> QED
    BY <2>1
<1> QED
  BY <1>1, <1>2

(* Four hexadecimal digits are a word, two a byte. *)
LEMMA HexValues ==
  /\ \A n \in Word : /\ Value(Hex4(n), 16) = n
                     /\ \A i \in 1 .. 4 : Hex4(n)[i] \in Digits
                     /\ Hex4(n) \in Seq(Digits) /\ Len(Hex4(n)) = 4
  /\ \A n \in Byte : /\ Value(Hex2(n), 16) = n
                     /\ \A i \in 1 .. 2 : Hex2(n)[i] \in Digits
                     /\ Hex2(n) \in Seq(Digits) /\ Len(Hex2(n)) = 2
<1>1. ASSUME NEW n \in Word
      PROVE  /\ Value(Hex4(n), 16) = n
             /\ \A i \in 1 .. 4 : Hex4(n)[i] \in Digits
             /\ Hex4(n) \in Seq(Digits) /\ Len(Hex4(n)) = 4
  <2> DEFINE a == n \div 4096
             b == (n \div 256) % 16
             c == (n \div 16) % 16
             d == n % 16
  <2>1. n \in Int /\ 0 <= n /\ n <= 65535
    BY WordBounds
  <2>2. a \in 0 .. 15 /\ b \in 0 .. 15 /\ c \in 0 .. 15 /\ d \in 0 .. 15
    BY <2>1
  <2>3. d + 16 * (c + 16 * (b + 16 * a)) = n
    BY <2>1
  <2>4. Hex4(n) = <<a, b, c, d>>
    BY DEF Hex4
  <2> HIDE DEF a, b, c, d
  <2>5. Value(<<a, b, c, d>>, 16) = d + 16 * (c + 16 * (b + 16 * a))
    <3>1. a \in Int /\ b \in Int /\ c \in Int /\ d \in Int /\ 16 \in Int
      BY <2>2
    <3>2. Value(<<a, b, c, d>>, 16)
            = d + 16 * (c + 16 * (b + 16 * (a + 16 * 0)))
      BY <3>1 DEF Value
    <3> QED
      BY <3>1, <3>2
  <2>6. <<a, b, c, d>> \in Seq(Digits) /\ Len(<<a, b, c, d>>) = 4
        /\ \A i \in 1 .. 4 : <<a, b, c, d>>[i] \in Digits
    BY <2>2 DEF Digits
  <2> QED
    BY <2>3, <2>4, <2>5, <2>6
<1>2. ASSUME NEW n \in Byte
      PROVE  /\ Value(Hex2(n), 16) = n
             /\ \A i \in 1 .. 2 : Hex2(n)[i] \in Digits
             /\ Hex2(n) \in Seq(Digits) /\ Len(Hex2(n)) = 2
  <2> DEFINE a == n \div 16
             b == n % 16
  <2>1. n \in 0 .. 255
    BY DEF Byte
  <2>2. a \in 0 .. 15 /\ b \in 0 .. 15 /\ b + 16 * a = n
    BY <2>1
  <2>3. Hex2(n) = <<a, b>>
    BY DEF Hex2
  <2> HIDE DEF a, b
  <2>4. Value(<<a, b>>, 16) = b + 16 * a
    <3>1. a \in Int /\ b \in Int /\ 16 \in Int
      BY <2>2
    <3> QED
      BY <3>1, Values, Zenon
  <2>5. <<a, b>> \in Seq(Digits) /\ Len(<<a, b>>) = 2
        /\ \A i \in 1 .. 2 : <<a, b>>[i] \in Digits
    BY <2>2 DEF Digits
  <2> QED
    BY <2>2, <2>3, <2>4, <2>5
<1> QED
  BY <1>1, <1>2

(* A label is read as a label, whatever its digits are. *)
LEMMA MintReadBack ==
  ASSUME NEW address \in Word
  PROVE  BuildOperand(Mint(address)) = Label(Mint(address), PointerBits)
<1> DEFINE digits == Hex4(address)
           token == <<[text |-> "L_", minus |-> FALSE, digits |-> digits]>>
<1>1. Mint(address) = token
  BY DEF Mint, Hexadecimal
<1>2. digits # <<>>
  BY HexValues
<1> HIDE DEF digits
<1>3. RegistersNamed(token) = {}
  BY <1>2, DigitsAreNoRegister
<1>4. token[1].text = "L_"
  OBVIOUS
<1> HIDE DEF token
<1>5. ~IsNumeral(token)
  BY <1>4 DEF IsNumeral
<1>6. BuildOperand(token) = Label(token, PointerBits)
  BY <1>3, <1>5 DEF BuildOperand
<1> QED
  BY <1>1, <1>6

LEMMA HexadecimalReadBack ==
  ASSUME NEW digits \in Seq(Digits), digits # <<>>
  PROVE  BuildOperand(<<Hexadecimal("x", digits)>>) = Integer(Value(digits, 16))
<1> DEFINE token == <<[text |-> "x", minus |-> FALSE, digits |-> digits]>>
<1>1. <<Hexadecimal("x", digits)>> = token
  BY DEF Hexadecimal
<1>2. RegistersNamed(token) = {}
  BY DigitsAreNoRegister
<1>3. /\ Len(token) = 1 /\ token[1].text = "x"
      /\ token[1].minus = FALSE /\ token[1].digits = digits
  OBVIOUS
<1> HIDE DEF token
<1>4. Base("x") = 16
  BY DEF Base
<1>5. \A n \in DOMAIN digits : digits[n] < 16
  BY DEF Digits
<1>6. IsNumeral(token)
  BY <1>3, <1>4, <1>5 DEF IsNumeral
<1>7. BuildOperand(token) = Integer(Value(digits, 16))
  BY <1>2, <1>3, <1>4, <1>6 DEF BuildOperand
<1> QED
  BY <1>1, <1>7

(* The signed fields of ADD, AND, LDR and STR. *)
LEMMA DecimalReadBack ==
  ASSUME NEW n \in Int, -32 <= n, n <= 31
  PROVE  BuildOperand(<<Decimal(n)>>) = Integer(n)
<1> DEFINE size == IF n < 0 THEN -n ELSE n
           digits == IF size < 10 THEN <<size>> ELSE <<size \div 10, size % 10>>
           token == <<[text |-> "#", minus |-> n < 0, digits |-> digits]>>
<1>1. <<Decimal(n)>> = token
  BY DEF Decimal
<1>2. size \in Int /\ 0 <= size /\ size <= 32
  OBVIOUS
<1>3. /\ digits # <<>> /\ Value(digits, 10) = size
      /\ \A i \in DOMAIN digits : digits[i] < 10
  <2> HIDE DEF size
  <2>1. 10 \in Int /\ size \div 10 \in Int /\ size % 10 \in Int
        /\ size \div 10 < 10 /\ size % 10 < 10
        /\ (size % 10) + 10 * (size \div 10) = size
    BY <1>2
  <2>2. CASE size < 10
    <3>1. digits = <<size>>
      BY <2>2
    <3>2. Value(<<size>>, 10) = size
      BY <1>2, <2>1, Values, Zenon
    <3> QED
      BY <2>2, <3>1, <3>2
  <2>3. CASE ~(size < 10)
    <3>1. digits = <<size \div 10, size % 10>>
      BY <2>3
    <3>2. Value(<<size \div 10, size % 10>>, 10) = (size % 10) + 10 * (size \div 10)
      BY <2>1, Values, Zenon
    <3>3. ASSUME NEW a \in Int, NEW b \in Int, a < 10, b < 10
          PROVE  /\ <<a, b>> # <<>>
                 /\ \A i \in DOMAIN <<a, b>> : <<a, b>>[i] < 10
      <4>1. <<a, b>>[1] < 10 /\ <<a, b>>[2] < 10 /\ Len(<<a, b>>) = 2
        BY <3>3
      <4>2. DOMAIN <<a, b>> = {1, 2}
        BY <4>1
      <4> QED
        BY <4>1, <4>2
    <3> HIDE DEF digits
    <3>4. /\ <<size \div 10, size % 10>> # <<>>
          /\ \A i \in DOMAIN <<size \div 10, size % 10>> :
               <<size \div 10, size % 10>>[i] < 10
      BY <2>1, <3>3, Zenon
    <3> QED
      BY <2>1, <3>1, <3>2, <3>4
  <2> QED
    BY <2>2, <2>3
<1> HIDE DEF digits
<1>4. RegistersNamed(token) = {}
  BY <1>3, DigitsAreNoRegister
<1>5. /\ Len(token) = 1 /\ token[1].text = "#"
      /\ token[1].minus = (n < 0) /\ token[1].digits = digits
  OBVIOUS
<1> HIDE DEF token
<1>6. Base("#") = 10
  BY DEF Base
<1>7. IsNumeral(token)
  BY <1>3, <1>5, <1>6 DEF IsNumeral
<1>8. BuildOperand(token) = Integer(IF n < 0 THEN -size ELSE size)
  BY <1>3, <1>4, <1>5, <1>6, <1>7 DEF BuildOperand
<1>9. (IF n < 0 THEN -size ELSE size) = n
  OBVIOUS
<1> QED
  BY <1>1, <1>8, <1>9

-----------------------------------------------------------------------------
(* A line of a listing, and what the assembler reads of it. *)

\* The line d is of this shape.
Shape(d, name, conditions, operands, has_target) ==
  /\ d.operation = name /\ d.conditions = conditions
  /\ d.operands = operands /\ d.has_target = has_target

\* What parse_assembly_line made of a line.
IsRead(read, name, conditions, operands) ==
  /\ read.operation = name /\ read.conditions = conditions
  /\ read.operands = operands

\* A line of the listing that shows the decoded line d: labels have been added
\* to it, and the one that it refers to is the one of its target.
Shows(line, d) ==
  /\ line.operation = d.operation /\ line.conditions = d.conditions
  /\ line.operands = d.operands /\ line.has_target = d.has_target
  /\ d.has_target => line.reference_label = Mint(d.target)

\* The symbol table has the label at the address.
Resolves(table, label, address) ==
  /\ table # <<>> /\ Rows(table, label) # {}
  /\ AddressOf(table, label) = address

\* The target is where the offset leads without going round the end of memory.
Reaches(address, target) ==
  -1023 <= target - address /\ target - address <= 1024

LEMMA ShowsShape ==
  ASSUME NEW line, NEW d, Shows(line, d),
         NEW name, NEW conditions, NEW operands, NEW has_target,
         Shape(d, name, conditions, operands, has_target)
  PROVE  Shape(line, name, conditions, operands, has_target)
  BY DEF Shows, Shape

LEMMA ThreeRead ==
  ASSUME NEW line, NEW a, NEW b, NEW c, NEW name, NEW conditions,
         Shape(line, name, conditions, <<a, b, c>>, FALSE)
  PROVE  IsRead(Reread(line), name, conditions,
                <<BuildOperand(<<a>>), BuildOperand(<<b>>), BuildOperand(<<c>>)>>)
<1>1. /\ line.operands = <<a, b, c>> /\ line.has_target = FALSE
      /\ line.operation = name /\ line.conditions = conditions
  BY DEF Shape
<1>2. [n \in DOMAIN <<a, b, c>> |-> <<<<a, b, c>>[n]>>] = <<<<a>>, <<b>>, <<c>>>>
  OBVIOUS
<1>3. <<<<a>>, <<b>>, <<c>>>> \o <<>> = <<<<a>>, <<b>>, <<c>>>>
  OBVIOUS
<1>4. PrintedOperands(line) = <<<<a>>, <<b>>, <<c>>>>
  BY <1>1, <1>2, <1>3 DEF PrintedOperands
<1>5. ASSUME NEW x, NEW y, NEW z
      PROVE  [n \in DOMAIN <<x, y, z>> |-> BuildOperand(<<x, y, z>>[n])]
               = <<BuildOperand(x), BuildOperand(y), BuildOperand(z)>>
  OBVIOUS
<1> QED
  BY <1>1, <1>4, <1>5 DEF Reread, IsRead

LEMMA TwoRead ==
  ASSUME NEW line, NEW a, NEW b, NEW name, NEW conditions,
         Shape(line, name, conditions, <<a, b>>, FALSE)
  PROVE  IsRead(Reread(line), name, conditions,
                <<BuildOperand(<<a>>), BuildOperand(<<b>>)>>)
<1>1. /\ line.operands = <<a, b>> /\ line.has_target = FALSE
      /\ line.operation = name /\ line.conditions = conditions
  BY DEF Shape
<1>2. [n \in DOMAIN <<a, b>> |-> <<<<a, b>>[n]>>] = <<<<a>>, <<b>>>>
  OBVIOUS
<1>3. <<<<a>>, <<b>>>> \o <<>> = <<<<a>>, <<b>>>>
  OBVIOUS
<1>4. PrintedOperands(line) = <<<<a>>, <<b>>>>
  BY <1>1, <1>2, <1>3 DEF PrintedOperands
<1>5. ASSUME NEW x, NEW y
      PROVE  [n \in DOMAIN <<x, y>> |-> BuildOperand(<<x, y>>[n])]
               = <<BuildOperand(x), BuildOperand(y)>>
  OBVIOUS
<1> QED
  BY <1>1, <1>4, <1>5 DEF Reread, IsRead

LEMMA OneRead ==
  ASSUME NEW line, NEW a, NEW name, NEW conditions,
         Shape(line, name, conditions, <<a>>, FALSE)
  PROVE  IsRead(Reread(line), name, conditions, <<BuildOperand(<<a>>)>>)
<1>1. /\ line.operands = <<a>> /\ line.has_target = FALSE
      /\ line.operation = name /\ line.conditions = conditions
  BY DEF Shape
<1>2. [n \in DOMAIN <<a>> |-> <<<<a>>[n]>>] = <<<<a>>>>
  OBVIOUS
<1>3. <<<<a>>>> \o <<>> = <<<<a>>>>
  OBVIOUS
<1>4. PrintedOperands(line) = <<<<a>>>>
  BY <1>1, <1>2, <1>3 DEF PrintedOperands
<1>5. ASSUME NEW x
      PROVE  [n \in DOMAIN <<x>> |-> BuildOperand(<<x>>[n])] = <<BuildOperand(x)>>
  OBVIOUS
<1> QED
  BY <1>1, <1>4, <1>5 DEF Reread, IsRead

LEMMA NoneRead ==
  ASSUME NEW line, NEW name, NEW conditions,
         Shape(line, name, conditions, <<>>, FALSE)
  PROVE  IsRead(Reread(line), name, conditions, <<>>)
<1>1. /\ line.operands = <<>> /\ line.has_target = FALSE
      /\ line.operation = name /\ line.conditions = conditions
  BY DEF Shape
<1>2. [n \in DOMAIN <<>> |-> <<<<>>[n]>>] = <<>>
  OBVIOUS
<1>3. <<>> \o <<>> = <<>>
  OBVIOUS
<1>4. PrintedOperands(line) = <<>>
  BY <1>1, <1>2, <1>3 DEF PrintedOperands
<1>5. [n \in DOMAIN <<>> |-> BuildOperand(<<>>[n])] = <<>>
  OBVIOUS
<1> QED
  BY <1>1, <1>4, <1>5 DEF Reread, IsRead

(* With a target the label comes last. *)
LEMMA TargetRead ==
  ASSUME NEW line, NEW name, NEW conditions,
         Shape(line, name, conditions, <<>>, TRUE), line.reference_label # NoLabel
  PROVE  IsRead(Reread(line), name, conditions,
                <<BuildOperand(line.reference_label)>>)
<1>1. /\ line.operands = <<>> /\ line.has_target = TRUE
      /\ line.operation = name /\ line.conditions = conditions
  BY DEF Shape
<1>2. [n \in DOMAIN <<>> |-> <<<<>>[n]>>] = <<>>
  OBVIOUS
<1>3. ASSUME NEW x PROVE <<>> \o <<x>> = <<x>>
  OBVIOUS
<1>4. PrintedOperands(line) = <<line.reference_label>>
  BY <1>1, <1>2, <1>3 DEF PrintedOperands, LabelText
<1>5. ASSUME NEW x
      PROVE  [n \in DOMAIN <<x>> |-> BuildOperand(<<x>>[n])] = <<BuildOperand(x)>>
  OBVIOUS
<1> QED
  BY <1>1, <1>4, <1>5 DEF Reread, IsRead

LEMMA TwoJoined ==
  ASSUME NEW x, NEW y
  PROVE  <<x>> \o <<y>> = <<x, y>>
<1> DEFINE s == <<x>> \o <<y>>
           t == <<x, y>>
<1>1. /\ <<x>> \in Seq({x, y}) /\ <<y>> \in Seq({x, y})
      /\ Len(<<x>>) = 1 /\ Len(<<y>>) = 1
  OBVIOUS
<1>2. t \in Seq({x, y}) /\ Len(t) = 2 /\ t[1] = x /\ t[2] = y
  OBVIOUS
<1>3. s \in Seq({x, y}) /\ Len(s) = 2 /\ s[1] = x /\ s[2] = y
  BY <1>1, ConcatProperties
<1> HIDE DEF s, t
<1>4. \A i \in 1 .. Len(s) : s[i] = t[i]
  BY <1>2, <1>3
<1>5. s = t
  BY <1>2, <1>3, <1>4, SeqEqual
<1> QED
  BY <1>5 DEF s, t

LEMMA OneAndTargetRead ==
  ASSUME NEW line, NEW a, NEW name, NEW conditions,
         Shape(line, name, conditions, <<a>>, TRUE), line.reference_label # NoLabel
  PROVE  IsRead(Reread(line), name, conditions,
                <<BuildOperand(<<a>>), BuildOperand(line.reference_label)>>)
<1>1. /\ line.operands = <<a>> /\ line.has_target = TRUE
      /\ line.operation = name /\ line.conditions = conditions
  BY DEF Shape
<1>2. [n \in DOMAIN <<a>> |-> <<<<a>>[n]>>] = <<<<a>>>>
  OBVIOUS
<1>3. PrintedOperands(line)
        = [n \in DOMAIN <<a>> |-> <<<<a>>[n]>>] \o <<line.reference_label>>
  BY <1>1 DEF PrintedOperands, LabelText
<1>4. PrintedOperands(line) = <<<<a>>, line.reference_label>>
  BY <1>2, <1>3, TwoJoined
<1>5. ASSUME NEW x, NEW y
      PROVE  [n \in DOMAIN <<x, y>> |-> BuildOperand(<<x, y>>[n])]
               = <<BuildOperand(x), BuildOperand(y)>>
  OBVIOUS
<1> QED
  BY <1>1, <1>4, <1>5 DEF Reread, IsRead

-----------------------------------------------------------------------------
(* A word is the sum of its fields. *)

LEMMA WordFields ==
  ASSUME NEW word \in Word
  PROVE  /\ Opcode(word) \in Int /\ FieldDR(word) \in Int
         /\ FieldSR1(word) \in Int /\ FieldSR2(word) \in Int
         /\ 0 <= Opcode(word) /\ Opcode(word) <= 15
         /\ 0 <= FieldDR(word) /\ FieldDR(word) <= 7
         /\ 0 <= FieldSR1(word) /\ FieldSR1(word) <= 7
         /\ 0 <= FieldSR2(word) /\ FieldSR2(word) <= 7
         /\ word % 512 = FieldSR1(word) * 64 + (word % 64)
         /\ word % 4096 = FieldDR(word) * 512 + (word % 512)
         /\ word = Opcode(word) * 4096 + (word % 4096)
<1>1. word \in Int /\ 0 <= word /\ word <= 65535
  BY WordBounds
<1>2. /\ Opcode(word) \in Int /\ 0 <= Opcode(word) /\ Opcode(word) <= 15
      /\ word = Opcode(word) * 4096 + (word % 4096)
  BY <1>1 DEF Opcode
<1>3. /\ FieldDR(word) \in Int /\ 0 <= FieldDR(word) /\ FieldDR(word) <= 7
      /\ word % 4096 = FieldDR(word) * 512 + (word % 512)
  BY <1>1 DEF FieldDR
<1>4. /\ FieldSR1(word) \in Int /\ 0 <= FieldSR1(word) /\ FieldSR1(word) <= 7
      /\ word % 512 = FieldSR1(word) * 64 + (word % 64)
  BY <1>1 DEF FieldSR1
<1>5. FieldSR2(word) \in Int /\ 0 <= FieldSR2(word) /\ FieldSR2(word) <= 7
  BY <1>1 DEF FieldSR2
<1> QED
  BY <1>2, <1>3, <1>4, <1>5

LEMMA LowFields ==
  ASSUME NEW word \in Word
  PROVE  /\ OffsetMode(word) => word % 4096 = 2048 + (word % 2048)
         /\ ImmediateMode(word) => word % 64 = 32 + (word % 32)
         /\ ~ImmediateMode(word) /\ (word \div 8) % 4 = 0 =>
              word % 64 = FieldSR2(word)
         /\ (word \div 256) % 16 = 0 => word % 4096 = word % 256
<1>1. word \in Int /\ 0 <= word /\ word <= 65535
  BY WordBounds
<1>2. OffsetMode(word) => word % 4096 = 2048 + (word % 2048)
  BY <1>1 DEF OffsetMode
<1>3. ImmediateMode(word) => word % 64 = 32 + (word % 32)
  BY <1>1 DEF ImmediateMode
<1>4. ~ImmediateMode(word) => word % 64 = word % 32
  BY <1>1 DEF ImmediateMode
<1>5. (word \div 8) % 4 = 0 => word % 32 = FieldSR2(word)
  BY <1>1 DEF FieldSR2
<1>6. (word \div 256) % 16 = 0 => word % 4096 = word % 256
  BY <1>1
<1> QED
  BY <1>2, <1>3, <1>4, <1>5, <1>6

(* The decoded lines. *)
LEMMA DecodedShape ==
  ASSUME NEW word, NEW address, NEW name, NEW operands
  PROVE  Shape(Decoded(Undecoded(word, address), name, operands),
               name, {}, operands, FALSE)
  BY DEF Decoded, Undecoded, Shape

LEMMA DataShape ==
  ASSUME NEW word, NEW address
  PROVE  Shape(Data(Undecoded(word, address)), ".FILL", {},
               <<Hexadecimal("x", Hex4(word))>>, FALSE)
  BY DEF Data, Undecoded, Shape

\* Its target is the one that its offset gives.
Targets(d, address, word, span) ==
  d.target = Wrap(address + 1 + SignedField(word, span))

LEMMA TargetShape ==
  ASSUME NEW word, NEW address, NEW name, NEW operands, NEW span
  PROVE  /\ Shape(WithTarget(Decoded(Undecoded(word, address), name, operands), span),
                  name, {}, operands, TRUE)
         /\ Targets(WithTarget(Decoded(Undecoded(word, address), name, operands), span),
                    address, word, span)
<1>1. ASSUME NEW d,
             d = WithTarget(Decoded(Undecoded(word, address), name, operands), span)
      PROVE  Shape(d, name, {}, operands, TRUE) /\ Targets(d, address, word, span)
  BY <1>1 DEF WithTarget, Decoded, Undecoded, Shape, Targets
<1> QED
  BY <1>1

LEMMA UndecodedFields ==
  ASSUME NEW word, NEW address
  PROVE  /\ Undecoded(word, address).word = word
         /\ Undecoded(word, address).address = address
  BY DEF Undecoded

LEMMA OperationNamesAre ==
  /\ OperationName(OP_BR) = "BR" /\ OperationName(OP_ADD) = "ADD"
  /\ OperationName(OP_LD) = "LD" /\ OperationName(OP_ST) = "ST"
  /\ OperationName(OP_JSR) = "JSR" /\ OperationName(OP_AND) = "AND"
  /\ OperationName(OP_LDR) = "LDR" /\ OperationName(OP_STR) = "STR"
  /\ OperationName(OP_RTI) = "RTI" /\ OperationName(OP_NOT) = "NOT"
  /\ OperationName(OP_LDI) = "LDI" /\ OperationName(OP_STI) = "STI"
  /\ OperationName(OP_JMP) = "JMP" /\ OperationName(OP_LEA) = "LEA"
  /\ OperationName(OP_TRAP) = "TRAP"
  BY DEF OperationName, OP_BR, OP_ADD, OP_LD, OP_ST, OP_JSR, OP_AND, OP_LDR,
         OP_STR, OP_RTI, OP_NOT, OP_LDI, OP_STI, OP_JMP, OP_LEA, OP_TRAP

-----------------------------------------------------------------------------
(* Decoding and encoding again, one operation at a time. *)

LEMMA RegisterOperand ==
  ASSUME NEW code \in GeneralRegisters
  PROVE  /\ BuildOperand(<<RegisterLexeme(code)>>) = Register(code, PointerBits)
         /\ RegisterCode(Register(code, PointerBits)) = code
         /\ Register(code, PointerBits).type = "register"
<1>1. code \in RegisterCodes /\ code # -1
  BY DEF GeneralRegisters, RegisterCodes
<1>2. RegisterCode(Register(code, PointerBits)) = code
  BY <1>1 DEF RegisterCode, Register, NoRegister
<1>3. Register(code, PointerBits).type = "register"
  BY DEF Register
<1> QED
  BY <1>1, <1>2, <1>3, RegisterReadBack

LEMMA DataReassembles ==
  ASSUME NEW word \in Word, NEW address, NEW table, NEW line,
         Shows(line, Data(Undecoded(word, address)))
  PROVE  MachineCodes(Reread(line), table, address) = <<word>>
<1>1. /\ Hex4(word) \in Seq(Digits) /\ Hex4(word) # <<>>
      /\ Value(Hex4(word), 16) = word
  BY HexValues
<1>2. BuildOperand(<<Hexadecimal("x", Hex4(word))>>) = Integer(word)
  BY <1>1, HexadecimalReadBack
<1>3. IsRead(Reread(line), ".FILL", {}, <<Integer(word)>>)
  BY <1>2, DataShape, ShowsShape, OneRead
<1>4. ASSUME NEW read, IsRead(read, ".FILL", {}, <<Integer(word)>>)
      PROVE  MachineCodes(read, table, address) = <<word>>
  <2>1. read.operation = ".FILL" /\ Operand(read, 1) = Integer(word)
    BY <1>4 DEF IsRead, Operand
  <2>2. Integer(word).type = "integer" /\ Integer(word).integer = word
    BY DEF Integer
  <2>3. FillValue(read, table) = word
    BY <2>1, <2>2, WrapWord DEF FillValue
  <2> QED
    BY <2>1, <2>3 DEF MachineCodes
<1> QED
  BY <1>3, <1>4

LEMMA NoWrap ==
  ASSUME NEW x \in Int, NEW a \in Int, 0 <= a, a <= 65535,
         a - 1023 <= x, x <= a + 1024,
         -1023 <= (x % 65536) - a, (x % 65536) - a <= 1024
  PROVE  x % 65536 = x /\ x >= 0
<1>1. CASE x < 0
  <2>1. x % 65536 = x + 65536
    BY <1>1
  <2> QED
    BY <2>1
<1>2. CASE x >= 65536
  <2>1. x % 65536 = x - 65536
    BY <1>2
  <2> QED
    BY <2>1
<1>3. CASE 0 <= x /\ x < 65536
  BY <1>3
<1> QED
  BY <1>1, <1>2, <1>3

LEMMA ReachIsOffset ==
  ASSUME NEW word \in Word, NEW address \in Word, NEW span \in {512, 2048},
         Reaches(address, Wrap(address + 1 + SignedField(word, span)))
  PROVE  /\ Wrap(address + 1 + SignedField(word, span))
              = address + 1 + SignedField(word, span)
         /\ address + 1 + SignedField(word, span) >= 0
<1>1. /\ SignedField(word, span) \in Int
      /\ -1024 <= SignedField(word, span) /\ SignedField(word, span) <= 1023
  BY SignedFieldBounds
<1>2. address \in Int /\ 0 <= address /\ address <= 65535
  BY WordBounds
<1>3. ASSUME NEW x \in Int, x = address + 1 + SignedField(word, span)
      PROVE  Wrap(x) = x /\ x >= 0
  <2>1. address - 1023 <= x /\ x <= address + 1024
    BY <1>1, <1>2, <1>3
  <2>2. Wrap(x) = x % 65536
    BY DEF Wrap, WORD_MAX
  <2>3. -1023 <= (x % 65536) - address /\ (x % 65536) - address <= 1024
    BY <1>3, <2>2 DEF Reaches
  <2> QED
    BY <1>2, <2>1, <2>2, <2>3, NoWrap
<1>4. (address + 1 + SignedField(word, span)) \in Int
  BY <1>1, <1>2
<1> QED
  BY <1>3, <1>4

LEMMA OffsetBack ==
  ASSUME NEW word \in Word, NEW address \in Word, NEW span \in {512, 2048},
         NEW table, NEW target,
         target = Wrap(address + 1 + SignedField(word, span)),
         Reaches(address, target),
         Resolves(table, Mint(target), target)
  PROVE  PcOffset(table, BuildOperand(Mint(target)), address, span) = word % span
<1>1. /\ target = address + 1 + SignedField(word, span) /\ target >= 0
  BY ReachIsOffset
<1>2. /\ SignedField(word, span) \in Int
      /\ ImmediateBits(SignedField(word, span), span) = word % span
  BY SignedFieldMasked
<1>3. address \in Int
  BY WordBounds
<1>4. target \in Word
  BY <1>2, <1>3, WrapType
<1>5. ASSUME NEW operand, operand = Label(Mint(target), PointerBits)
      PROVE  SymbolOf(table, operand) = target
  <2>1. operand.type = "label" /\ operand.label = Mint(target)
    BY <1>5 DEF Label
  <2>2. Missing.type = "register"
    BY DEF Missing, Register
  <2>3. operand # Missing /\ operand.type # "integer"
    BY <2>1, <2>2
  <2> QED
    BY <2>1, <2>3 DEF SymbolOf, Resolves
<1>6. SymbolOf(table, BuildOperand(Mint(target))) = target
  BY <1>4, <1>5, MintReadBack
<1>7. target - (address + 1) = SignedField(word, span) /\ ~(target < 0)
  BY <1>1, <1>2, <1>3
<1> QED
  BY <1>2, <1>6, <1>7 DEF PcOffset

LEMMA ThreePartWord ==
  ASSUME NEW word \in Word, NEW low \in Int, 0 <= low, low < 64
  PROVE  low = word % 64 =>
           Instruction(Opcode(word), FieldDR(word), FieldSR1(word), low) = word
<1>1. /\ Opcode(word) \in Int /\ FieldDR(word) \in Int /\ FieldSR1(word) \in Int
      /\ 0 <= Opcode(word) /\ Opcode(word) <= 15
      /\ 0 <= FieldDR(word) /\ FieldDR(word) <= 7
      /\ 0 <= FieldSR1(word) /\ FieldSR1(word) <= 7
  BY WordFields
<1>2. Instruction(Opcode(word), FieldDR(word), FieldSR1(word), low)
        = Opcode(word) * 4096 + FieldDR(word) * 512 + FieldSR1(word) * 64 + low
  BY <1>1, SmallInstruction
<1>3. word \in Int
  BY WordBounds
<1> QED
  BY <1>2, <1>3, WordFields

LEMMA LowBits ==
  ASSUME NEW word \in Word
  PROVE  Instruction(Opcode(word), FieldDR(word), FieldSR1(word), word % 64) = word
<1>1. ASSUME NEW low, low = word % 64
      PROVE  Instruction(Opcode(word), FieldDR(word), FieldSR1(word), low) = word
  <2>1. low \in Int /\ 0 <= low /\ low < 64
    BY <1>1, WordBounds
  <2> QED
    BY <1>1, <2>1, ThreePartWord
<1> QED
  BY <1>1

LEMMA TwoPartWord ==
  ASSUME NEW word \in Word, NEW low \in Int, 0 <= low, low < 512,
         NEW none \in Int, none = 0
  PROVE  low = word % 512 =>
           Instruction(Opcode(word), FieldDR(word), none, low) = word
<1>1. /\ Opcode(word) \in Int /\ FieldDR(word) \in Int /\ FieldSR1(word) \in Int
      /\ 0 <= Opcode(word) /\ Opcode(word) <= 15
      /\ 0 <= FieldDR(word) /\ FieldDR(word) <= 7
      /\ 0 <= FieldSR1(word) /\ FieldSR1(word) <= 7
  BY WordFields
<1>2. Instruction(Opcode(word), FieldDR(word), none, low)
        = Opcode(word) * 4096 + FieldDR(word) * 512 + none * 64 + low
  BY <1>1, SmallInstruction
<1>3. word \in Int /\ none * 64 = 0
  BY WordBounds
<1> QED
  BY <1>2, <1>3, WordFields

LEMMA NineBits ==
  ASSUME NEW word \in Word
  PROVE  Instruction(Opcode(word), FieldDR(word), 0, word % 512) = word
<1>1. ASSUME NEW low, low = word % 512, NEW none, none = 0
      PROVE  Instruction(Opcode(word), FieldDR(word), none, low) = word
  <2>1. low \in Int /\ 0 <= low /\ low < 512 /\ none \in Int
    BY <1>1, WordBounds
  <2> QED
    BY <1>1, <2>1, TwoPartWord
<1> QED
  BY <1>1

(* Without the fields between: twelve bits, or the eleven of JSR and its bit
   11. *)
LEMMA OnePartWord ==
  ASSUME NEW word \in Word, NEW low \in Int, 0 <= low, low < 2048,
         NEW high \in Int, high = 0 \/ high = 4, NEW none \in Int, none = 0
  PROVE  word % 4096 = high * 512 + low =>
           Instruction(Opcode(word), high, none, low) = word
<1>1. /\ Opcode(word) \in Int /\ FieldDR(word) \in Int /\ FieldSR1(word) \in Int
      /\ 0 <= Opcode(word) /\ Opcode(word) <= 15
      /\ 0 <= FieldDR(word) /\ FieldDR(word) <= 7
      /\ 0 <= FieldSR1(word) /\ FieldSR1(word) <= 7
  BY WordFields
<1>2. Instruction(Opcode(word), high, none, low)
        = Opcode(word) * 4096 + high * 512 + none * 64 + low
  BY <1>1, SmallInstruction
<1>3. word \in Int /\ none * 64 = 0
  BY WordBounds
<1> QED
  BY <1>2, <1>3, WordFields

LEMMA ThreeAppended ==
  ASSUME NEW a, NEW b, NEW c
  PROVE  Append(<<a, b>>, c) = <<a, b, c>>
<1> DEFINE s == Append(<<a, b>>, c)
           t == <<a, b, c>>
<1>1. /\ <<a, b>> \in Seq({a, b, c}) /\ c \in {a, b, c} /\ Len(<<a, b>>) = 2
      /\ <<a, b>>[1] = a /\ <<a, b>>[2] = b
  OBVIOUS
<1>2. t \in Seq({a, b, c}) /\ Len(t) = 3 /\ t[1] = a /\ t[2] = b /\ t[3] = c
  OBVIOUS
<1>3. s \in Seq({a, b, c}) /\ Len(s) = 3 /\ s[1] = a /\ s[2] = b /\ s[3] = c
  BY <1>1, AppendProperties
<1> HIDE DEF s, t
<1>4. \A i \in 1 .. Len(s) : s[i] = t[i]
  BY <1>2, <1>3
<1>5. s = t
  BY <1>2, <1>3, <1>4, SeqEqual
<1> QED
  BY <1>5 DEF s, t

LEMMA RegisterFields ==
  ASSUME NEW word \in Word
  PROVE  /\ FieldDR(word) \in GeneralRegisters
         /\ FieldSR1(word) \in GeneralRegisters
         /\ FieldSR2(word) \in GeneralRegisters
  BY WordFields DEF GeneralRegisters

(* ADD and AND: the two forms, and data. *)
LEMMA ArithmeticForms ==
  ASSUME NEW u
  PROVE  /\ ImmediateMode(u.word) =>
              DecodeArithmetic(u)
                = Decoded(u, NameOf(u),
                          <<FirstRegister(u), SecondRegister(u),
                            Decimal(SignedField(u.word, 32))>>)
         /\ ~ImmediateMode(u.word) /\ (u.word \div 8) % 4 # 0 =>
              DecodeArithmetic(u) = Data(u)
         /\ ~ImmediateMode(u.word) /\ (u.word \div 8) % 4 = 0 =>
              DecodeArithmetic(u)
                = Decoded(u, NameOf(u),
                          <<FirstRegister(u), SecondRegister(u),
                            RegisterLexeme(FieldSR2(u.word))>>)
  BY ThreeAppended, Zenon DEF DecodeArithmetic

LEMMA ArithmeticEncodes ==
  ASSUME NEW word \in Word, NEW address, NEW table, NEW read, NEW name, NEW operand,
         name \in {"ADD", "AND"}, Opcodes[name] = Opcode(word),
         IsRead(read, name, {},
                <<BuildOperand(<<RegisterLexeme(FieldDR(word))>>),
                  BuildOperand(<<RegisterLexeme(FieldSR1(word))>>), operand>>),
         SecondSource(operand) = word % 64
  PROVE  MachineCodes(read, table, address) = <<word>>
<1>1. /\ read.operation = name
      /\ read.operands = <<BuildOperand(<<RegisterLexeme(FieldDR(word))>>),
                           BuildOperand(<<RegisterLexeme(FieldSR1(word))>>), operand>>
  BY DEF IsRead
<1>2. /\ Operand(read, 1) = BuildOperand(<<RegisterLexeme(FieldDR(word))>>)
      /\ Operand(read, 2) = BuildOperand(<<RegisterLexeme(FieldSR1(word))>>)
      /\ Operand(read, 3) = operand
  BY <1>1 DEF Operand
<1>3. /\ RegisterCode(Operand(read, 1)) = FieldDR(word)
      /\ RegisterCode(Operand(read, 2)) = FieldSR1(word)
  BY <1>2, RegisterFields, RegisterOperand
<1>4. EncodeArithmetic(read, Opcode(word))
        = Instruction(Opcode(word), FieldDR(word), FieldSR1(word), word % 64)
  BY <1>2, <1>3 DEF EncodeArithmetic
<1>5. Encode(read, table, address) = EncodeArithmetic(read, Opcode(word))
  BY <1>1, EncoderOf
<1>6. MachineCodes(read, table, address) = <<Encode(read, table, address)>>
  BY <1>1, OneWord DEF NULL
<1>7. Instruction(Opcode(word), FieldDR(word), FieldSR1(word), word % 64) = word
  BY LowBits
<1> QED
  BY <1>4, <1>5, <1>6, <1>7

LEMMA ArithmeticReassembles ==
  ASSUME NEW word \in Word, NEW address, NEW table, NEW line,
         Opcode(word) \in {OP_ADD, OP_AND},
         Shows(line, DecodeArithmetic(Undecoded(word, address)))
  PROVE  MachineCodes(Reread(line), table, address) = <<word>>
<1> DEFINE a == RegisterLexeme(FieldDR(word))
           b == RegisterLexeme(FieldSR1(word))
           c == RegisterLexeme(FieldSR2(word))
           name == OperationName(Opcode(word))
           n == SignedField(word, 32)
<1>1. /\ ImmediateMode(word) =>
           DecodeArithmetic(Undecoded(word, address))
             = Decoded(Undecoded(word, address), name, <<a, b, Decimal(n)>>)
      /\ ~ImmediateMode(word) /\ (word \div 8) % 4 # 0 =>
           DecodeArithmetic(Undecoded(word, address)) = Data(Undecoded(word, address))
      /\ ~ImmediateMode(word) /\ (word \div 8) % 4 = 0 =>
           DecodeArithmetic(Undecoded(word, address))
             = Decoded(Undecoded(word, address), name, <<a, b, c>>)
  BY ArithmeticForms, UndecodedFields DEF NameOf, FirstRegister, SecondRegister
<1>2. name \in {"ADD", "AND"} /\ Opcodes[name] = Opcode(word)
  BY OperationNamesAre DEF Opcodes
<1>3. CASE ImmediateMode(word)
  <2>1. Shape(line, name, {}, <<a, b, Decimal(n)>>, FALSE)
    BY <1>1, <1>3, DecodedShape, ShowsShape, Zenon
  <2>2. n \in Int /\ -16 <= n /\ n <= 15 /\ ImmediateBits(n, 32) = word % 32
    BY SignedFieldMasked
  <2> HIDE DEF a, b, c, name, n
  <2>3. BuildOperand(<<Decimal(n)>>) = Integer(n)
    BY <2>2, DecimalReadBack
  <2>4. IsRead(Reread(line), name, {},
               <<BuildOperand(<<a>>), BuildOperand(<<b>>), Integer(n)>>)
    BY <2>1, <2>3, ThreeRead, Zenon
  <2>5. SecondSource(Integer(n)) = With(word % 32, 1, 32)
    BY <2>2 DEF SecondSource, Integer
  <2>6. ASSUME NEW low, low = word % 32
        PROVE  With(low, 1, 32) = word % 64
    <3>1. low \in Int /\ 0 <= low /\ low < 32 /\ word % 64 = 32 + low
      BY <1>3, <2>6, LowFields, WordBounds
    <3>2. low \in Word /\ 1 * 32 \in Word
      BY <3>1, BoundedIsWord
    <3>3. ASSUME NEW one \in Int, NEW factor, one = 1, factor = 32
          PROVE  With(low, one, factor) = low + one * factor
      BY <3>1, <3>2, <3>3, WithDisjoint
    <3>4. With(low, 1, 32) = low + 1 * 32
      BY <3>3
    <3> QED
      BY <3>1, <3>4
  <2>7. SecondSource(Integer(n)) = word % 64
    BY <2>5, <2>6, Zenon
  <2> QED
    BY <1>2, <2>4, <2>7, ArithmeticEncodes DEF a, b
<1>4. CASE ~ImmediateMode(word) /\ (word \div 8) % 4 # 0
  BY <1>1, <1>4, DataReassembles, Zenon
<1>5. CASE ~ImmediateMode(word) /\ (word \div 8) % 4 = 0
  <2>1. Shape(line, name, {}, <<a, b, c>>, FALSE)
    BY <1>1, <1>5, DecodedShape, ShowsShape, Zenon
  <2>2. SecondSource(BuildOperand(<<c>>)) = word % 64
    BY <1>5, LowFields, RegisterFields, RegisterOperand DEF SecondSource
  <2> HIDE DEF a, b, c, name
  <2>3. IsRead(Reread(line), name, {},
               <<BuildOperand(<<a>>), BuildOperand(<<b>>), BuildOperand(<<c>>)>>)
    BY <2>1, ThreeRead, Zenon
  <2> QED
    BY <1>2, <2>2, <2>3, ArithmeticEncodes DEF a, b
<1> QED
  BY <1>3, <1>4, <1>5

LEMMA NotReassembles ==
  ASSUME NEW word \in Word, NEW address, NEW table, NEW line,
         Opcode(word) = OP_NOT,
         Shows(line, DecodeNot(Undecoded(word, address)))
  PROVE  MachineCodes(Reread(line), table, address) = <<word>>
<1> DEFINE a == RegisterLexeme(FieldDR(word))
           b == RegisterLexeme(FieldSR1(word))
<1>1. /\ word % 64 # 63 =>
           DecodeNot(Undecoded(word, address)) = Data(Undecoded(word, address))
      /\ word % 64 = 63 =>
           DecodeNot(Undecoded(word, address))
             = Decoded(Undecoded(word, address), "NOT", <<a, b>>)
  BY UndecodedFields, OperationNamesAre
     DEF DecodeNot, NameOf, FirstRegister, SecondRegister
<1>2. CASE word % 64 # 63
  BY <1>1, <1>2, DataReassembles, Zenon
<1>3. CASE word % 64 = 63
  <2>1. Shape(line, "NOT", {}, <<a, b>>, FALSE)
    BY <1>1, <1>3, DecodedShape, ShowsShape, Zenon
  <2>2. IsRead(Reread(line), "NOT", {}, <<BuildOperand(<<a>>), BuildOperand(<<b>>)>>)
    BY <2>1, TwoRead, Zenon
  <2>3. ASSUME NEW read,
               IsRead(read, "NOT", {}, <<BuildOperand(<<a>>), BuildOperand(<<b>>)>>)
        PROVE  MachineCodes(read, table, address) = <<word>>
    <3>1. /\ read.operation = "NOT"
          /\ Operand(read, 1) = BuildOperand(<<a>>)
          /\ Operand(read, 2) = BuildOperand(<<b>>)
      BY <2>3 DEF IsRead, Operand
    <3>2. /\ RegisterCode(Operand(read, 1)) = FieldDR(word)
          /\ RegisterCode(Operand(read, 2)) = FieldSR1(word)
      BY <3>1, RegisterFields, RegisterOperand
    <3>3. EncodeNot(read)
            = Instruction(Opcode(word), FieldDR(word), FieldSR1(word), word % 64)
      BY <1>3, <3>2 DEF EncodeNot
    <3> QED
      BY <3>1, <3>3, EncoderOf, OneWord, LowBits DEF NULL
  <2> QED
    BY <2>2, <2>3
<1> QED
  BY <1>2, <1>3

LEMMA RtiReassembles ==
  ASSUME NEW word \in Word, NEW address, NEW table, NEW line,
         Opcode(word) = OP_RTI,
         Shows(line, DecodeRti(Undecoded(word, address)))
  PROVE  MachineCodes(Reread(line), table, address) = <<word>>
<1>1. /\ word % 4096 # 0 =>
           DecodeRti(Undecoded(word, address)) = Data(Undecoded(word, address))
      /\ word % 4096 = 0 =>
           DecodeRti(Undecoded(word, address))
             = Decoded(Undecoded(word, address), "RTI", <<>>)
  BY UndecodedFields, OperationNamesAre DEF DecodeRti, NameOf
<1>2. CASE word % 4096 # 0
  BY <1>1, <1>2, DataReassembles
<1>3. CASE word % 4096 = 0
  <2>1. Shape(line, "RTI", {}, <<>>, FALSE)
    <3>1. Shows(line, Decoded(Undecoded(word, address), "RTI", <<>>))
      BY <1>1, <1>3
    <3> QED
      BY <3>1, DecodedShape, ShowsShape, Zenon
  <2>2. IsRead(Reread(line), "RTI", {}, <<>>)
    BY <2>1, NoneRead, Zenon
  <2>3. ASSUME NEW read, IsRead(read, "RTI", {}, <<>>)
        PROVE  MachineCodes(read, table, address) = <<OP_RTI * 4096>>
    <3>1. read.operation = "RTI"
      BY <2>3 DEF IsRead
    <3> QED
      BY <3>1, EncoderOf, OneWord DEF NULL
  <2>4. OP_RTI * 4096 = word
    BY <1>3, WordFields, WordBounds
  <2> QED
    BY <2>2, <2>3, <2>4
<1> QED
  BY <1>2, <1>3

(* LDR and STR. *)
LEMMA BaseOffsetReassembles ==
  ASSUME NEW word \in Word, NEW address, NEW table, NEW line,
         Opcode(word) \in {OP_LDR, OP_STR},
         Shows(line, DecodeBaseOffset(Undecoded(word, address)))
  PROVE  MachineCodes(Reread(line), table, address) = <<word>>
<1> DEFINE a == RegisterLexeme(FieldDR(word))
           b == RegisterLexeme(FieldSR1(word))
           name == OperationName(Opcode(word))
           n == SignedField(word, 64)
<1>1. DecodeBaseOffset(Undecoded(word, address))
        = Decoded(Undecoded(word, address), name, <<a, b, Decimal(n)>>)
  BY UndecodedFields DEF DecodeBaseOffset, NameOf, FirstRegister, SecondRegister
<1>2. name \in {"LDR", "STR"} /\ Opcodes[name] = Opcode(word)
  BY OperationNamesAre DEF Opcodes
<1>3. Shape(line, name, {}, <<a, b, Decimal(n)>>, FALSE)
  BY <1>1, DecodedShape, ShowsShape, Zenon
<1>4. n \in Int /\ -32 <= n /\ n <= 31 /\ ImmediateBits(n, 64) = word % 64
  BY SignedFieldMasked
<1>5. BuildOperand(<<Decimal(n)>>) = Integer(n)
  BY <1>4, DecimalReadBack
<1> HIDE DEF a, b, name, n
<1>6. IsRead(Reread(line), name, {},
             <<BuildOperand(<<a>>), BuildOperand(<<b>>), Integer(n)>>)
  BY <1>3, <1>5, ThreeRead, Zenon
<1>7. ASSUME NEW read,
             IsRead(read, name, {},
                    <<BuildOperand(<<a>>), BuildOperand(<<b>>), Integer(n)>>)
      PROVE  MachineCodes(read, table, address) = <<word>>
  <2>1. /\ read.operation = name
        /\ Operand(read, 1) = BuildOperand(<<a>>)
        /\ Operand(read, 2) = BuildOperand(<<b>>)
        /\ Operand(read, 3) = Integer(n)
    BY <1>7 DEF IsRead, Operand
  <2>2. /\ RegisterCode(Operand(read, 1)) = FieldDR(word)
        /\ RegisterCode(Operand(read, 2)) = FieldSR1(word)
        /\ Operand(read, 3).integer = n
    BY <2>1, RegisterFields, RegisterOperand DEF a, b, Integer
  <2>3. EncodeBaseOffset(read, Opcode(word))
          = Instruction(Opcode(word), FieldDR(word), FieldSR1(word), word % 64)
    BY <1>4, <2>2 DEF EncodeBaseOffset
  <2>4. Encode(read, table, address) = EncodeBaseOffset(read, Opcode(word))
    BY <1>2, <2>1, EncoderOf
  <2>5. MachineCodes(read, table, address) = <<Encode(read, table, address)>>
    BY <1>2, <2>1, OneWord DEF NULL
  <2> QED
    BY <2>3, <2>4, <2>5, LowBits
<1> QED
  BY <1>6, <1>7

\* JMP and RET.
LEMMA JmpReassembles ==
  ASSUME NEW word \in Word, NEW address, NEW table, NEW line,
         Opcode(word) = OP_JMP,
         Shows(line, DecodeJmp(Undecoded(word, address)))
  PROVE  MachineCodes(Reread(line), table, address) = <<word>>
<1> DEFINE b == RegisterLexeme(FieldSR1(word))
           stray == FieldDR(word) # 0 \/ word % 64 # 0
<1>1. /\ stray => DecodeJmp(Undecoded(word, address)) = Data(Undecoded(word, address))
      /\ ~stray /\ FieldSR1(word) = R7 =>
           DecodeJmp(Undecoded(word, address))
             = Decoded(Undecoded(word, address), "RET", <<>>)
      /\ ~stray /\ FieldSR1(word) # R7 =>
           DecodeJmp(Undecoded(word, address))
             = Decoded(Undecoded(word, address), "JMP", <<b>>)
  BY UndecodedFields, OperationNamesAre DEF DecodeJmp, NameOf, SecondRegister
<1>2. ~stray => Instruction(OP_JMP, 0, FieldSR1(word), 0) = word
  BY LowBits
<1>3. CASE stray
  <2> HIDE DEF stray
  <2> QED
    BY <1>1, <1>3, DataReassembles, Zenon
<1>4. CASE ~stray /\ FieldSR1(word) = R7
  <2>1. Shows(line, Decoded(Undecoded(word, address), "RET", <<>>))
    BY <1>1, <1>4
  <2>2. IsRead(Reread(line), "RET", {}, <<>>)
    BY <2>1, DecodedShape, ShowsShape, NoneRead, Zenon
  <2>3. ASSUME NEW read, IsRead(read, "RET", {}, <<>>)
        PROVE  MachineCodes(read, table, address) = <<word>>
    <3>1. read.operation = "RET" /\ Len(read.operands) = 0
      BY <2>3 DEF IsRead
    <3>2. EncodeJmp(read) = Instruction(OP_JMP, 0, R7, 0)
      BY <3>1 DEF EncodeJmp
    <3> QED
      BY <1>2, <1>4, <3>1, <3>2, EncoderOf, OneWord DEF NULL
  <2> QED
    BY <2>2, <2>3
<1>5. CASE ~stray /\ FieldSR1(word) # R7
  <2>1. Shows(line, Decoded(Undecoded(word, address), "JMP", <<b>>))
    BY <1>1, <1>5
  <2>2. IsRead(Reread(line), "JMP", {}, <<BuildOperand(<<b>>)>>)
    BY <2>1, DecodedShape, ShowsShape, OneRead, Zenon
  <2>3. ASSUME NEW read, IsRead(read, "JMP", {}, <<BuildOperand(<<b>>)>>)
        PROVE  MachineCodes(read, table, address) = <<word>>
    <3>1. /\ read.operation = "JMP" /\ Len(read.operands) # 0
          /\ Operand(read, 1) = BuildOperand(<<b>>)
      BY <2>3 DEF IsRead, Operand
    <3>2. RegisterCode(Operand(read, 1)) = FieldSR1(word)
      BY <3>1, RegisterFields, RegisterOperand
    <3>3. EncodeJmp(read) = Instruction(OP_JMP, 0, FieldSR1(word), 0)
      BY <3>1, <3>2 DEF EncodeJmp
    <3> QED
      BY <1>2, <1>5, <3>1, <3>3, EncoderOf, OneWord DEF NULL
  <2> QED
    BY <2>2, <2>3
<1> QED
  BY <1>3, <1>4, <1>5

LEMMA TrapNamed ==
  ASSUME NEW vector \in Traps
  PROVE  TrapName(vector) \in TrapNames /\ TrapCode(TrapName(vector)) = vector
  BY DEF Traps, TrapName, TrapCode, TrapNames, TRAP_GETC, TRAP_OUT, TRAP_PUTS,
         TRAP_IN, TRAP_PUTSP, TRAP_HALT

LEMMA TrapReassembles ==
  ASSUME NEW word \in Word, NEW address, NEW table, NEW line,
         Opcode(word) = OP_TRAP,
         Shows(line, DecodeTrap(Undecoded(word, address)))
  PROVE  MachineCodes(Reread(line), table, address) = <<word>>
<1> DEFINE vector == word % 256
           stray == (word \div 256) % 16 # 0
<1>1. /\ stray => DecodeTrap(Undecoded(word, address)) = Data(Undecoded(word, address))
      /\ ~stray /\ vector \in Traps =>
           DecodeTrap(Undecoded(word, address))
             = Decoded(Undecoded(word, address), TrapName(vector), <<>>)
      /\ ~stray /\ vector \notin Traps =>
           DecodeTrap(Undecoded(word, address))
             = Decoded(Undecoded(word, address), "TRAP",
                       <<Hexadecimal("x", Hex2(vector))>>)
  BY UndecodedFields, OperationNamesAre DEF DecodeTrap, NameOf
<1>2. ~stray => Instruction(OP_TRAP, 0, 0, vector) = word
  <2>1. ASSUME NEW low, low = word % 256, ~stray
        PROVE  Instruction(OP_TRAP, 0, 0, low) = word
    <3>1. low \in Int /\ 0 <= low /\ low < 2048 /\ word % 4096 = low
      BY <2>1, LowFields, WordBounds
    <3>2. ASSUME NEW high, NEW none, high = 0, none = 0
          PROVE  Instruction(OP_TRAP, high, none, low) = word
      <4>1. high \in Int /\ none \in Int /\ word % 4096 = high * 512 + low
        BY <3>1, <3>2
      <4> QED
        BY <3>1, <3>2, <4>1, OnePartWord
    <3> QED
      BY <3>2
  <2> QED
    BY <2>1
<1>3. vector \in 0 .. 255 /\ vector \in Byte
  BY WordBounds DEF Byte
<1> HIDE DEF vector, stray
<1>4. CASE stray
  BY <1>1, <1>4, DataReassembles, Zenon
<1>5. CASE ~stray /\ vector \in Traps
  <2>1. Shows(line, Decoded(Undecoded(word, address), TrapName(vector), <<>>))
    BY <1>1, <1>5
  <2>2. IsRead(Reread(line), TrapName(vector), {}, <<>>)
    BY <2>1, DecodedShape, ShowsShape, NoneRead, Zenon
  <2>3. ASSUME NEW read, NEW name, IsRead(read, name, {}, <<>>), name \in TrapNames,
               TrapCode(name) = vector
        PROVE  MachineCodes(read, table, address) = <<word>>
    <3>1. read.operation = name
      BY <2>3 DEF IsRead
    <3>2. Encode(read, table, address) = Instruction(OP_TRAP, 0, 0, vector)
      BY <2>3, <3>1, EncoderOf
    <3>3. MachineCodes(read, table, address) = <<Encode(read, table, address)>>
      BY <2>3, <3>1, OneWord DEF NULL, TrapNames
    <3> QED
      BY <1>2, <1>5, <3>2, <3>3
  <2> QED
    BY <1>5, <2>2, <2>3, TrapNamed, Zenon
<1>6. CASE ~stray /\ vector \notin Traps
  <2>1. Shows(line, Decoded(Undecoded(word, address), "TRAP",
                            <<Hexadecimal("x", Hex2(vector))>>))
    BY <1>1, <1>6
  <2>2. IsRead(Reread(line), "TRAP", {},
               <<BuildOperand(<<Hexadecimal("x", Hex2(vector))>>)>>)
    BY <2>1, DecodedShape, ShowsShape, OneRead, Zenon
  <2>3. BuildOperand(<<Hexadecimal("x", Hex2(vector))>>) = Integer(vector)
    <3>1. /\ Hex2(vector) \in Seq(Digits) /\ Hex2(vector) # <<>>
          /\ Value(Hex2(vector), 16) = vector
      BY <1>3, HexValues
    <3> QED
      BY <3>1, HexadecimalReadBack
  <2>4. ASSUME NEW read, IsRead(read, "TRAP", {}, <<Integer(vector)>>)
        PROVE  MachineCodes(read, table, address) = <<word>>
    <3>1. read.operation = "TRAP" /\ Operand(read, 1).integer = vector
      BY <2>4 DEF IsRead, Operand, Integer
    <3>2. EncodeTrap(read) = Instruction(OP_TRAP, 0, 0, vector)
      BY <1>3, <3>1 DEF EncodeTrap
    <3> QED
      BY <1>2, <1>6, <3>1, <3>2, EncoderOf, OneWord DEF NULL
  <2> QED
    BY <2>2, <2>3, <2>4
<1> QED
  BY <1>4, <1>5, <1>6

-----------------------------------------------------------------------------
(* The operations with a label. *)

\* The label that the line shows is the one of the target.
LEMMA ShownLabel ==
  ASSUME NEW line, NEW d, Shows(line, d), NEW name, NEW conditions, NEW operands,
         Shape(d, name, conditions, operands, TRUE)
  PROVE  line.reference_label = Mint(d.target)
  BY DEF Shows, Shape

\* The target of d is the one that the offset in the word gives, and its label
\* can be had from the table.
Aims(d, word, address, span, table) ==
  /\ Targets(d, address, word, span)
  /\ Reaches(address, d.target)
  /\ Resolves(table, Mint(d.target), d.target)

\* A target is named by a label.
LEMMA TargetNamed ==
  ASSUME NEW word \in Word, NEW address \in Word, NEW span \in {512, 2048},
         NEW d, Targets(d, address, word, span)
  PROVE  /\ d.target \in Word
         /\ Mint(d.target) # NoLabel
         /\ BuildOperand(Mint(d.target)).type = "label"
<1>1. d.target = Wrap(address + 1 + SignedField(word, span))
  BY DEF Targets
<1>2. d.target \in Word
  <2>1. address \in Int /\ SignedField(word, span) \in Int
    BY WordBounds, SignedFieldMasked
  <2> QED
    BY <1>1, <2>1, WrapType
<1>3. Mint(d.target) # NoLabel
  BY <1>2, MintAssumption
<1>4. BuildOperand(Mint(d.target)).type = "label"
  BY <1>2, MintReadBack DEF Label
<1> QED
  BY <1>2, <1>3, <1>4

\* The label of the target is read back as the offset.
LEMMA TargetBack ==
  ASSUME NEW word \in Word, NEW address \in Word, NEW span \in {512, 2048},
         NEW table, NEW d, Aims(d, word, address, span, table)
  PROVE  PcOffset(table, BuildOperand(Mint(d.target)), address, span) = word % span
<1>1. d.target = Wrap(address + 1 + SignedField(word, span))
  BY DEF Aims, Targets
<1>2. Reaches(address, d.target) /\ Resolves(table, Mint(d.target), d.target)
  BY DEF Aims
<1> QED
  BY <1>1, <1>2, OffsetBack

\* The line of d, read back, is the code with what the assembler makes of the
\* label of the target.
Returns(line, d, word, address, table, code, a, span) ==
  /\ d.has_target = TRUE
  /\ d.operation = "JSR" <=> span = 2048
  /\ Targets(d, address, word, span)
  /\ MachineCodes(Reread(line), table, address)
       = <<Instruction(code, a, 0,
             PcOffset(table, BuildOperand(Mint(d.target)), address, span))>>

LEMMA ReturnsOffset ==
  ASSUME NEW word \in Word, NEW address \in Word, NEW span \in {512, 2048},
         NEW table, NEW line, NEW d, NEW code, NEW a,
         Returns(line, d, word, address, table, code, a, span),
         Reaches(address, d.target), Resolves(table, Mint(d.target), d.target)
  PROVE  MachineCodes(Reread(line), table, address)
           = <<Instruction(code, a, 0, word % span)>>
<1>1. Aims(d, word, address, span, table)
  BY DEF Returns, Aims
<1>2. PcOffset(table, BuildOperand(Mint(d.target)), address, span) = word % span
  BY <1>1, TargetBack
<1> QED
  BY <1>2 DEF Returns

\* LD, LDI, LEA, ST and STI.
LEMMA PcRelativeReturns ==
  ASSUME NEW word \in Word, NEW address \in Word, NEW table, NEW line, NEW d,
         Opcode(word) \in {OP_LD, OP_LDI, OP_LEA, OP_ST, OP_STI}, Shows(line, d)
  PROVE  d = DecodePcRelative(Undecoded(word, address)) =>
           Returns(line, d, word, address, table, Opcode(word), FieldDR(word), 512)
<1> DEFINE a == RegisterLexeme(FieldDR(word))
           name == OperationName(Opcode(word))
           label == BuildOperand(line.reference_label)
           span == 512
<1>1. span \in {512, 2048}
  OBVIOUS
<1>2. DecodePcRelative(Undecoded(word, address))
        = WithTarget(Decoded(Undecoded(word, address), name, <<a>>), span)
  BY UndecodedFields DEF DecodePcRelative, NameOf, FirstRegister
<1>3. name \in {"LD", "LDI", "LEA", "ST", "STI"} /\ Opcodes[name] = Opcode(word)
  BY OperationNamesAre DEF Opcodes
<1> HIDE DEF a, name, label, span
<1>4. d = DecodePcRelative(Undecoded(word, address)) =>
        Shape(d, name, {}, <<a>>, TRUE) /\ Targets(d, address, word, span)
  <2>1. /\ Shape(WithTarget(Decoded(Undecoded(word, address), name, <<a>>), span),
                 name, {}, <<a>>, TRUE)
        /\ Targets(WithTarget(Decoded(Undecoded(word, address), name, <<a>>), span),
                   address, word, span)
    BY TargetShape
  <2> QED
    BY <1>2, <2>1
<1> SUFFICES ASSUME Shape(d, name, {}, <<a>>, TRUE), Targets(d, address, word, span)
             PROVE  Returns(line, d, word, address, table, Opcode(word),
                            FieldDR(word), span)
  BY <1>4 DEF span
<1> DEFINE bits == PcOffset(table, BuildOperand(Mint(d.target)), address, span)
<1>5. line.reference_label = Mint(d.target)
  BY ShownLabel
<1>6. line.reference_label # NoLabel /\ PcOffset(table, label, address, span) = bits
  BY <1>1, <1>5, TargetNamed DEF label
<1> HIDE DEF bits
<1>7. IsRead(Reread(line), name, {}, <<BuildOperand(<<a>>), label>>)
  BY <1>6, ShowsShape, OneAndTargetRead, Zenon DEF label
<1>8. ASSUME NEW read, IsRead(read, name, {}, <<BuildOperand(<<a>>), label>>)
      PROVE  MachineCodes(read, table, address)
               = <<Instruction(Opcode(word), FieldDR(word), 0, bits)>>
  <2>1. /\ read.operation = name
        /\ Operand(read, 1) = BuildOperand(<<a>>) /\ Operand(read, 2) = label
    BY <1>8 DEF IsRead, Operand
  <2>2. RegisterCode(Operand(read, 1)) = FieldDR(word)
    BY <2>1, RegisterFields, RegisterOperand DEF a
  <2>3. EncodePcRelative(read, Opcode(word), table, address)
          = Instruction(Opcode(word), FieldDR(word), 0, bits)
    BY <1>6, <2>1, <2>2 DEF EncodePcRelative, span
  <2>4. Encode(read, table, address)
          = EncodePcRelative(read, Opcode(word), table, address)
    BY <1>3, <2>1, EncoderOf
  <2>5. MachineCodes(read, table, address) = <<Encode(read, table, address)>>
    BY <1>3, <2>1, OneWord DEF NULL
  <2> QED
    BY <2>3, <2>4, <2>5
<1>9. MachineCodes(Reread(line), table, address)
        = <<Instruction(Opcode(word), FieldDR(word), 0, bits)>>
  BY <1>7, <1>8
<1>10. d.has_target = TRUE /\ (d.operation = "JSR" <=> span = 2048)
  BY <1>3 DEF Shape, span
<1> QED
  BY <1>9, <1>10 DEF Returns, bits

LEMMA PcRelativeReassembles ==
  ASSUME NEW word \in Word, NEW address \in Word, NEW table, NEW line, NEW d,
         Opcode(word) \in {OP_LD, OP_LDI, OP_LEA, OP_ST, OP_STI},
         Shows(line, d), Reaches(address, d.target),
         Resolves(table, Mint(d.target), d.target)
  PROVE  d = DecodePcRelative(Undecoded(word, address)) =>
           MachineCodes(Reread(line), table, address) = <<word>>
<1> SUFFICES ASSUME Returns(line, d, word, address, table,
                            Opcode(word), FieldDR(word), 512)
             PROVE  MachineCodes(Reread(line), table, address) = <<word>>
  BY PcRelativeReturns
<1>1. MachineCodes(Reread(line), table, address)
        = <<Instruction(Opcode(word), FieldDR(word), 0, word % 512)>>
  BY ReturnsOffset
<1> QED
  BY <1>1, NineBits

\* JSR with an offset, JSRR, and data.
LEMMA JsrOffsetReturns ==
  ASSUME NEW word \in Word, NEW address \in Word, NEW table, NEW line, NEW d,
         Opcode(word) = OP_JSR, OffsetMode(word), Shows(line, d)
  PROVE  d = DecodeJsr(Undecoded(word, address)) =>
           Returns(line, d, word, address, table, OP_JSR, 4, 2048)
<1> DEFINE label == BuildOperand(line.reference_label)
           span == 2048
           name == "JSR"
<1>1. span \in {512, 2048}
  OBVIOUS
<1>2. DecodeJsr(Undecoded(word, address))
        = WithTarget(Decoded(Undecoded(word, address), name, <<>>), span)
  BY UndecodedFields, OperationNamesAre DEF DecodeJsr, NameOf
<1>3. name = "JSR"
  OBVIOUS
<1> HIDE DEF label, span, name
<1>4. d = DecodeJsr(Undecoded(word, address)) =>
        Shape(d, name, {}, <<>>, TRUE) /\ Targets(d, address, word, span)
  <2>1. /\ Shape(WithTarget(Decoded(Undecoded(word, address), name, <<>>), span),
                 name, {}, <<>>, TRUE)
        /\ Targets(WithTarget(Decoded(Undecoded(word, address), name, <<>>), span),
                   address, word, span)
    BY TargetShape
  <2> QED
    BY <1>2, <2>1
<1> SUFFICES ASSUME Shape(d, name, {}, <<>>, TRUE), Targets(d, address, word, span)
             PROVE  Returns(line, d, word, address, table, OP_JSR, 4, span)
  BY <1>4 DEF span
<1> DEFINE bits == PcOffset(table, BuildOperand(Mint(d.target)), address, span)
<1>5. line.reference_label = Mint(d.target)
  BY ShownLabel
<1>6. /\ line.reference_label # NoLabel
      /\ PcOffset(table, label, address, span) = bits
      /\ label.type = "label"
  BY <1>1, <1>5, TargetNamed DEF label
<1> HIDE DEF bits
<1>7. IsRead(Reread(line), name, {}, <<label>>)
  BY <1>6, ShowsShape, TargetRead, Zenon DEF label
<1>8. ASSUME NEW read, IsRead(read, name, {}, <<label>>)
      PROVE  MachineCodes(read, table, address)
               = <<Instruction(OP_JSR, 4, 0, bits)>>
  <2>1. read.operation = "JSR" /\ Operand(read, 1) = label
    BY <1>3, <1>8 DEF IsRead, Operand
  <2>2. EncodeJsr(read, table, address) = Instruction(OP_JSR, 4, 0, bits)
    BY <1>6, <2>1 DEF EncodeJsr, span
  <2>3. Encode(read, table, address) = EncodeJsr(read, table, address)
    BY <2>1, EncoderOf
  <2>4. MachineCodes(read, table, address) = <<Encode(read, table, address)>>
    BY <2>1, OneWord DEF NULL
  <2> QED
    BY <2>2, <2>3, <2>4
<1>9. MachineCodes(Reread(line), table, address) = <<Instruction(OP_JSR, 4, 0, bits)>>
  BY <1>7, <1>8
<1>10. d.has_target = TRUE /\ (d.operation = "JSR" <=> span = 2048)
  BY <1>3 DEF Shape, span
<1> QED
  BY <1>9, <1>10 DEF Returns, bits

LEMMA JsrOffsetReassembles ==
  ASSUME NEW word \in Word, NEW address \in Word, NEW table, NEW line, NEW d,
         Opcode(word) = OP_JSR, OffsetMode(word),
         Shows(line, d), Reaches(address, d.target),
         Resolves(table, Mint(d.target), d.target)
  PROVE  d = DecodeJsr(Undecoded(word, address)) =>
           MachineCodes(Reread(line), table, address) = <<word>>
<1> SUFFICES ASSUME Returns(line, d, word, address, table, OP_JSR, 4, 2048)
             PROVE  MachineCodes(Reread(line), table, address) = <<word>>
  BY JsrOffsetReturns
<1>1. MachineCodes(Reread(line), table, address)
        = <<Instruction(OP_JSR, 4, 0, word % 2048)>>
  BY ReturnsOffset
<1>2. ASSUME NEW low, NEW high, NEW none, low = word % 2048, high = 4, none = 0
      PROVE  Instruction(OP_JSR, high, none, low) = word
  <2>1. low \in Int /\ 0 <= low /\ low < 2048 /\ word % 4096 = 2048 + low
    BY <1>2, LowFields, WordBounds
  <2>2. high \in Int /\ none \in Int /\ word % 4096 = high * 512 + low
    BY <1>2, <2>1
  <2> QED
    BY <1>2, <2>1, <2>2, OnePartWord
<1> QED
  BY <1>1, <1>2

LEMMA JsrReassembles ==
  ASSUME NEW word \in Word, NEW address, NEW table, NEW line,
         Opcode(word) = OP_JSR, ~OffsetMode(word),
         Shows(line, DecodeJsr(Undecoded(word, address)))
  PROVE  MachineCodes(Reread(line), table, address) = <<word>>
<1> DEFINE b == RegisterLexeme(FieldSR1(word))
           stray == FieldDR(word) # 0 \/ word % 64 # 0
<1>1. /\ stray => DecodeJsr(Undecoded(word, address)) = Data(Undecoded(word, address))
      /\ ~stray => DecodeJsr(Undecoded(word, address))
                     = Decoded(Undecoded(word, address), "JSRR", <<b>>)
  BY UndecodedFields DEF DecodeJsr, SecondRegister
<1>2. ~stray => Instruction(OP_JSR, 0, FieldSR1(word), 0) = word
  BY LowBits
<1>3. CASE stray
  <2> HIDE DEF stray
  <2> QED
    BY <1>1, <1>3, DataReassembles, Zenon
<1>4. CASE ~stray
  <2>1. Shows(line, Decoded(Undecoded(word, address), "JSRR", <<b>>))
    BY <1>1, <1>4
  <2>2. IsRead(Reread(line), "JSRR", {}, <<BuildOperand(<<b>>)>>)
    BY <2>1, DecodedShape, ShowsShape, OneRead, Zenon
  <2>3. ASSUME NEW read, IsRead(read, "JSRR", {}, <<BuildOperand(<<b>>)>>)
        PROVE  MachineCodes(read, table, address) = <<word>>
    <3>1. read.operation = "JSRR" /\ Operand(read, 1) = BuildOperand(<<b>>)
      BY <2>3 DEF IsRead, Operand
    <3>2. /\ RegisterCode(Operand(read, 1)) = FieldSR1(word)
          /\ Operand(read, 1).type = "register"
      BY <3>1, RegisterFields, RegisterOperand
    <3>3. EncodeJsr(read, table, address)
            = Instruction(OP_JSR, 0, FieldSR1(word), 0)
      BY <3>1, <3>2 DEF EncodeJsr
    <3> QED
      BY <1>2, <1>4, <3>1, <3>3, EncoderOf, OneWord DEF NULL
  <2> QED
    BY <2>2, <2>3
<1> QED
  BY <1>3, <1>4

\* BR: the condition bits that the word has set are the letters of its name.
LEMMA NibbleBits ==
  ASSUME NEW n \in Int, 1 <= n, n <= 7
  PROVE  /\ And4(n, 4) = (IF n >= 4 THEN 4 ELSE 0)
         /\ And4(n, 2) = (IF n \in {2, 3, 6, 7} THEN 2 ELSE 0)
         /\ And4(n, 1) = (IF n \in {1, 3, 5, 7} THEN 1 ELSE 0)
<1>1. n \in {1, 2, 3, 4, 5, 6, 7}
  OBVIOUS
<1>2. And4(0, 0) = 0
  BY DEF And4, And2, And1
<1> QED
  BY <1>1 DEF And4, And2, And1

LEMMA ConditionBits ==
  ASSUME NEW n \in Int, 1 <= n, n <= 7
  PROVE  /\ BitAnd(n, 4) = And4(n, 4)
         /\ BitAnd(n, 2) = And4(n, 2)
         /\ BitAnd(n, 1) = And4(n, 1)
<1>1. And4(0, 0) = 0
  BY DEF And4, And2, And1
<1>2. ASSUME NEW m \in {1, 2, 4}
      PROVE  BitAnd(n, m) = And4(n, m)
  <2>1. /\ n % 256 = n /\ n \div 256 = 0 /\ n % 16 = n /\ n \div 16 = 0
        /\ m % 256 = m /\ m \div 256 = 0 /\ m % 16 = m /\ m \div 16 = 0
    OBVIOUS
  <2>2. And8(0, 0) = 0
    BY <1>1 DEF And8
  <2>3. And8(n, m) = And4(n, m) + 16 * And4(0, 0)
    BY <2>1 DEF And8
  <2>4. And4(n, m) \in Int
    BY DEF And4, And2, And1
  <2> QED
    BY <1>1, <2>1, <2>2, <2>3, <2>4 DEF BitAnd
<1> QED
  BY <1>2

LEMMA ConditionLetters ==
  ASSUME NEW n, n \in Int, 1 <= n, n <= 7, NEW letters,
         letters = {c \in {"N", "Z", "P"} : BitAnd(n, BranchMask({c})) # 0}
  PROVE  BranchMask(letters) = n
<1>1. /\ BranchMask({"N"}) = 4 /\ BranchMask({"Z"}) = 2 /\ BranchMask({"P"}) = 1
  BY DEF BranchMask, CONDITION_FLAG_NEGATIVE, CONDITION_FLAG_ZERO,
         CONDITION_FLAG_POSITIVE
<1>2. /\ "N" \in letters <=> n >= 4
      /\ "Z" \in letters <=> n \in {2, 3, 6, 7}
      /\ "P" \in letters <=> n \in {1, 3, 5, 7}
  <2>1. /\ "N" \in letters <=> BitAnd(n, 4) # 0
        /\ "Z" \in letters <=> BitAnd(n, 2) # 0
        /\ "P" \in letters <=> BitAnd(n, 1) # 0
    BY <1>1
  <2>2. /\ BitAnd(n, 4) = (IF n >= 4 THEN 4 ELSE 0)
        /\ BitAnd(n, 2) = (IF n \in {2, 3, 6, 7} THEN 2 ELSE 0)
        /\ BitAnd(n, 1) = (IF n \in {1, 3, 5, 7} THEN 1 ELSE 0)
    BY NibbleBits, ConditionBits
  <2> QED
    BY <2>1, <2>2
<1>3. letters # {}
  BY <1>2
<1>4. BranchMask(letters) = (IF "N" \in letters THEN 4 ELSE 0)
                            + (IF "Z" \in letters THEN 2 ELSE 0)
                            + (IF "P" \in letters THEN 1 ELSE 0)
  BY <1>3 DEF BranchMask, CONDITION_FLAG_NEGATIVE, CONDITION_FLAG_ZERO,
              CONDITION_FLAG_POSITIVE
<1>5. n \in {1, 2, 3, 4, 5, 6, 7}
  OBVIOUS
<1> QED
  BY <1>2, <1>4, <1>5

LEMMA BranchShape ==
  ASSUME NEW word, NEW address, NEW name, NEW letters, NEW span, NEW d,
         d = WithTarget([Decoded(Undecoded(word, address), name, <<>>) EXCEPT
                           !.conditions = letters], span)
  PROVE  Shape(d, name, letters, <<>>, TRUE) /\ Targets(d, address, word, span)
  BY DEF WithTarget, Decoded, Undecoded, Shape, Targets

LEMMA BrReturns ==
  ASSUME NEW word \in Word, NEW address \in Word, NEW table, NEW line, NEW d,
         Opcode(word) = OP_BR, FieldDR(word) # 0, Shows(line, d)
  PROVE  d = DecodeBr(Undecoded(word, address)) =>
           Returns(line, d, word, address, table, OP_BR, FieldDR(word), 512)
<1> DEFINE label == BuildOperand(line.reference_label)
           span == 512
           name == "BR"
           letters == {c \in {"N", "Z", "P"} :
                         BitAnd(FieldDR(word), BranchMask({c})) # 0}
<1>1. span \in {512, 2048} /\ name = "BR"
  OBVIOUS
<1>2. DecodeBr(Undecoded(word, address))
        = WithTarget([Decoded(Undecoded(word, address), name, <<>>) EXCEPT
                        !.conditions = letters], span)
  <2>1. ASSUME NEW u, u.word = word, FieldDR(u.word) # 0, NameOf(u) = "BR"
        PROVE  DecodeBr(u) = WithTarget([Decoded(u, name, <<>>) EXCEPT
                                           !.conditions = letters], span)
    <3>1. letters = {c \in {"N", "Z", "P"} :
                       BitAnd(FieldDR(u.word), BranchMask({c})) # 0}
      BY <2>1
    <3> HIDE DEF letters
    <3> QED
      BY <2>1, <3>1, Zenon DEF DecodeBr
  <2>2. /\ Undecoded(word, address).word = word
        /\ NameOf(Undecoded(word, address)) = "BR"
    BY UndecodedFields, OperationNamesAre DEF NameOf
  <2> HIDE DEF letters, name, span
  <2> QED
    BY <2>1, <2>2
<1>3. BranchMask(letters) = FieldDR(word)
  <2>1. /\ FieldDR(word) \in Int
        /\ 1 <= FieldDR(word) /\ FieldDR(word) <= 7
    BY WordFields
  <2> QED
    BY <2>1, ConditionLetters
<1> HIDE DEF label, span, name, letters
<1>4. d = DecodeBr(Undecoded(word, address)) =>
        Shape(d, name, letters, <<>>, TRUE) /\ Targets(d, address, word, span)
  BY <1>2, BranchShape, Zenon
<1> SUFFICES ASSUME Shape(d, name, letters, <<>>, TRUE), Targets(d, address, word, span)
             PROVE  Returns(line, d, word, address, table, OP_BR, FieldDR(word), span)
  BY <1>4 DEF span
<1> DEFINE bits == PcOffset(table, BuildOperand(Mint(d.target)), address, span)
<1>5. line.reference_label = Mint(d.target)
  BY ShownLabel
<1>6. line.reference_label # NoLabel /\ PcOffset(table, label, address, span) = bits
  BY <1>1, <1>5, TargetNamed DEF label
<1> HIDE DEF bits
<1>7. IsRead(Reread(line), name, letters, <<label>>)
  BY <1>6, ShowsShape, TargetRead, Zenon DEF label
<1>8. ASSUME NEW read, IsRead(read, name, letters, <<label>>)
      PROVE  MachineCodes(read, table, address)
               = <<Instruction(OP_BR, FieldDR(word), 0, bits)>>
  <2>1. /\ read.operation = "BR" /\ Operand(read, 1) = label
        /\ read.conditions = letters
    BY <1>1, <1>8 DEF IsRead, Operand
  <2>2. EncodeBr(read, table, address)
          = Instruction(OP_BR, FieldDR(word), 0, bits)
    BY <1>3, <1>6, <2>1 DEF EncodeBr, span
  <2>3. Encode(read, table, address) = EncodeBr(read, table, address)
    BY <2>1, EncoderOf
  <2>4. MachineCodes(read, table, address) = <<Encode(read, table, address)>>
    BY <2>1, OneWord DEF NULL
  <2> QED
    BY <2>2, <2>3, <2>4
<1>9. MachineCodes(Reread(line), table, address)
        = <<Instruction(OP_BR, FieldDR(word), 0, bits)>>
  BY <1>7, <1>8
<1>10. d.has_target = TRUE /\ (d.operation = "JSR" <=> span = 2048)
  BY <1>1 DEF Shape, span
<1> QED
  BY <1>9, <1>10 DEF Returns, bits

LEMMA BrReassembles ==
  ASSUME NEW word \in Word, NEW address \in Word, NEW table, NEW line, NEW d,
         Opcode(word) = OP_BR, FieldDR(word) # 0,
         Shows(line, d), Reaches(address, d.target),
         Resolves(table, Mint(d.target), d.target)
  PROVE  d = DecodeBr(Undecoded(word, address)) =>
           MachineCodes(Reread(line), table, address) = <<word>>
<1> SUFFICES ASSUME Returns(line, d, word, address, table, OP_BR, FieldDR(word), 512)
             PROVE  MachineCodes(Reread(line), table, address) = <<word>>
  BY BrReturns
<1>1. MachineCodes(Reread(line), table, address)
        = <<Instruction(Opcode(word), FieldDR(word), 0, word % 512)>>
  BY ReturnsOffset
<1> QED
  BY <1>1, NineBits

LEMMA NeverReassembles ==
  ASSUME NEW word \in Word, NEW address, NEW table, NEW line,
         Opcode(word) = OP_BR, FieldDR(word) = 0,
         Shows(line, DecodeBr(Undecoded(word, address)))
  PROVE  MachineCodes(Reread(line), table, address) = <<word>>
<1>1. DecodeBr(Undecoded(word, address)) = Data(Undecoded(word, address))
  BY UndecodedFields DEF DecodeBr
<1> QED
  BY <1>1, DataReassembles, Zenon

-----------------------------------------------------------------------------
(* All of them together. *)

\* The label of the target, if there is one, can be had from the table.
TargetKnown(d, address, table) ==
  d.has_target => Reaches(address, d.target) /\ Resolves(table, Mint(d.target), d.target)

LEMMA PcRelativeHasTarget ==
  ASSUME NEW word, NEW address, NEW table, NEW d,
         d = DecodePcRelative(Undecoded(word, address)),
         TargetKnown(d, address, table)
  PROVE  Reaches(address, d.target) /\ Resolves(table, Mint(d.target), d.target)
<1>1. d.has_target = TRUE
  BY DEF DecodePcRelative, WithTarget, Decoded, Undecoded
<1> QED
  BY <1>1 DEF TargetKnown

LEMMA JsrHasTarget ==
  ASSUME NEW word, NEW address, NEW table, NEW d, OffsetMode(word),
         d = DecodeJsr(Undecoded(word, address)),
         TargetKnown(d, address, table)
  PROVE  Reaches(address, d.target) /\ Resolves(table, Mint(d.target), d.target)
<1>1. d.has_target = TRUE
  BY UndecodedFields DEF DecodeJsr, WithTarget, Decoded, Undecoded
<1> QED
  BY <1>1 DEF TargetKnown

LEMMA BrHasTarget ==
  ASSUME NEW word, NEW address, NEW table, NEW d, FieldDR(word) # 0,
         d = DecodeBr(Undecoded(word, address)),
         TargetKnown(d, address, table)
  PROVE  Reaches(address, d.target) /\ Resolves(table, Mint(d.target), d.target)
<1>1. d.has_target = TRUE
  BY UndecodedFields DEF DecodeBr, WithTarget, Decoded, Undecoded
<1> QED
  BY <1>1 DEF TargetKnown

(* The decoder of each operation. *)
LEMMA DecoderOf ==
  ASSUME NEW word, NEW u, u.word = word
  PROVE  /\ Opcode(word) \in {OP_ADD, OP_AND} => Decode(u) = DecodeArithmetic(u)
         /\ Opcode(word) = OP_NOT => Decode(u) = DecodeNot(u)
         /\ Opcode(word) = OP_BR => Decode(u) = DecodeBr(u)
         /\ Opcode(word) = OP_JMP => Decode(u) = DecodeJmp(u)
         /\ Opcode(word) = OP_JSR => Decode(u) = DecodeJsr(u)
         /\ Opcode(word) \in {OP_LD, OP_LDI, OP_LEA, OP_ST, OP_STI} =>
              Decode(u) = DecodePcRelative(u)
         /\ Opcode(word) \in {OP_LDR, OP_STR} => Decode(u) = DecodeBaseOffset(u)
         /\ Opcode(word) = OP_TRAP => Decode(u) = DecodeTrap(u)
         /\ Opcode(word) = OP_RTI => Decode(u) = DecodeRti(u)
         /\ Opcode(word) = OP_RES => Decode(u) = Data(u)
  BY DEF Decode, OP_BR, OP_ADD, OP_LD, OP_ST, OP_JSR, OP_AND, OP_LDR,
         OP_STR, OP_RTI, OP_NOT, OP_LDI, OP_STI, OP_JMP, OP_RES, OP_LEA, OP_TRAP

\* disassembler/operation.c and assembler/operation.c are inverse: whatever the
\* word, the line that the disassembler prints for it is read and encoded by
\* the assembler as that word again.  Where the line has the label of a target,
\* the symbol table must have the label at that address, and the target must
\* not lie on the other side of the end of memory.
THEOREM WordsReassemble ==
  ASSUME NEW word \in Word, NEW address \in Word, NEW table, NEW line,
         Shows(line, Decode(Undecoded(word, address))),
         TargetKnown(Decode(Undecoded(word, address)), address, table)
  PROVE  MachineCodes(Reread(line), table, address) = <<word>>
<1> DEFINE u == Undecoded(word, address)
           code == Opcode(word)
<1>1. /\ code \in {OP_ADD, OP_AND} => Decode(u) = DecodeArithmetic(u)
      /\ code = OP_NOT => Decode(u) = DecodeNot(u)
      /\ code = OP_BR => Decode(u) = DecodeBr(u)
      /\ code = OP_JMP => Decode(u) = DecodeJmp(u)
      /\ code = OP_JSR => Decode(u) = DecodeJsr(u)
      /\ code \in {OP_LD, OP_LDI, OP_LEA, OP_ST, OP_STI} =>
           Decode(u) = DecodePcRelative(u)
      /\ code \in {OP_LDR, OP_STR} => Decode(u) = DecodeBaseOffset(u)
      /\ code = OP_TRAP => Decode(u) = DecodeTrap(u)
      /\ code = OP_RTI => Decode(u) = DecodeRti(u)
      /\ code = OP_RES => Decode(u) = Data(u)
  <2>1. u.word = word
    BY UndecodedFields
  <2> HIDE DEF u
  <2> QED
    BY <2>1, DecoderOf
<1>2. \/ code \in {OP_ADD, OP_AND, OP_NOT, OP_JMP, OP_TRAP, OP_RTI, OP_RES}
      \/ code \in {OP_LDR, OP_STR, OP_BR, OP_JSR}
      \/ code \in {OP_LD, OP_LDI, OP_LEA, OP_ST, OP_STI}
  BY WordFields DEF OP_BR, OP_ADD, OP_LD, OP_ST, OP_JSR, OP_AND, OP_LDR, OP_STR,
                    OP_RTI, OP_NOT, OP_LDI, OP_STI, OP_JMP, OP_RES, OP_LEA, OP_TRAP
<1>3. CASE code \in {OP_ADD, OP_AND}
  BY <1>1, <1>3, ArithmeticReassembles
<1>4. CASE code \in {OP_LDR, OP_STR}
  BY <1>1, <1>4, BaseOffsetReassembles
<1>5. CASE code = OP_NOT
  BY <1>1, <1>5, NotReassembles, Zenon
<1>6. CASE code = OP_JMP
  BY <1>1, <1>6, JmpReassembles, Zenon
<1>7. CASE code = OP_TRAP
  BY <1>1, <1>7, TrapReassembles, Zenon
<1>8. CASE code = OP_RTI
  BY <1>1, <1>8, RtiReassembles, Zenon
<1>9. CASE code = OP_RES
  BY <1>1, <1>9, DataReassembles, Zenon
<1>10. CASE code \in {OP_LD, OP_LDI, OP_LEA, OP_ST, OP_STI}
  <2>1. Reaches(address, Decode(u).target)
        /\ Resolves(table, Mint(Decode(u).target), Decode(u).target)
    BY <1>1, <1>10, PcRelativeHasTarget, Zenon
  <2> QED
    BY <1>1, <1>10, <2>1, PcRelativeReassembles
<1>11. CASE code = OP_JSR
  <2>1. CASE OffsetMode(word)
    <3>1. Reaches(address, Decode(u).target)
          /\ Resolves(table, Mint(Decode(u).target), Decode(u).target)
      BY <1>1, <1>11, <2>1, JsrHasTarget, Zenon
    <3> QED
      BY <1>1, <1>11, <2>1, <3>1, JsrOffsetReassembles, Zenon
  <2>2. CASE ~OffsetMode(word)
    BY <1>1, <1>11, <2>2, JsrReassembles, Zenon
  <2> QED
    BY <2>1, <2>2
<1>12. CASE code = OP_BR
  <2>1. CASE FieldDR(word) = 0
    BY <1>1, <1>12, <2>1, NeverReassembles, Zenon
  <2>2. CASE FieldDR(word) # 0
    <3>1. Reaches(address, Decode(u).target)
          /\ Resolves(table, Mint(Decode(u).target), Decode(u).target)
      BY <1>1, <1>12, <2>2, BrHasTarget, Zenon
    <3> QED
      BY <1>1, <1>12, <2>2, <3>1, BrReassembles, Zenon
  <2> QED
    BY <2>1, <2>2
<1> HIDE DEF code, u
<1> QED
  BY <1>2, <1>3, <1>4, <1>5, <1>6, <1>7, <1>8, <1>9, <1>10, <1>11, <1>12

-----------------------------------------------------------------------------
(* A target on the other side of the end of memory. *)

(* An error in one field is an error in the whole instruction. *)
LEMMA ErrorInstruction ==
  ASSUME NEW code \in Int, 0 <= code, NEW a \in Int, 0 <= a
  PROVE  Instruction(code, a, 0, Error) = Error
<1>1. \A y, factor : y \in Int /\ 0 <= y => With(Error, y, factor) = Error
  BY DEF With, Worse, Error
<1>2. /\ With(Error, 0, 64) = Error /\ With(Error, a, 512) = Error
      /\ With(Error, code, 4096) = Error
  BY <1>1
<1> QED
  BY <1>2 DEF Instruction

(* Once around, the distance is more than an offset holds. *)
LEMMA BeyondIsFar ==
  ASSUME NEW off \in Int, -1024 <= off, off <= 1023, NEW address \in Word,
         NEW target, target = Wrap(address + 1 + off), target # address + 1 + off
  PROVE  \/ target - (address + 1) > 1023
         \/ target - (address + 1) < -1024
<1>1. /\ address \in Int /\ 0 <= address /\ address <= 65535
      /\ WORD_MAX \in Int /\ 65535 < WORD_MAX /\ WORD_MAX < 65537
  BY WordBounds, WordMax
<1>2. CASE address + 1 + off < 0
  <2>1. (address + 1 + off) % WORD_MAX = address + 1 + off + WORD_MAX
    BY <1>1, <1>2
  <2> QED
    BY <1>1, <2>1 DEF Wrap
<1>3. CASE address + 1 + off >= WORD_MAX
  <2>1. (address + 1 + off) % WORD_MAX = address + 1 + off - WORD_MAX
    BY <1>1, <1>3
  <2> QED
    BY <1>1, <2>1 DEF Wrap
<1>4. CASE 0 <= address + 1 + off /\ address + 1 + off < WORD_MAX
  <2>1. (address + 1 + off) % WORD_MAX = address + 1 + off
    BY <1>1, <1>4
  <2> QED
    BY <2>1 DEF Wrap
<1> QED
  BY <1>1, <1>2, <1>3, <1>4

LEMMA FarIsError ==
  ASSUME NEW far \in Int, far > 1023 \/ far < -1024, NEW span \in {512, 2048}
  PROVE  ImmediateBits(far, span) = Error
<1>1. span \div 2 \in {256, 1024}
  OBVIOUS
<1>2. ~(far \in -(span \div 2) .. span \div 2 - 1)
  BY <1>1
<1> QED
  BY <1>2 DEF ImmediateBits

(* The label of a target is looked up. *)
LEMMA TargetLooked ==
  ASSUME NEW target \in Word, NEW table, Resolves(table, Mint(target), target),
         NEW address, NEW span
  PROVE  PcOffset(table, BuildOperand(Mint(target)), address, span)
           = ImmediateBits(target - (address + 1), span)
<1>1. ASSUME NEW operand, operand = Label(Mint(target), PointerBits)
      PROVE  SymbolOf(table, operand) = target
  <2>1. operand.type = "label" /\ operand.label = Mint(target)
    BY <1>1 DEF Label
  <2>2. Missing.type = "register"
    BY DEF Missing, Register
  <2>3. operand # Missing /\ operand.type # "integer"
    BY <2>1, <2>2
  <2> QED
    BY <2>1, <2>3 DEF SymbolOf, Resolves
<1>2. SymbolOf(table, BuildOperand(Mint(target))) = target
  BY <1>1, MintReadBack
<1>3. ~(target < 0)
  BY WordBounds
<1> QED
  BY <1>2, <1>3 DEF PcOffset

LEMMA ReturnsError ==
  ASSUME NEW word \in Word, NEW address \in Word, NEW span \in {512, 2048},
         NEW table, NEW line, NEW d, NEW code \in Int, 0 <= code,
         NEW a \in Int, 0 <= a,
         Returns(line, d, word, address, table, code, a, span),
         Resolves(table, Mint(d.target), d.target),
         d.target # address + 1 + SignedField(word, span)
  PROVE  MachineCodes(Reread(line), table, address) = <<Error>>
<1> DEFINE off == SignedField(word, span)
           target == d.target
           far == target - (address + 1)
<1>1. off \in Int /\ -1024 <= off /\ off <= 1023
  BY SignedFieldBounds
<1>2. target = Wrap(address + 1 + off) /\ target # address + 1 + off
      /\ target \in Word
  BY TargetNamed DEF Returns, Targets
<1>3. PcOffset(table, BuildOperand(Mint(target)), address, span)
        = ImmediateBits(far, span)
  BY <1>2, TargetLooked
<1>4. MachineCodes(Reread(line), table, address)
        = <<Instruction(code, a, 0,
              PcOffset(table, BuildOperand(Mint(target)), address, span))>>
  BY DEF Returns
<1> HIDE DEF off, target
<1>5. far > 1023 \/ far < -1024
  BY <1>1, <1>2, BeyondIsFar
<1>6. far \in Int
  BY <1>2, WordBounds
<1> HIDE DEF far
<1>7. ImmediateBits(far, span) = Error
  BY <1>5, <1>6, FarIsError
<1> QED
  BY <1>3, <1>4, <1>7, ErrorInstruction

(* Which operations have a target. *)
LEMMA WithoutTarget ==
  ASSUME NEW word, NEW address, NEW name, NEW operands
  PROVE  /\ Data(Undecoded(word, address)).has_target = FALSE
         /\ Decoded(Undecoded(word, address), name, operands).has_target = FALSE
  BY DEF Data, Decoded, Undecoded

(* The decoders of the others leave has_target alone. *)
LEMMA OthersHaveNoTarget ==
  ASSUME NEW word, NEW address, NEW u, u = Undecoded(word, address)
  PROVE  /\ ~DecodeArithmetic(u).has_target /\ ~DecodeNot(u).has_target
         /\ ~DecodeJmp(u).has_target /\ ~DecodeBaseOffset(u).has_target
         /\ ~DecodeTrap(u).has_target /\ ~DecodeRti(u).has_target
         /\ ~Data(u).has_target
         /\ ~OffsetMode(u.word) => ~DecodeJsr(u).has_target
         /\ FieldDR(u.word) = 0 => ~DecodeBr(u).has_target
<1>1. /\ ~Data(u).has_target
      /\ \A name, operands : ~Decoded(u, name, operands).has_target
  BY WithoutTarget
<1>2. ~DecodeArithmetic(u).has_target
  BY <1>1, Zenon DEF DecodeArithmetic
<1>3. ~DecodeNot(u).has_target
  BY <1>1, Zenon DEF DecodeNot
<1>4. ~DecodeJmp(u).has_target
  BY <1>1, Zenon DEF DecodeJmp
<1>5. ~DecodeBaseOffset(u).has_target
  BY <1>1, Zenon DEF DecodeBaseOffset
<1>6. ~DecodeTrap(u).has_target
  BY <1>1, Zenon DEF DecodeTrap
<1>7. ~DecodeRti(u).has_target
  BY <1>1 DEF DecodeRti
<1>8. ~OffsetMode(u.word) => ~DecodeJsr(u).has_target
  BY <1>1, Zenon DEF DecodeJsr
<1>9. FieldDR(u.word) = 0 => ~DecodeBr(u).has_target
  BY <1>1, Zenon DEF DecodeBr
<1> QED
  BY <1>1, <1>2, <1>3, <1>4, <1>5, <1>6, <1>7, <1>8, <1>9

(* A line with a target is read back as what one of three encoders makes of
   the label. *)
LEMMA TargetReturns ==
  ASSUME NEW word \in Word, NEW address \in Word, NEW table, NEW line, NEW d,
         d = Decode(Undecoded(word, address)), Shows(line, d), d.has_target
  PROVE  \E code \in Nat, a \in Nat, span \in {512, 2048} :
           Returns(line, d, word, address, table, code, a, span)
<1> DEFINE u == Undecoded(word, address)
           code == Opcode(word)
           Made(c, a, span) == Returns(line, d, word, address, table, c, a, span)
<1>1. /\ code \in {OP_ADD, OP_AND} => d = DecodeArithmetic(u)
      /\ code = OP_NOT => d = DecodeNot(u)
      /\ code = OP_BR => d = DecodeBr(u)
      /\ code = OP_JMP => d = DecodeJmp(u)
      /\ code = OP_JSR => d = DecodeJsr(u)
      /\ code \in {OP_LD, OP_LDI, OP_LEA, OP_ST, OP_STI} => d = DecodePcRelative(u)
      /\ code \in {OP_LDR, OP_STR} => d = DecodeBaseOffset(u)
      /\ code = OP_TRAP => d = DecodeTrap(u)
      /\ code = OP_RTI => d = DecodeRti(u)
      /\ code = OP_RES => d = Data(u)
  <2>1. u.word = word
    BY UndecodedFields
  <2> HIDE DEF u
  <2> QED
    BY <2>1, DecoderOf DEF u
<1>2. \/ code \in {OP_ADD, OP_AND, OP_NOT, OP_JMP, OP_TRAP, OP_RTI, OP_RES}
      \/ code \in {OP_LDR, OP_STR, OP_BR, OP_JSR}
      \/ code \in {OP_LD, OP_LDI, OP_LEA, OP_ST, OP_STI}
  BY WordFields DEF OP_BR, OP_ADD, OP_LD, OP_ST, OP_JSR, OP_AND, OP_LDR, OP_STR,
                    OP_RTI, OP_NOT, OP_LDI, OP_STI, OP_JMP, OP_RES, OP_LEA, OP_TRAP
<1>3. /\ ~DecodeArithmetic(u).has_target /\ ~DecodeNot(u).has_target
      /\ ~DecodeJmp(u).has_target /\ ~DecodeBaseOffset(u).has_target
      /\ ~DecodeTrap(u).has_target /\ ~DecodeRti(u).has_target
      /\ ~Data(u).has_target
      /\ ~OffsetMode(word) => ~DecodeJsr(u).has_target
      /\ FieldDR(word) = 0 => ~DecodeBr(u).has_target
  <2>1. u.word = word
    BY UndecodedFields
  <2> QED
    BY <2>1, OthersHaveNoTarget, Zenon
<1>4. /\ Opcode(word) \in Nat /\ FieldDR(word) \in Nat
      /\ OP_JSR \in Nat /\ OP_BR \in Nat /\ 4 \in Nat
      /\ 512 \in {512, 2048} /\ 2048 \in {512, 2048}
  BY WordFields DEF OP_JSR, OP_BR
<1>5. CASE code \in {OP_LD, OP_LDI, OP_LEA, OP_ST, OP_STI}
  <2>1. Made(Opcode(word), FieldDR(word), 512)
    BY <1>1, <1>5, PcRelativeReturns
  <2> HIDE DEF Made
  <2> QED
    BY <1>4, <2>1 DEF Made
<1>6. CASE code = OP_JSR
  <2>1. OffsetMode(word)
    BY <1>1, <1>3, <1>6, Zenon
  <2>2. Made(OP_JSR, 4, 2048)
    BY <1>1, <1>6, <2>1, JsrOffsetReturns
  <2> HIDE DEF Made
  <2> QED
    BY <1>4, <2>2 DEF Made
<1>7. CASE code = OP_BR
  <2>1. FieldDR(word) # 0
    BY <1>1, <1>3, <1>7, Zenon
  <2>2. Made(OP_BR, FieldDR(word), 512)
    BY <1>1, <1>7, <2>1, BrReturns, Zenon
  <2> HIDE DEF Made
  <2> QED
    BY <1>4, <2>2 DEF Made
<1> HIDE DEF code, u
<1> QED
  BY <1>1, <1>2, <1>3, <1>5, <1>6, <1>7

-----------------------------------------------------------------------------
(* One line. *)

\* d has the fields of a DisassemblyInstruction and no others.
IsLine(d) ==
  d = [word |-> d.word, address |-> d.address, label |-> d.label,
       operation |-> d.operation, conditions |-> d.conditions,
       operands |-> d.operands, has_target |-> d.has_target,
       target |-> d.target, reference_label |-> d.reference_label]

\* The two differ in their labels only.
Same(d, e) ==
  /\ d.word = e.word /\ d.address = e.address
  /\ d.operation = e.operation /\ d.conditions = e.conditions
  /\ d.operands = e.operands
  /\ d.has_target = e.has_target /\ d.target = e.target

PutLabel(d, label) == [d EXCEPT !.label = label]
PutReference(d, label) == [d EXCEPT !.reference_label = label]

\* The members of d by name.
Members(d, w, a, l, o, c, p, h, t, r) ==
  d = [word |-> w, address |-> a, label |-> l, operation |-> o,
       conditions |-> c, operands |-> p, has_target |-> h, target |-> t,
       reference_label |-> r]

LEMMA LineFields ==
  ASSUME NEW d, NEW w, NEW a, NEW l, NEW o, NEW c, NEW p, NEW h, NEW t, NEW r,
         d = [word |-> w, address |-> a, label |-> l, operation |-> o,
              conditions |-> c, operands |-> p, has_target |-> h, target |-> t,
              reference_label |-> r]
  PROVE  IsLine(d)
  BY DEF IsLine

LEMMA LineMembers ==
  ASSUME NEW d, IsLine(d)
  PROVE  \E w, a, l, o, c, p, h, t, r : Members(d, w, a, l, o, c, p, h, t, r)
<1>1. Members(d, d.word, d.address, d.label, d.operation, d.conditions,
              d.operands, d.has_target, d.target, d.reference_label)
  BY DEF IsLine, Members
<1> QED
  BY <1>1, Zenon

LEMMA SameTrans ==
  ASSUME NEW d, NEW e, NEW f, Same(d, e), Same(e, f)
  PROVE  Same(d, f)
  BY DEF Same

LEMMA LabelPut ==
  ASSUME NEW d, IsLine(d), NEW label
  PROVE  /\ IsLine(PutLabel(d, label)) /\ Same(PutLabel(d, label), d)
         /\ PutLabel(d, label).label = label
         /\ PutLabel(d, label).reference_label = d.reference_label
<1>1. PutLabel(d, label)
        = [word |-> d.word, address |-> d.address, label |-> label,
           operation |-> d.operation, conditions |-> d.conditions,
           operands |-> d.operands, has_target |-> d.has_target,
           target |-> d.target, reference_label |-> d.reference_label]
  BY DEF IsLine, PutLabel
<1>2. IsLine(PutLabel(d, label))
  BY <1>1, LineFields
<1> QED
  BY <1>1, <1>2 DEF Same

LEMMA ReferencePut ==
  ASSUME NEW d, IsLine(d), NEW label
  PROVE  /\ IsLine(PutReference(d, label)) /\ Same(PutReference(d, label), d)
         /\ PutReference(d, label).reference_label = label
         /\ PutReference(d, label).label = d.label
<1>1. PutReference(d, label)
        = [word |-> d.word, address |-> d.address, label |-> d.label,
           operation |-> d.operation, conditions |-> d.conditions,
           operands |-> d.operands, has_target |-> d.has_target,
           target |-> d.target, reference_label |-> label]
  BY DEF IsLine, PutReference
<1>2. IsLine(PutReference(d, label))
  BY <1>1, LineFields
<1> QED
  BY <1>1, <1>2 DEF Same

\* What Data leaves of a line, with the members of the line by name.
LEMMA DataFields ==
  ASSUME NEW w, NEW a, NEW l, NEW o, NEW c, NEW p, NEW h, NEW t, NEW r, NEW d,
         Members(d, w, a, l, o, c, p, h, t, r)
  PROVE  /\ IsLine(Data(d)) /\ Data(d).word = d.word
         /\ Data(d).address = d.address /\ Data(d).label = d.label
         /\ Data(d).reference_label = d.reference_label
         /\ Shape(Data(d), ".FILL", {}, <<Hexadecimal("x", Hex4(d.word))>>, FALSE)
<1>1. ASSUME NEW e, e = Data(d)
      PROVE  /\ IsLine(e) /\ e.word = w /\ e.address = a /\ e.label = l
             /\ Shape(e, ".FILL", {}, <<Hexadecimal("x", Hex4(w))>>, FALSE)
             /\ e.reference_label = r
  BY <1>1 DEF Data, IsLine, Shape, Members
<1>2. d.word = w /\ d.address = a /\ d.label = l /\ d.reference_label = r
  BY DEF Members
<1> QED
  BY <1>1, <1>2, Zenon

LEMMA DataPut ==
  ASSUME NEW d, IsLine(d)
  PROVE  /\ IsLine(Data(d))
         /\ Data(d).word = d.word /\ Data(d).address = d.address
         /\ Data(d).label = d.label
         /\ Data(d).reference_label = d.reference_label
         /\ Data(d).has_target = FALSE
         /\ Shows(Data(d), Data(Undecoded(d.word, d.address)))
<1>1. /\ IsLine(Data(d)) /\ Data(d).word = d.word
      /\ Data(d).address = d.address /\ Data(d).label = d.label
      /\ Data(d).reference_label = d.reference_label
      /\ Shape(Data(d), ".FILL", {}, <<Hexadecimal("x", Hex4(d.word))>>, FALSE)
  <2>1. PICK w, a, l, o, c, p, h, t, r : Members(d, w, a, l, o, c, p, h, t, r)
    BY LineMembers, Zenon
  <2> QED
    BY <2>1, DataFields, Zenon
<1>2. Shape(Data(Undecoded(d.word, d.address)), ".FILL", {},
            <<Hexadecimal("x", Hex4(d.word))>>, FALSE)
  BY DataShape
<1>3. Shows(Data(d), Data(Undecoded(d.word, d.address)))
  BY <1>1, <1>2 DEF Shape, Shows
<1> QED
  BY <1>1, <1>3 DEF Shape

-----------------------------------------------------------------------------
(* A line as the decoders leave it. *)

\* The offset fits a field of 11 bits.
Short(offset) == offset \in Int /\ -1024 <= offset /\ offset <= 1023

\* A short offset leads from the address to the target, round the end of
\* memory if need be.
Near(address, target) ==
  \E offset : Short(offset) /\ target = Wrap(address + 1 + offset)

Opened(d, word, address) ==
  /\ IsLine(d) /\ d.word = word /\ d.address = address
  /\ d.label = NoLabel
  /\ d.has_target \in BOOLEAN
  /\ d.has_target => d.target \in Word /\ Near(address, d.target)

LEMMA UndecodedOpened ==
  ASSUME NEW word, NEW address
  PROVE  Opened(Undecoded(word, address), word, address)
<1>1. ASSUME NEW d, d = Undecoded(word, address)
      PROVE  Opened(d, word, address)
  BY <1>1 DEF Undecoded, Opened, IsLine
<1> QED
  BY <1>1

LEMMA DataOpened ==
  ASSUME NEW word, NEW address, NEW d, Opened(d, word, address)
  PROVE  Opened(Data(d), word, address)
<1>1. IsLine(d)
  BY DEF Opened
<1>2. /\ IsLine(Data(d)) /\ Data(d).word = d.word
      /\ Data(d).address = d.address /\ Data(d).label = d.label
      /\ Data(d).has_target = FALSE
  BY <1>1, DataPut
<1> QED
  BY <1>2 DEF Opened

LEMMA DecodedFields ==
  ASSUME NEW w, NEW a, NEW l, NEW o, NEW c, NEW p, NEW h, NEW t, NEW r, NEW d,
         NEW name, NEW operands, Members(d, w, a, l, o, c, p, h, t, r)
  PROVE  /\ IsLine(Decoded(d, name, operands))
         /\ Decoded(d, name, operands).word = d.word
         /\ Decoded(d, name, operands).address = d.address
         /\ Decoded(d, name, operands).label = d.label
         /\ Decoded(d, name, operands).has_target = d.has_target
         /\ Decoded(d, name, operands).target = d.target
<1>1. ASSUME NEW e, e = Decoded(d, name, operands)
      PROVE  /\ IsLine(e) /\ e.word = w /\ e.address = a /\ e.label = l
             /\ e.has_target = h /\ e.target = t
  BY <1>1 DEF Decoded, IsLine, Members
<1>2. /\ d.word = w /\ d.address = a /\ d.label = l
      /\ d.has_target = h /\ d.target = t
  BY DEF Members
<1> QED
  BY <1>1, <1>2, Zenon

LEMMA DecodedOpened ==
  ASSUME NEW word, NEW address, NEW d, Opened(d, word, address),
         NEW name, NEW operands
  PROVE  Opened(Decoded(d, name, operands), word, address)
<1>1. IsLine(d)
  BY DEF Opened
<1>2. PICK w, a, l, o, c, p, h, t, r :
        Members(d, w, a, l, o, c, p, h, t, r)
  BY <1>1, LineMembers, Zenon
<1>3. /\ IsLine(Decoded(d, name, operands))
      /\ Decoded(d, name, operands).word = d.word
      /\ Decoded(d, name, operands).address = d.address
      /\ Decoded(d, name, operands).label = d.label
      /\ Decoded(d, name, operands).has_target = d.has_target
      /\ Decoded(d, name, operands).target = d.target
  BY <1>2, DecodedFields
<1> QED
  BY <1>3 DEF Opened

LEMMA LettersOpened ==
  ASSUME NEW word, NEW address, NEW d, Opened(d, word, address), NEW letters
  PROVE  Opened([d EXCEPT !.conditions = letters], word, address)
<1>1. IsLine(d)
  BY DEF Opened
<1>2. [d EXCEPT !.conditions = letters]
        = [word |-> d.word, address |-> d.address, label |-> d.label,
           operation |-> d.operation, conditions |-> letters,
           operands |-> d.operands, has_target |-> d.has_target,
           target |-> d.target, reference_label |-> d.reference_label]
  BY <1>1 DEF IsLine
<1>3. IsLine([d EXCEPT !.conditions = letters])
  BY <1>2, LineFields
<1> QED
  BY <1>2, <1>3 DEF Opened

LEMMA TargetFields ==
  ASSUME NEW w, NEW a, NEW l, NEW o, NEW c, NEW p, NEW h, NEW t, NEW r, NEW d,
         Members(d, w, a, l, o, c, p, h, t, r),
         NEW span
  PROVE  /\ IsLine(WithTarget(d, span))
         /\ WithTarget(d, span).word = d.word
         /\ WithTarget(d, span).address = d.address
         /\ WithTarget(d, span).label = d.label
         /\ WithTarget(d, span).has_target = TRUE
         /\ WithTarget(d, span).target
              = Wrap(d.address + 1 + SignedField(d.word, span))
<1>1. ASSUME NEW e, e = WithTarget(d, span)
      PROVE  /\ IsLine(e) /\ e.word = w /\ e.address = a /\ e.label = l
             /\ e.has_target = TRUE
             /\ e.target = Wrap(a + 1 + SignedField(w, span))
  BY <1>1 DEF WithTarget, IsLine, Members
<1>2. /\ d.word = w /\ d.address = a /\ d.label = l
      /\ d.has_target = h /\ d.target = t
  BY DEF Members
<1> QED
  BY <1>1, <1>2, Zenon

LEMMA TargetOpened ==
  ASSUME NEW word, NEW address \in Word, NEW d, Opened(d, word, address),
         NEW span, Short(SignedField(word, span))
  PROVE  Opened(WithTarget(d, span), word, address)
<1>1. IsLine(d)
  BY DEF Opened
<1>2. PICK w, a, l, o, c, p, h, t, r :
        Members(d, w, a, l, o, c, p, h, t, r)
  BY <1>1, LineMembers, Zenon
<1>3. /\ IsLine(WithTarget(d, span))
      /\ WithTarget(d, span).word = d.word
      /\ WithTarget(d, span).address = d.address
      /\ WithTarget(d, span).label = d.label
      /\ WithTarget(d, span).has_target = TRUE
      /\ WithTarget(d, span).target
           = Wrap(d.address + 1 + SignedField(d.word, span))
  BY <1>2, TargetFields, Zenon
<1>4. d.word = word /\ d.address = address /\ d.label = NoLabel
  BY DEF Opened
<1>5. Wrap(address + 1 + SignedField(word, span)) \in Word
  BY WordBounds, WrapType DEF Short
<1>6. /\ WithTarget(d, span).target \in Word
      /\ Near(address, WithTarget(d, span).target)
  BY <1>3, <1>4, <1>5 DEF Near
<1>7. WithTarget(d, span).has_target \in BOOLEAN
  BY <1>3
<1> QED
  BY <1>3, <1>4, <1>6, <1>7 DEF Opened

LEMMA FreshOpened ==
  ASSUME NEW word \in Word, NEW address \in Word
  PROVE  Opened(Decode(Undecoded(word, address)), word, address)
<1> DEFINE u == Undecoded(word, address)
           short == 512
           long == 2048
<1>1. /\ u.word = word
      /\ Short(SignedField(word, short)) /\ Short(SignedField(word, long))
  BY UndecodedFields, SignedFieldBounds DEF Short
<1>2. /\ Opened(u, word, address) /\ Opened(Data(u), word, address)
      /\ \A name, operands : Opened(Decoded(u, name, operands), word, address)
  BY UndecodedOpened, DataOpened, DecodedOpened
<1> HIDE DEF u
<1>3. /\ Opened(DecodeArithmetic(u), word, address)
      /\ Opened(DecodeNot(u), word, address)
      /\ Opened(DecodeJmp(u), word, address)
      /\ Opened(DecodeBaseOffset(u), word, address)
      /\ Opened(DecodeTrap(u), word, address)
      /\ Opened(DecodeRti(u), word, address)
  BY <1>2 DEF DecodeArithmetic, DecodeNot, DecodeJmp, DecodeBaseOffset,
              DecodeTrap, DecodeRti
<1>4. Opened(DecodePcRelative(u), word, address)
  <2>1. DecodePcRelative(u)
          = WithTarget(Decoded(u, NameOf(u), <<FirstRegister(u)>>), short)
    BY DEF DecodePcRelative
  <2>2. Opened(Decoded(u, NameOf(u), <<FirstRegister(u)>>), word, address)
    BY <1>2
  <2> HIDE DEF short, long
  <2> QED
    BY <1>1, <2>1, <2>2, TargetOpened
<1>5. Opened(DecodeJsr(u), word, address)
  <2>1. CASE OffsetMode(u.word)
    <3>1. DecodeJsr(u) = WithTarget(Decoded(u, NameOf(u), <<>>), long)
      BY <2>1 DEF DecodeJsr
    <3>2. Opened(Decoded(u, NameOf(u), <<>>), word, address)
      BY <1>2
    <3> HIDE DEF short, long
    <3> QED
      BY <1>1, <3>1, <3>2, TargetOpened
  <2>2. CASE ~OffsetMode(u.word)
    BY <1>2, <2>2 DEF DecodeJsr
  <2> QED
    BY <2>1, <2>2
<1>6. Opened(DecodeBr(u), word, address)
  <2> DEFINE letters == {c \in {"N", "Z", "P"} :
                           BitAnd(FieldDR(u.word), BranchMask({c})) # 0}
  <2>1. CASE FieldDR(u.word) # 0
    <3>1. DecodeBr(u) = WithTarget([Decoded(u, NameOf(u), <<>>)
                                      EXCEPT !.conditions = letters], short)
      BY <2>1, Zenon DEF DecodeBr
    <3> HIDE DEF letters
    <3>2. Opened([Decoded(u, NameOf(u), <<>>) EXCEPT !.conditions = letters],
                 word, address)
      BY <1>2, LettersOpened, Zenon
    <3> HIDE DEF short, long
    <3> QED
      BY <1>1, <3>1, <3>2, TargetOpened
  <2>2. CASE FieldDR(u.word) = 0
    BY <1>2, <2>2, Zenon DEF DecodeBr
  <2> QED
    BY <2>1, <2>2
<1>7. Opened(Decode(u), word, address)
  <2> DEFINE code == Opcode(u.word)
  <2>1. /\ code \in {OP_ADD, OP_AND} => Decode(u) = DecodeArithmetic(u)
        /\ code = OP_NOT => Decode(u) = DecodeNot(u)
        /\ code = OP_BR => Decode(u) = DecodeBr(u)
        /\ code = OP_JMP => Decode(u) = DecodeJmp(u)
        /\ code = OP_JSR => Decode(u) = DecodeJsr(u)
        /\ code \in {OP_LD, OP_LDI, OP_LEA, OP_ST, OP_STI} =>
             Decode(u) = DecodePcRelative(u)
        /\ code \in {OP_LDR, OP_STR} => Decode(u) = DecodeBaseOffset(u)
        /\ code = OP_TRAP => Decode(u) = DecodeTrap(u)
        /\ code = OP_RTI => Decode(u) = DecodeRti(u)
        /\ code = OP_RES => Decode(u) = Data(u)
    BY DEF Decode, OP_BR, OP_ADD, OP_LD, OP_ST, OP_JSR, OP_AND, OP_LDR,
           OP_STR, OP_RTI, OP_NOT, OP_LDI, OP_STI, OP_JMP, OP_RES, OP_LEA,
           OP_TRAP
  <2>2. /\ code \in Int /\ 0 <= code /\ code <= 15
    BY <1>1, WordFields
  <2> HIDE DEF code
  <2>3. \/ code \in {OP_ADD, OP_AND, OP_NOT, OP_JMP, OP_TRAP, OP_RTI, OP_RES}
        \/ code \in {OP_LDR, OP_STR, OP_BR, OP_JSR}
        \/ code \in {OP_LD, OP_LDI, OP_LEA, OP_ST, OP_STI}
    BY <2>2 DEF OP_BR, OP_ADD, OP_LD, OP_ST, OP_JSR, OP_AND, OP_LDR, OP_STR,
                OP_RTI, OP_NOT, OP_LDI, OP_STI, OP_JMP, OP_RES, OP_LEA, OP_TRAP
  <2> QED
    BY <1>2, <1>3, <1>4, <1>5, <1>6, <2>1, <2>3
<1> QED
  BY <1>7 DEF u

-----------------------------------------------------------------------------
(* Arrays of lines. *)

IsArray(s) == \E S : s \in Seq(S)

Replaced(s, i, v) == [s EXCEPT ![i] = v]

LEMMA ArrayReplaced ==
  ASSUME NEW s, IsArray(s), NEW i \in 1 .. Len(s), NEW v
  PROVE  /\ IsArray(Replaced(s, i, v)) /\ Len(Replaced(s, i, v)) = Len(s)
         /\ Replaced(s, i, v)[i] = v
         /\ \A j \in 1 .. Len(s) : j # i => Replaced(s, i, v)[j] = s[j]
<1>1. PICK S : s \in Seq(S)
  BY DEF IsArray
<1> DEFINE T == S \cup {v}
<1>2. s \in Seq(T)
  BY <1>1
<1>3. [s EXCEPT ![i] = v] \in Seq(T)
  BY <1>2
<1> QED
  BY <1>1, <1>2, <1>3 DEF IsArray, Replaced

LEMMA ArrayAppended ==
  ASSUME NEW s, IsArray(s), NEW v
  PROVE  /\ IsArray(Append(s, v)) /\ Len(Append(s, v)) = Len(s) + 1
         /\ Append(s, v)[Len(s) + 1] = v
         /\ \A j \in 1 .. Len(s) : Append(s, v)[j] = s[j]
<1>1. PICK S : s \in Seq(S)
  BY DEF IsArray
<1> DEFINE T == S \cup {v}
<1>2. s \in Seq(T) /\ v \in T
  BY <1>1
<1>3. Append(s, v) \in Seq(T)
  BY <1>2
<1> QED
  BY <1>2, <1>3 DEF IsArray

LEMMA ArrayLength ==
  ASSUME NEW s, IsArray(s)
  PROVE  Len(s) \in Nat /\ DOMAIN s = 1 .. Len(s)
  BY DEF IsArray

-----------------------------------------------------------------------------
(* The array of a disassembly. *)

\* The address of the n-th word, and its line before any label is known.
AddressAt(b, n) == Wrap(b + n - 1)
Fresh(ws, b, n) == Decode(Undecoded(ws[n], AddressAt(b, n)))

\* d is a line for the word, and labelled with its address if it has a label.
LineAt(d, word, address) ==
  /\ IsLine(d) /\ d.word = word /\ d.address = address
  /\ d.label \in {NoLabel, Mint(address)}

LinesOf(ws, b, ds) ==
  /\ IsArray(ds) /\ Len(ds) = Len(ws)
  /\ \A n \in 1 .. Len(ws) : LineAt(ds[n], ws[n], AddressAt(b, n))

InsideOf(ws, b, target) == target >= b /\ target < Wrap(b + Len(ws))

\* The line that refers to its target is done: the target's line is labelled.
Labelled(b, ds, n, target) ==
  /\ ds[n].reference_label = Mint(target)
  /\ ds[target - b + 1].label = Mint(target)

\* The labelling pass is done with line n.
LineSettled(ws, b, ds, n) ==
  LET f == Fresh(ws, b, n)
  IN  \/ /\ ~f.has_target /\ Same(ds[n], f)
      \/ /\ f.has_target /\ InsideOf(ws, b, f.target)
         /\ Same(ds[n], f) /\ Labelled(b, ds, n, f.target)
      \/ /\ f.has_target /\ ~InsideOf(ws, b, f.target)
         /\ Shows(ds[n], Data(Undecoded(ws[n], AddressAt(b, n))))

\* It is done with the lines before r.
Progress(ws, b, ds, r) ==
  /\ LinesOf(ws, b, ds)
  /\ \A n \in 1 .. Len(ws) : n < r => LineSettled(ws, b, ds, n)
  /\ \A n \in 1 .. Len(ws) : n >= r => Same(ds[n], Fresh(ws, b, n))

LEMMA FreshLine ==
  ASSUME NEW ws \in Seq(Word), NEW b \in Word, NEW n \in 1 .. Len(ws)
  PROVE  /\ ws[n] \in Word /\ AddressAt(b, n) \in Word
         /\ Opened(Fresh(ws, b, n), ws[n], AddressAt(b, n))
         /\ LineAt(Fresh(ws, b, n), ws[n], AddressAt(b, n))
<1>1. ws[n] \in Word /\ n \in Int
  OBVIOUS
<1>2. AddressAt(b, n) \in Word
  BY <1>1, WordBounds, WrapType DEF AddressAt
<1>3. Opened(Fresh(ws, b, n), ws[n], AddressAt(b, n))
  BY <1>1, <1>2, FreshOpened DEF Fresh
<1> QED
  BY <1>1, <1>2, <1>3 DEF Opened, LineAt

\* What is inside is a line, and its address is the target.
LEMMA InsideLine ==
  ASSUME NEW ws \in Seq(Word), NEW b \in Word, NEW target \in Word,
         InsideOf(ws, b, target)
  PROVE  /\ target - b + 1 \in 1 .. Len(ws)
         /\ AddressAt(b, target - b + 1) = target
<1>1. /\ b \in Int /\ 0 <= b /\ target \in Int /\ Len(ws) \in Nat
      /\ 0 <= target /\ target <= 65535
  BY WordBounds
<1>2. Wrap(b + Len(ws)) <= b + Len(ws) /\ Wrap(b + Len(ws)) \in Int
  <2>1. \A x \in Nat : x % 65536 <= x /\ x % 65536 \in Int
    OBVIOUS
  <2> QED
    BY <1>1, <2>1 DEF Wrap, WORD_MAX
<1>3. b + (target - b + 1) - 1 = target
  BY <1>1
<1> QED
  BY <1>1, <1>2, <1>3, WrapWord DEF InsideOf, AddressAt

\* The two arrays agree on everything that was done before line r.
Keeps(ds, es, r) ==
  \A n \in 1 .. Len(ds) :
    /\ ds[n].label # NoLabel => es[n].label = ds[n].label
    /\ n # r =>
         Same(es[n], ds[n]) /\ es[n].reference_label = ds[n].reference_label

LEMMA SettledKept ==
  ASSUME NEW ws \in Seq(Word), NEW b \in Word, NEW ds, NEW es, NEW r,
         LinesOf(ws, b, ds), Keeps(ds, es, r),
         NEW n \in 1 .. Len(ws), n # r, LineSettled(ws, b, ds, n)
  PROVE  LineSettled(ws, b, es, n)
<1> DEFINE f == Fresh(ws, b, n)
<1>1. /\ Same(es[n], ds[n]) /\ es[n].reference_label = ds[n].reference_label
      /\ n \in 1 .. Len(ds)
  BY DEF Keeps, LinesOf
<1>2. CASE ~f.has_target /\ Same(ds[n], f)
  <2>1. Same(es[n], f)
    BY <1>1, <1>2, SameTrans
  <2> QED
    BY <1>2, <2>1 DEF LineSettled
<1>3. CASE /\ f.has_target /\ InsideOf(ws, b, f.target)
           /\ Same(ds[n], f) /\ Labelled(b, ds, n, f.target)
  <2>1. Same(es[n], f)
    BY <1>1, <1>3, SameTrans
  <2>2. f.target \in Word
    BY <1>3, FreshLine DEF Opened
  <2>3. /\ f.target - b + 1 \in 1 .. Len(ds) /\ Mint(f.target) # NoLabel
    BY <1>3, <2>2, InsideLine, MintAssumption DEF LinesOf
  <2>4. Labelled(b, es, n, f.target)
    BY <1>1, <1>3, <2>3 DEF Labelled, Keeps
  <2> QED
    BY <1>3, <2>1, <2>4 DEF LineSettled
<1>4. CASE /\ f.has_target /\ ~InsideOf(ws, b, f.target)
           /\ Shows(ds[n], Data(Undecoded(ws[n], AddressAt(b, n))))
  <2>1. Shows(es[n], Data(Undecoded(ws[n], AddressAt(b, n))))
    BY <1>1, <1>4 DEF Same, Shows
  <2> QED
    BY <1>4, <2>1 DEF LineSettled
<1> HIDE DEF f
<1> QED
  BY <1>2, <1>3, <1>4 DEF LineSettled, f

LEMMA ProgressMade ==
  ASSUME NEW ws \in Seq(Word), NEW b \in Word, NEW ds, NEW es,
         NEW r \in 1 .. Len(ws), Progress(ws, b, ds, r),
         LinesOf(ws, b, es), Keeps(ds, es, r), LineSettled(ws, b, es, r)
  PROVE  Progress(ws, b, es, r + 1)
<1>1. LinesOf(ws, b, ds)
  BY DEF Progress
<1>2. ASSUME NEW n \in 1 .. Len(ws), n < r + 1
      PROVE  LineSettled(ws, b, es, n)
  <2>1. CASE n = r
    BY <2>1
  <2>2. CASE n # r
    <3>1. n < r
      BY <1>2, <2>2
    <3>2. LineSettled(ws, b, ds, n)
      BY <3>1 DEF Progress
    <3> QED
      BY <1>1, <2>2, <3>2, SettledKept
  <2> QED
    BY <2>1, <2>2
<1>3. ASSUME NEW n \in 1 .. Len(ws), n >= r + 1
      PROVE  Same(es[n], Fresh(ws, b, n))
  <2>1. n # r /\ n >= r
    BY <1>3
  <2>2. Same(ds[n], Fresh(ws, b, n))
    BY <2>1 DEF Progress
  <2>3. Same(es[n], ds[n])
    BY <1>1, <2>1 DEF Keeps, LinesOf
  <2> QED
    BY <2>2, <2>3, SameTrans
<1> QED
  BY <1>2, <1>3 DEF Progress

LEMMA SkipProgress ==
  ASSUME NEW ws \in Seq(Word), NEW b \in Word, NEW ds, NEW r \in 1 .. Len(ws),
         Progress(ws, b, ds, r), ~ds[r].has_target
  PROVE  Progress(ws, b, ds, r + 1)
<1>1. Same(ds[r], Fresh(ws, b, r)) /\ LinesOf(ws, b, ds)
  BY DEF Progress
<1>2. LineSettled(ws, b, ds, r)
  BY <1>1 DEF LineSettled, Same
<1>3. Keeps(ds, ds, r)
  BY DEF Keeps, Same
<1> QED
  BY <1>1, <1>2, <1>3, ProgressMade

LEMMA DemoteProgress ==
  ASSUME NEW ws \in Seq(Word), NEW b \in Word, NEW ds, NEW r \in 1 .. Len(ws),
         Progress(ws, b, ds, r),
         ds[r].has_target, ~InsideOf(ws, b, ds[r].target)
  PROVE  Progress(ws, b, [ds EXCEPT ![r] = Data(@)], r + 1)
<1> DEFINE es == Replaced(ds, r, Data(ds[r]))
<1>1. /\ Same(ds[r], Fresh(ws, b, r)) /\ LinesOf(ws, b, ds)
      /\ LineAt(ds[r], ws[r], AddressAt(b, r)) /\ IsArray(ds) /\ Len(ds) = Len(ws)
  BY DEF Progress, LinesOf
<1>2. /\ IsArray(es) /\ Len(es) = Len(ds) /\ es[r] = Data(ds[r])
      /\ \A j \in 1 .. Len(ds) : j # r => es[j] = ds[j]
  <2> DEFINE v == Data(ds[r])
  <2>1. r \in 1 .. Len(ds) /\ IsArray(ds)
    BY <1>1
  <2> HIDE DEF v
  <2> QED
    BY <2>1, ArrayReplaced
<1> HIDE DEF es
<1>3. /\ LineAt(es[r], ws[r], AddressAt(b, r)) /\ es[r].label = ds[r].label
      /\ Shows(es[r], Data(Undecoded(ws[r], AddressAt(b, r))))
  <2> DEFINE d == ds[r]
  <2>1. /\ IsLine(d) /\ d.word = ws[r] /\ d.address = AddressAt(b, r)
        /\ d.label \in {NoLabel, Mint(AddressAt(b, r))}
    BY <1>1 DEF LineAt
  <2> HIDE DEF d
  <2>2. /\ IsLine(Data(d)) /\ Data(d).word = d.word
        /\ Data(d).address = d.address /\ Data(d).label = d.label
        /\ Shows(Data(d), Data(Undecoded(d.word, d.address)))
    BY <2>1, DataPut, Zenon
  <2>3. es[r] = Data(d)
    BY <1>2 DEF d
  <2> QED
    BY <2>1, <2>2, <2>3 DEF LineAt, d
<1>4. LinesOf(ws, b, es)
  BY <1>1, <1>2, <1>3 DEF LinesOf
<1>5. Keeps(ds, es, r)
  BY <1>1, <1>2, <1>3 DEF Keeps, Same
<1>6. LineSettled(ws, b, es, r)
  BY <1>1, <1>3 DEF LineSettled, Same
<1>7. Progress(ws, b, es, r + 1)
  BY <1>4, <1>5, <1>6, ProgressMade
<1> QED
  BY <1>7 DEF es, Replaced

\* es is ds with v in place of line i.
Changed(ds, es, i, v) ==
  /\ IsArray(es) /\ Len(es) = Len(ds) /\ es[i] = v
  /\ \A j \in 1 .. Len(ds) : j # i => es[j] = ds[j]

LEMMA ReplacedChanged ==
  ASSUME NEW ds, IsArray(ds), NEW i \in 1 .. Len(ds), NEW v
  PROVE  Changed(ds, Replaced(ds, i, v), i, v)
  BY ArrayReplaced DEF Changed

\* The first change of the two: the label goes on the line of the target.
LEMMA TargetLabelled ==
  ASSUME NEW ws \in Seq(Word), NEW b \in Word, NEW ds, LinesOf(ws, b, ds),
         NEW target \in Word, NEW t \in 1 .. Len(ws), AddressAt(b, t) = target,
         NEW es, Changed(ds, es, t, PutLabel(ds[t], Mint(target)))
  PROVE  /\ LinesOf(ws, b, es) /\ es[t].label = Mint(target)
         /\ \A j \in 1 .. Len(ws) :
              /\ Same(es[j], ds[j])
              /\ es[j].reference_label = ds[j].reference_label
              /\ ds[j].label # NoLabel => es[j].label = ds[j].label
<1>1. /\ Len(ds) = Len(ws) /\ IsArray(es) /\ Len(es) = Len(ws)
      /\ \A j \in 1 .. Len(ws) : j # t => es[j] = ds[j]
      /\ es[t] = PutLabel(ds[t], Mint(target))
      /\ \A j \in 1 .. Len(ws) : LineAt(ds[j], ws[j], AddressAt(b, j))
  BY DEF Changed, LinesOf
<1>2. LineAt(ds[t], ws[t], target)
  BY <1>1
<1>3. IsLine(ds[t])
  BY <1>2 DEF LineAt
<1>4. /\ IsLine(es[t]) /\ Same(es[t], ds[t]) /\ es[t].label = Mint(target)
      /\ es[t].reference_label = ds[t].reference_label
  <2> DEFINE d == ds[t]
             label == Mint(target)
  <2>1. es[t] = PutLabel(d, label) /\ IsLine(d)
    BY <1>1, <1>3
  <2> HIDE DEF d, label
  <2>2. /\ IsLine(es[t]) /\ Same(es[t], d) /\ es[t].label = label
        /\ es[t].reference_label = d.reference_label
    BY ONLY <2>1, LabelPut
  <2> QED
    BY <2>2 DEF d, label
<1>5. LineAt(es[t], ws[t], target)
  BY <1>2, <1>4 DEF LineAt, Same
<1>6. ds[t].label # NoLabel => es[t].label = ds[t].label
  BY <1>2, <1>4 DEF LineAt
<1>7. LinesOf(ws, b, es)
  BY <1>1, <1>5 DEF LinesOf
<1>8. ASSUME NEW j \in 1 .. Len(ws)
      PROVE  /\ Same(es[j], ds[j])
             /\ es[j].reference_label = ds[j].reference_label
             /\ ds[j].label # NoLabel => es[j].label = ds[j].label
  <2>1. CASE j = t
    BY <1>4, <1>6, <2>1
  <2>2. CASE j # t
    BY <1>1, <2>2 DEF Same
  <2> QED
    BY <2>1, <2>2
<1> QED
  BY <1>4, <1>7, <1>8

\* The second: it goes on the line that refers to it.
Referred(ws, b, ds, es, r, label) ==
  /\ LinesOf(ws, b, es) /\ es[r].reference_label = label
  /\ \A j \in 1 .. Len(ws) :
       /\ Same(es[j], ds[j]) /\ es[j].label = ds[j].label
       /\ j # r => es[j].reference_label = ds[j].reference_label

LEMMA LineReferred ==
  ASSUME NEW ws \in Seq(Word), NEW b \in Word, NEW ds, LinesOf(ws, b, ds),
         NEW r \in 1 .. Len(ws), NEW label,
         NEW es, Changed(ds, es, r, PutReference(ds[r], label))
  PROVE  Referred(ws, b, ds, es, r, label)
<1>1. /\ Len(ds) = Len(ws) /\ IsArray(es) /\ Len(es) = Len(ws)
      /\ \A j \in 1 .. Len(ws) : j # r => es[j] = ds[j]
      /\ es[r] = PutReference(ds[r], label)
      /\ \A j \in 1 .. Len(ws) : LineAt(ds[j], ws[j], AddressAt(b, j))
  BY DEF Changed, LinesOf
<1>2. LineAt(ds[r], ws[r], AddressAt(b, r)) /\ IsLine(ds[r])
  BY <1>1 DEF LineAt
<1>3. /\ IsLine(es[r]) /\ Same(es[r], ds[r]) /\ es[r].label = ds[r].label
      /\ es[r].reference_label = label
  <2> DEFINE d == ds[r]
  <2>1. es[r] = PutReference(d, label) /\ IsLine(d)
    BY <1>1, <1>2
  <2> HIDE DEF d
  <2>2. /\ IsLine(es[r]) /\ Same(es[r], d) /\ es[r].label = d.label
        /\ es[r].reference_label = label
    BY ONLY <2>1, ReferencePut
  <2> QED
    BY <2>2 DEF d
<1>4. LineAt(es[r], ws[r], AddressAt(b, r))
  BY <1>2, <1>3 DEF LineAt, Same
<1>5. LinesOf(ws, b, es)
  BY <1>1, <1>4 DEF LinesOf
<1>6. ASSUME NEW j \in 1 .. Len(ws)
      PROVE  /\ Same(es[j], ds[j]) /\ es[j].label = ds[j].label
             /\ j # r => es[j].reference_label = ds[j].reference_label
  <2>1. CASE j = r
    BY <1>3, <2>1
  <2>2. CASE j # r
    BY <1>1, <2>2 DEF Same
  <2> QED
    BY <2>1, <2>2
<1> QED
  BY <1>3, <1>5, <1>6 DEF Referred

LEMMA LabelProgress ==
  ASSUME NEW ws \in Seq(Word), NEW b \in Word, NEW ds, NEW r \in 1 .. Len(ws),
         Progress(ws, b, ds, r), ds[r].has_target, NEW target \in Word,
         target = ds[r].target, InsideOf(ws, b, target),
         NEW t \in 1 .. Len(ws), t = target - b + 1, AddressAt(b, t) = target,
         NEW labelled, Changed(ds, labelled, t, PutLabel(ds[t], Mint(target))),
         NEW es, Changed(labelled, es, r,
                         PutReference(labelled[r], labelled[t].label))
  PROVE  Progress(ws, b, es, r + 1)
<1> DEFINE f == Fresh(ws, b, r)
<1>1. Same(ds[r], f) /\ LinesOf(ws, b, ds) /\ Len(ds) = Len(ws)
  BY DEF Progress, LinesOf
<1>2. f.has_target /\ f.target = target
  BY <1>1 DEF Same
<1> HIDE DEF f
<1>3. /\ LinesOf(ws, b, labelled) /\ labelled[t].label = Mint(target)
      /\ \A j \in 1 .. Len(ws) :
           /\ Same(labelled[j], ds[j])
           /\ labelled[j].reference_label = ds[j].reference_label
           /\ ds[j].label # NoLabel => labelled[j].label = ds[j].label
  BY <1>1, TargetLabelled
<1>4. /\ LinesOf(ws, b, es) /\ es[r].reference_label = Mint(target)
      /\ \A j \in 1 .. Len(ws) :
           /\ Same(es[j], labelled[j]) /\ es[j].label = labelled[j].label
           /\ j # r => es[j].reference_label = labelled[j].reference_label
  <2> DEFINE label == labelled[t].label
  <2>1. LinesOf(ws, b, labelled)
    BY <1>3
  <2>2. ws \in Seq(Word) /\ b \in Word /\ r \in 1 .. Len(ws)
    OBVIOUS
  <2>3. Changed(labelled, es, r, PutReference(labelled[r], label))
    OBVIOUS
  <2> HIDE DEF label
  <2>4. Referred(ws, b, labelled, es, r, label)
    BY ONLY <2>1, <2>2, <2>3, LineReferred
  <2> QED
    BY <1>3, <2>4 DEF Referred, label
<1>5. \A j \in 1 .. Len(ws) : Same(es[j], ds[j])
  BY <1>3, <1>4, SameTrans
<1>6. Keeps(ds, es, r)
  BY <1>1, <1>3, <1>4, <1>5 DEF Keeps
<1>7. LineSettled(ws, b, es, r)
  <2>1. Same(es[r], f)
    BY <1>1, <1>5, SameTrans
  <2>2. es[target - b + 1].label = Mint(target)
    BY <1>3, <1>4
  <2>3. Labelled(b, es, r, target)
    BY <1>4, <2>2 DEF Labelled
  <2> QED
    BY <1>2, <2>1, <2>3 DEF LineSettled, f
<1> QED
  BY <1>4, <1>6, <1>7, ProgressMade

-----------------------------------------------------------------------------
(* The decoding loop. *)

\* The words before r are decoded.
Decoding(ws, b, ds, r) ==
  /\ IsArray(ds) /\ Len(ds) = r - 1
  /\ \A n \in 1 .. Len(ds) : ds[n] = Fresh(ws, b, n)

LEMMA DecodeProgress ==
  ASSUME NEW ws \in Seq(Word), NEW b \in Word, NEW ds, NEW r \in 1 .. Len(ws),
         Decoding(ws, b, ds, r), NEW es, es = Append(ds, Fresh(ws, b, r))
  PROVE  Decoding(ws, b, es, r + 1)
<1>1. /\ IsArray(es) /\ Len(es) = Len(ds) + 1 /\ es[Len(ds) + 1] = Fresh(ws, b, r)
      /\ \A j \in 1 .. Len(ds) : es[j] = ds[j]
  BY ArrayAppended DEF Decoding
<1>2. Len(ds) = r - 1 /\ Len(es) = r /\ r \in Int
  BY <1>1 DEF Decoding
<1>3. ASSUME NEW n \in 1 .. Len(es)
      PROVE  es[n] = Fresh(ws, b, n)
  <2>1. CASE n = r
    BY <1>1, <1>2, <2>1
  <2>2. CASE n # r
    BY <1>1, <1>2, <2>2 DEF Decoding
  <2> QED
    BY <2>1, <2>2
<1> QED
  BY <1>1, <1>2, <1>3 DEF Decoding

LEMMA DecodingDone ==
  ASSUME NEW ws \in Seq(Word), NEW b \in Word, NEW ds, NEW r \in Int,
         r = Len(ws) + 1, Decoding(ws, b, ds, r), NEW first, first = 1
  PROVE  Progress(ws, b, ds, first)
<1>1. /\ IsArray(ds) /\ Len(ds) = Len(ws)
      /\ \A n \in 1 .. Len(ws) : ds[n] = Fresh(ws, b, n)
  BY DEF Decoding
<1>2. LinesOf(ws, b, ds)
  BY <1>1, FreshLine DEF LinesOf
<1>3. \A n \in 1 .. Len(ws) : ~(n < first)
  OBVIOUS
<1> QED
  BY <1>1, <1>2, <1>3 DEF Progress, Same

-----------------------------------------------------------------------------
(* The object file. *)

LEMMA WordsOfType ==
  ASSUME NEW bytes \in Seq(Byte)
  PROVE  WordsOf(bytes) \in Seq(Word)
<1> DEFINE size == Len(bytes) \div 2
<1>1. size \in Nat /\ 2 * size <= Len(bytes)
  OBVIOUS
<1>2. ASSUME NEW n \in 1 .. size
      PROVE  bytes[2 * n - 1] * 256 + bytes[2 * n] \in Word
  <2>1. 2 * n - 1 \in 1 .. Len(bytes) /\ 2 * n \in 1 .. Len(bytes)
    BY <1>1
  <2>2. \A k \in 1 .. Len(bytes) : bytes[k] \in Byte
    OBVIOUS
  <2>3. \A x \in Byte, y \in Byte : x * 256 + y \in Word
    <3>1. ASSUME NEW x \in Byte, NEW y \in Byte
          PROVE  /\ x * 256 + y \in Int
                 /\ 0 <= x * 256 + y /\ x * 256 + y <= 65535
      BY DEF Byte
    <3> QED
      BY <3>1, BoundedIsWord
  <2> QED
    BY <2>1, <2>2, <2>3
<1>3. WordsOf(bytes)
        = [n \in 1 .. size |-> bytes[2 * n - 1] * 256 + bytes[2 * n]]
  BY DEF WordsOf
<1> HIDE DEF size
<1> QED
  BY <1>1, <1>2, <1>3

-----------------------------------------------------------------------------
(* The invariant: how far the array is, stage by stage. *)

StagesOK ==
  /\ stage = "start" => words = <<>> /\ row = 1 /\ decoded = <<>>
  /\ stage = "decode" => Decoding(words, base, decoded, row)
  /\ stage = "label" => Progress(words, base, decoded, row)
  /\ stage = "open" => Progress(words, base, decoded, Len(words) + 1)
  /\ stage = "done" =>
       \/ words = <<>> /\ decoded = <<>> /\ result # "0"
       \/ Progress(words, base, decoded, Len(words) + 1)

FilesOK ==
  /\ image \in Seq(Byte) /\ base \in Word /\ words \in Seq(Word)
  /\ row \in 1 .. Len(words) + 1
  /\ stage \in Stages /\ result \in {"none", "0", "1", "2"}
  /\ stage # "done" => result = "none"

DisassemblerInv == FilesOK /\ StagesOK

LEMMA DisassemblerInvInit == DisassemblerInit => DisassemblerInv
<1> SUFFICES ASSUME DisassemblerInit PROVE DisassemblerInv
  OBVIOUS
<1>1. image \in Seq(Byte)
  BY ImagesAssumption DEF DisassemblerInit
<1>2. 0 \in Word
  BY BoundedIsWord
<1> QED
  BY <1>1, <1>2 DEF DisassemblerInit, DisassemblerInv, FilesOK, StagesOK, Stages

\* One step of the labelling pass that labels, in terms of the lemmas above.
LEMMA LabelStep ==
  ASSUME FilesOK, stage = "label", Progress(words, base, decoded, row),
         LabelTarget
  PROVE  Progress(words', base', decoded', row')
<1>1. /\ row \in 1 .. Len(words) /\ decoded[row].has_target
      /\ words' = words /\ base' = base /\ row' = row + 1
      /\ words \in Seq(Word) /\ base \in Word
  BY DEF LabelTarget, FilesOK
<1>2. LinesOf(words, base, decoded) /\ IsArray(decoded) /\ Len(decoded) = Len(words)
  BY DEF Progress, LinesOf
<1> DEFINE target == decoded[row].target
           t == target - base + 1
           label == IF decoded[t].label = NoLabel THEN Mint(target)
                    ELSE decoded[t].label
           labelled == Replaced(decoded, t, PutLabel(decoded[t], label))
           es == Replaced(labelled, row,
                          PutReference(labelled[row], labelled[t].label))
<1>3. target \in Word
  <2>1. Same(decoded[row], Fresh(words, base, row))
    BY <1>1 DEF Progress
  <2>2. Opened(Fresh(words, base, row), words[row], AddressAt(base, row))
    BY <1>1, FreshLine
  <2> QED
    BY <1>1, <2>1, <2>2 DEF Same, Opened
<1>4. InsideOf(words, base, target)
  BY DEF LabelTarget, Inside, InsideOf
<1>5. t \in 1 .. Len(words) /\ AddressAt(base, t) = target
  BY <1>1, <1>3, <1>4, InsideLine
<1>6. decoded' = es
  BY DEF LabelTarget, Replaced, PutLabel, PutReference
<1>7. label = Mint(target)
  <2>1. LineAt(decoded[t], words[t], target)
    BY <1>2, <1>5 DEF LinesOf
  <2> QED
    BY <2>1 DEF LineAt
<1>8. Changed(decoded, labelled, t, PutLabel(decoded[t], Mint(target)))
  <2>1. t \in 1 .. Len(decoded)
    BY <1>2, <1>5
  <2> HIDE DEF t, target, label
  <2> QED
    BY <1>2, <1>7, <2>1, ReplacedChanged
<1>9. Changed(labelled, es, row, PutReference(labelled[row], labelled[t].label))
  <2>1. IsArray(labelled) /\ row \in 1 .. Len(labelled)
    BY <1>1, <1>2, <1>8 DEF Changed
  <2> HIDE DEF t, target, label, labelled
  <2> QED
    BY <2>1, ReplacedChanged
<1>10. t = target - base + 1 /\ target = decoded[row].target
  OBVIOUS
<1> HIDE DEF t, target, label, labelled, es
<1>11. Progress(words, base, es, row + 1)
  BY <1>1, <1>3, <1>4, <1>5, <1>8, <1>9, <1>10, LabelProgress
<1> QED
  BY <1>1, <1>6, <1>11

LEMMA DisassemblerInvNext ==
  DisassemblerInv /\ [DisassemblerNext]_disassemblerVars => DisassemblerInv'
<1> SUFFICES ASSUME DisassemblerInv, [DisassemblerNext]_disassemblerVars
             PROVE  DisassemblerInv'
  OBVIOUS
<1> USE DEF DisassemblerInv
<1>1. /\ FilesOK /\ StagesOK /\ Len(words) \in Nat /\ row \in Int
      /\ WordsOf(image) \in Seq(Word)
  BY WordsOfType DEF FilesOK
<1>2. CASE DisassemblerUsage \/ ObjectMissing \/ ObjectTooShort
  BY <1>1, <1>2 DEF DisassemblerUsage, ObjectMissing, ObjectTooShort, Finish,
                    FilesOK, StagesOK, Stages
<1>3. CASE ObjectEmpty
  <2>1. base' \in Word
    BY <1>1, <1>3 DEF ObjectEmpty
  <2> QED
    BY <1>1, <1>3, <2>1 DEF ObjectEmpty, Finish, FilesOK, StagesOK, Stages
<1>4. CASE ReadObject
  <2>1. base' \in Word /\ words' \in Seq(Word) /\ Len(words') \in Nat
    BY <1>1, <1>4 DEF ReadObject
  <2>2. FilesOK'
    BY <1>1, <1>4, <2>1 DEF ReadObject, FilesOK, Stages
  <2>3. Decoding(words', base', decoded', row')
    <3>1. IsArray(<<>>) /\ Len(<<>>) = 0
      <4>1. <<>> \in Seq({})
        OBVIOUS
      <4> QED
        BY <4>1 DEF IsArray
    <3>2. decoded' = <<>> /\ row' = 1
      BY <1>1, <1>4 DEF ReadObject, StagesOK
    <3> QED
      BY <3>1, <3>2 DEF Decoding
  <2> QED
    BY <1>4, <2>2, <2>3 DEF ReadObject, StagesOK
<1>5. CASE DecodeWord
  <2>1. /\ row \in 1 .. Len(words) /\ words' = words /\ base' = base
        /\ row' = row + 1 /\ stage' = "decode" /\ stage = "decode"
        /\ result' = result /\ image' = image
    BY <1>1, <1>5 DEF DecodeWord, FilesOK
  <2>2. decoded' = Append(decoded, Fresh(words, base, row))
    BY <1>5 DEF DecodeWord, Fresh, AddressAt
  <2>3. Decoding(words, base, decoded, row)
    BY <1>1, <2>1 DEF StagesOK
  <2>4. Decoding(words, base, decoded', row + 1)
    BY <1>1, <2>1, <2>2, <2>3, DecodeProgress DEF FilesOK
  <2> QED
    BY <1>1, <2>1, <2>4 DEF FilesOK, StagesOK, Stages
<1>6. CASE EndDecode
  <2>1. /\ row = Len(words) + 1 /\ words' = words /\ base' = base /\ row' = 1
        /\ stage' = "label" /\ stage = "decode" /\ decoded' = decoded
        /\ result' = result /\ image' = image
    BY <1>1, <1>6 DEF EndDecode, FilesOK
  <2>2. Progress(words, base, decoded, row')
    BY <1>1, <2>1, DecodingDone DEF FilesOK, StagesOK
  <2> QED
    BY <1>1, <2>1, <2>2 DEF FilesOK, StagesOK, Stages
<1>7. CASE SkipLine
  <2>1. /\ row \in 1 .. Len(words) /\ words' = words /\ base' = base
        /\ row' = row + 1 /\ stage' = "label" /\ stage = "label"
        /\ decoded' = decoded /\ ~decoded[row].has_target
        /\ result' = result /\ image' = image
    BY <1>1, <1>7 DEF SkipLine, FilesOK
  <2>2. Progress(words, base, decoded, row + 1)
    BY <1>1, <2>1, SkipProgress DEF FilesOK, StagesOK
  <2> QED
    BY <1>1, <2>1, <2>2 DEF FilesOK, StagesOK, Stages
<1>8. CASE LabelTarget
  <2>1. /\ row \in 1 .. Len(words) /\ words' = words /\ base' = base
        /\ row' = row + 1 /\ stage' = "label" /\ stage = "label"
        /\ result' = result /\ image' = image
    BY <1>1, <1>8 DEF LabelTarget, FilesOK
  <2>2. Progress(words, base, decoded, row)
    BY <1>1, <2>1 DEF StagesOK
  <2>3. Progress(words', base', decoded', row')
    BY <1>1, <1>8, <2>1, <2>2, LabelStep
  <2> QED
    BY <1>1, <2>1, <2>3 DEF FilesOK, StagesOK, Stages
<1>9. CASE DemoteLine
  <2>1. /\ row \in 1 .. Len(words) /\ words' = words /\ base' = base
        /\ row' = row + 1 /\ stage' = "label" /\ stage = "label"
        /\ result' = result /\ image' = image
        /\ decoded[row].has_target
        /\ ~InsideOf(words, base, decoded[row].target)
        /\ decoded' = [decoded EXCEPT ![row] = Data(@)]
    BY <1>1, <1>9 DEF DemoteLine, FilesOK, Inside, InsideOf
  <2>2. Progress(words, base, decoded, row)
    BY <1>1, <2>1 DEF StagesOK
  <2>3. Progress(words, base, decoded', row + 1)
    BY <1>1, <2>1, <2>2, DemoteProgress DEF FilesOK
  <2> QED
    BY <1>1, <2>1, <2>3 DEF FilesOK, StagesOK, Stages
<1>10. CASE EndLabel
  <2>1. /\ row = Len(words) + 1 /\ words' = words /\ base' = base /\ row' = row
        /\ stage' = "open" /\ stage = "label" /\ decoded' = decoded
        /\ result' = result /\ image' = image
    BY <1>1, <1>10 DEF EndLabel, FilesOK
  <2>2. Progress(words, base, decoded, Len(words) + 1)
    BY <1>1, <2>1 DEF StagesOK
  <2> QED
    BY <1>1, <2>1, <2>2 DEF FilesOK, StagesOK, Stages
<1>11. CASE OpenListingFails \/ Render
  <2>1. /\ words' = words /\ base' = base /\ row' = row
        /\ stage' = "done" /\ stage = "open" /\ decoded' = decoded
        /\ result' \in {"0", "1"} /\ image' = image
    BY <1>11 DEF OpenListingFails, Render, Finish
  <2>2. Progress(words, base, decoded, Len(words) + 1)
    BY <1>1, <2>1 DEF StagesOK
  <2> QED
    BY <1>1, <2>1, <2>2 DEF FilesOK, StagesOK, Stages
<1>12. CASE UNCHANGED disassemblerVars
  BY <1>1, <1>12 DEF disassemblerVars, FilesOK, StagesOK
<1> QED
  BY <1>2, <1>3, <1>4, <1>5, <1>6, <1>7, <1>8, <1>9, <1>10, <1>11, <1>12
     DEF DisassemblerNext

LEMMA DisassemblerInvAlways == DisassemblerSpec => []DisassemblerInv
<1>1. DisassemblerInit => DisassemblerInv
  BY DisassemblerInvInit
<1>2. DisassemblerInv /\ [DisassemblerNext]_disassemblerVars => DisassemblerInv'
  BY DisassemblerInvNext
<1> QED
  BY <1>1, <1>2, PTL DEF DisassemblerSpec

-----------------------------------------------------------------------------
(* The theorems. *)

LEMMA FreshAt ==
  ASSUME NEW n
  PROVE  Fresh(words, base, n) = Decode(Undecoded(words[n], Wrap(base + n - 1)))
  BY DEF Fresh, AddressAt

\* The array of lines stays in step with the words of the object file: line n
\* is for word n and at its address, whatever the file (disassemble).
THEOREM DisassemblerTypeCorrect == DisassemblerSpec => []DisassemblerTypeOK
<1>1. ASSUME DisassemblerInv PROVE DisassemblerTypeOK
  <2>1. FilesOK /\ StagesOK
    BY <1>1 DEF DisassemblerInv
  <2>2. /\ Len(decoded) <= Len(words)
        /\ \A n \in DOMAIN decoded :
             decoded[n].word = words[n] /\ decoded[n].address = Wrap(base + n - 1)
    <3>1. CASE decoded = <<>>
      BY <2>1, <3>1 DEF FilesOK
    <3>2. CASE Decoding(words, base, decoded, row)
      <4>1. /\ IsArray(decoded) /\ Len(decoded) = row - 1
            /\ row \in 1 .. Len(words) + 1
        BY <2>1, <3>2 DEF Decoding, FilesOK
      <4>2. DOMAIN decoded = 1 .. Len(decoded) /\ Len(words) \in Nat
        BY <2>1, <4>1, ArrayLength DEF FilesOK
      <4>3. ASSUME NEW n \in DOMAIN decoded
            PROVE  /\ decoded[n].word = words[n]
                   /\ decoded[n].address = Wrap(base + n - 1)
        <5>1. n \in 1 .. Len(words) /\ decoded[n] = Fresh(words, base, n)
          BY <3>2, <4>1, <4>2 DEF Decoding
        <5>2. Opened(Fresh(words, base, n), words[n], AddressAt(base, n))
          BY <2>1, <5>1, FreshLine DEF FilesOK
        <5> QED
          BY <5>1, <5>2 DEF Opened, AddressAt
      <4> QED
        BY <4>1, <4>2, <4>3
    <3>3. CASE \E r : Progress(words, base, decoded, r)
      <4>1. LinesOf(words, base, decoded)
        BY <3>3 DEF Progress
      <4>2. DOMAIN decoded = 1 .. Len(words) /\ Len(decoded) = Len(words)
        BY <4>1, ArrayLength DEF LinesOf
      <4>3. Len(words) \in Nat
        BY <2>1 DEF FilesOK
      <4>4. \A n \in DOMAIN decoded :
              decoded[n].word = words[n] /\ decoded[n].address = Wrap(base + n - 1)
        BY <4>1, <4>2 DEF LinesOf, LineAt, AddressAt
      <4> QED
        BY <4>2, <4>3, <4>4
    <3> QED
      BY <2>1, <3>1, <3>2, <3>3 DEF FilesOK, StagesOK, Stages
  <2> QED
    BY <2>1, <2>2 DEF FilesOK, DisassemblerTypeOK
<1> QED
  BY <1>1, DisassemblerInvAlways, PTL

\* A finished array is settled from the first line to the last.
LEMMA FinishedListing ==
  ASSUME DisassemblerInv, result = "0"
  PROVE  /\ words \in Seq(Word) /\ base \in Word /\ Len(words) \in Nat
         /\ LinesOf(words, base, decoded)
         /\ \A n \in 1 .. Len(words) : LineSettled(words, base, decoded, n)
<1>1. /\ words \in Seq(Word) /\ base \in Word /\ Len(words) \in Nat
      /\ Progress(words, base, decoded, Len(words) + 1)
  BY DEF DisassemblerInv, FilesOK, StagesOK
<1>2. \A n \in 1 .. Len(words) : n < Len(words) + 1
  BY <1>1
<1> QED
  BY <1>1, <1>2 DEF Progress

\* An address of a program below the top of memory is inside.
LEMMA AddressInside ==
  ASSUME NEW ws \in Seq(Word), NEW b \in Word, b + Len(ws) < 65536,
         NEW target \in Word, Wrap(target - b) + 1 \in 1 .. Len(ws)
  PROVE  InsideOf(ws, b, target) /\ Wrap(target - b) = target - b
<1>1. /\ b \in Int /\ 0 <= b /\ b <= 65535 /\ target \in Int /\ Len(ws) \in Nat
      /\ 0 <= target /\ target <= 65535
  BY WordBounds
<1>2. Wrap(b + Len(ws)) = b + Len(ws)
  <2>1. \A x \in Nat : x < 65536 => x % 65536 = x
    OBVIOUS
  <2> QED
    BY <1>1, <2>1 DEF Wrap, WORD_MAX
<1>3. target >= b /\ Wrap(target - b) = target - b
  <2>1. \A x \in Int : /\ -65536 < x /\ x < 0 => x % 65536 = x + 65536
                       /\ 0 <= x /\ x < 65536 => x % 65536 = x
    OBVIOUS
  <2>2. Wrap(target - b) = (target - b) % 65536
    BY DEF Wrap, WORD_MAX
  <2> QED
    BY <1>1, <2>1, <2>2
<1>4. target - b + 1 <= Len(ws)
  BY <1>1, <1>3
<1> QED
  BY <1>1, <1>2, <1>3, <1>4 DEF InsideOf

\* In a finished listing every word that names an address inside the program
\* is shown as its operation, with a label that stands on the line of that
\* address, whatever the object file (disassemble, the second loop).
THEOREM TargetsAreLabelled == DisassemblerSpec => []TargetsLabelled
<1>1. ASSUME DisassemblerInv PROVE TargetsLabelled
  <2>1. SUFFICES ASSUME result = "0", EndsInMemory, NEW n \in DOMAIN words
                 PROVE  LabelledAt(n)
    BY DEF TargetsLabelled
  <2> DEFINE f == Fresh(words, base, n)
             target == Wrap(f.target - base) + 1
  <2>2. SUFFICES ASSUME f.has_target, target \in DOMAIN words
                 PROVE  /\ decoded[n].operation = f.operation
                        /\ decoded[n].reference_label # NoLabel
                        /\ decoded[target].label = decoded[n].reference_label
    BY FreshAt DEF LabelledAt
  <2>3. /\ words \in Seq(Word) /\ base \in Word /\ Len(words) \in Nat
        /\ n \in 1 .. Len(words) /\ LineSettled(words, base, decoded, n)
        /\ base + Len(words) < 65536
    BY <1>1, <2>1, FinishedListing DEF EndsInMemory, WORD_MAX
  <2>4. f.target \in Word
    BY <2>2, <2>3, FreshLine DEF Opened
  <2>5. InsideOf(words, base, f.target) /\ target = f.target - base + 1
    <3>1. Wrap(f.target - base) + 1 \in 1 .. Len(words)
      BY <2>2, <2>3
    <3> HIDE DEF f
    <3> QED
      BY <2>3, <2>4, <3>1, AddressInside
  <2>6. Same(decoded[n], f) /\ Labelled(base, decoded, n, f.target)
    BY <2>2, <2>3, <2>5 DEF LineSettled
  <2>7. Mint(f.target) # NoLabel
    BY <2>4, MintAssumption
  <2> HIDE DEF f, target
  <2> QED
    BY <2>5, <2>6, <2>7 DEF Same, Labelled
<1> QED
  BY <1>1, DisassemblerInvAlways, PTL

\* The symbol table knows the labels of the lines ds, each at its address.
Knows(ws, b, ds, table) ==
  \A n \in 1 .. Len(ws) :
    ds[n].label # NoLabel => Resolves(table, ds[n].label, AddressAt(b, n))

\* A program that ends at the top of memory, or above it, has nothing inside.
LEMMA InsideEnds ==
  ASSUME NEW ws \in Seq(Word), NEW b \in Word, Len(ws) <= 64512,
         NEW target \in Word, InsideOf(ws, b, target)
  PROVE  b + Len(ws) < 65536
<1>1. /\ b \in Int /\ 0 <= b /\ b <= 65535 /\ target \in Int /\ Len(ws) \in Nat
      /\ 0 <= target /\ target <= 65535
  BY WordBounds
<1>2. b <= target /\ target < (b + Len(ws)) % 65536
  BY DEF InsideOf, Wrap, WORD_MAX
<1>3. ASSUME 65536 <= b + Len(ws) PROVE FALSE
  <2>1. (b + Len(ws)) % 65536 = b + Len(ws) - 65536
    BY <1>1, <1>3
  <2> QED
    BY <1>1, <1>2, <2>1
<1> QED
  BY <1>1, <1>3

\* Both ends of a short offset inside such a program: it does not wrap.
LEMMA NearReaches ==
  ASSUME NEW ws \in Seq(Word), NEW b \in Word, Len(ws) <= 64512,
         NEW n \in 1 .. Len(ws), NEW target \in Word,
         InsideOf(ws, b, target), Near(AddressAt(b, n), target)
  PROVE  Reaches(AddressAt(b, n), target)
<1>1. /\ b \in Int /\ 0 <= b /\ b <= 65535 /\ target \in Int /\ Len(ws) \in Nat
      /\ 0 <= target /\ target <= 65535 /\ n \in Int /\ b + Len(ws) < 65536
  BY WordBounds, InsideEnds
<1>2. \A x \in Int : /\ -65536 < x /\ x < 0 => x % 65536 = x + 65536
                     /\ 0 <= x /\ x < 65536 => x % 65536 = x
                     /\ 65536 <= x /\ x < 131072 => x % 65536 = x - 65536
  OBVIOUS
<1>3. \A x : Wrap(x) = x % 65536
  BY DEF Wrap, WORD_MAX
<1>4. AddressAt(b, n) = b + n - 1
  <2>1. 0 <= b + n - 1 /\ b + n - 1 < 65536 /\ b + n - 1 \in Int
    BY <1>1
  <2> QED
    BY <1>2, <1>3, <2>1 DEF AddressAt
<1>5. b <= target /\ target < b + Len(ws)
  <2>1. Wrap(b + Len(ws)) = b + Len(ws)
    BY <1>1, <1>2, <1>3
  <2> QED
    BY <2>1 DEF InsideOf
<1>6. PICK offset : Short(offset) /\ target = Wrap(AddressAt(b, n) + 1 + offset)
  BY DEF Near
<1>7. offset \in Int /\ -1024 <= offset /\ offset <= 1023
  BY <1>6 DEF Short
<1> DEFINE x == b + n + offset
<1>8. /\ x \in Int /\ -65536 < x /\ x < 131072
      /\ x - (b + n - 1) = offset + 1
  BY <1>1, <1>7
<1>9. target = x % 65536
  <2>1. AddressAt(b, n) + 1 + offset = x
    BY <1>1, <1>4, <1>7
  <2> QED
    BY <1>3, <1>6, <2>1
<1>10. /\ -64512 < target - (b + n - 1) /\ target - (b + n - 1) < 64512
  BY <1>1, <1>5
<1> HIDE DEF x
<1>11. target = x
  <2>1. x < 0 => x % 65536 = x + 65536
    BY <1>2, <1>8
  <2>2. 65536 <= x => x % 65536 = x - 65536
    BY <1>2, <1>8
  <2>3. 0 <= x /\ x < 65536 => x % 65536 = x
    BY <1>2, <1>8
  <2> DEFINE y == x % 65536
  <2>4. /\ x < 0 => y = x + 65536
        /\ 65536 <= x => y = x - 65536
        /\ 0 <= x /\ x < 65536 => y = x
        /\ target = y
    BY <1>9, <2>1, <2>2, <2>3
  <2> HIDE DEF y
  <2> QED
    BY <1>1, <1>7, <1>8, <1>10, <2>4
<1> QED
  BY <1>1, <1>4, <1>7, <1>8, <1>11 DEF Reaches

\* A line that is settled is assembled into its word, at its address.
LEMMA LineReassembles ==
  ASSUME NEW ws \in Seq(Word), NEW b \in Word, NEW ds, LinesOf(ws, b, ds),
         Len(ws) <= 64512, NEW n \in 1 .. Len(ws), LineSettled(ws, b, ds, n),
         NEW table, Knows(ws, b, ds, table)
  PROVE  MachineCodes(Reread(ds[n]), table, AddressAt(b, n)) = <<ws[n]>>
<1> DEFINE f == Fresh(ws, b, n)
           address == AddressAt(b, n)
<1> SUFFICES MachineCodes(Reread(ds[n]), table, address) = <<ws[n]>>
  OBVIOUS
<1>1. ws[n] \in Word /\ address \in Word /\ Opened(f, ws[n], address)
  BY FreshLine
<1>2. f = Decode(Undecoded(ws[n], address))
  BY DEF Fresh
<1>3. CASE ~f.has_target /\ Same(ds[n], f)
  <2>1. Shows(ds[n], f)
    BY <1>3 DEF Same, Shows
  <2>2. TargetKnown(f, address, table)
    BY <1>3 DEF TargetKnown
  <2> HIDE DEF f, address
  <2> QED
    BY <1>1, <1>2, <2>1, <2>2, WordsReassemble
<1>4. CASE /\ f.has_target /\ InsideOf(ws, b, f.target)
           /\ Same(ds[n], f) /\ Labelled(b, ds, n, f.target)
  <2>1. Shows(ds[n], f)
    BY <1>4 DEF Same, Shows, Labelled
  <2>2. f.target \in Word /\ Near(address, f.target)
    BY <1>1, <1>4 DEF Opened
  <2>3. Reaches(address, f.target)
    <3> HIDE DEF f
    <3> QED
      BY <1>4, <2>2, NearReaches
  <2>4. Resolves(table, Mint(f.target), f.target)
    <3> DEFINE t == f.target - b + 1
    <3>1. t \in 1 .. Len(ws) /\ AddressAt(b, t) = f.target
      BY <1>4, <2>2, InsideLine
    <3>2. ds[t].label = Mint(f.target) /\ Mint(f.target) # NoLabel
      BY <1>4, <2>2, MintAssumption DEF Labelled
    <3> HIDE DEF t, f
    <3> QED
      BY <3>1, <3>2 DEF Knows
  <2>5. TargetKnown(f, address, table)
    BY <2>3, <2>4 DEF TargetKnown
  <2> HIDE DEF f, address
  <2> QED
    BY <1>1, <1>2, <2>1, <2>5, WordsReassemble
<1>5. CASE Shows(ds[n], Data(Undecoded(ws[n], address)))
  <2> HIDE DEF address
  <2> QED
    BY <1>1, <1>5, DataReassembles
<1> HIDE DEF f, address
<1> QED
  BY <1>3, <1>4, <1>5 DEF LineSettled, f, address

\* The symbol table knows the labels of the listing, each at its line.
KnowsLabels(table) ==
  \A n \in DOMAIN words :
    decoded[n].label # NoLabel =>
      Resolves(table, decoded[n].label, Wrap(base + n - 1))

ListingReassembles ==
  result = "0" /\ ShorterThanOffsets =>
    \A table : KnowsLabels(table) =>
      \A n \in DOMAIN words :
        MachineCodes(Reread(decoded[n]), table, Wrap(base + n - 1)) = <<words[n]>>

\* The disassembler's promise: with the labels of the listing at their lines,
\* the assembler's encoders make of each line of a finished listing the word of
\* the object file that it was made from, whatever the object file, if the
\* program is shorter than memory by a reach.
THEOREM ListingsReassemble == DisassemblerSpec => []ListingReassembles
<1>1. ASSUME DisassemblerInv PROVE ListingReassembles
  <2>1. SUFFICES ASSUME result = "0", ShorterThanOffsets,
                        NEW table, KnowsLabels(table), NEW n \in DOMAIN words
                 PROVE  MachineCodes(Reread(decoded[n]), table, AddressAt(base, n))
                          = <<words[n]>>
    BY DEF ListingReassembles, AddressAt
  <2>2. /\ words \in Seq(Word) /\ base \in Word /\ Len(words) \in Nat
        /\ n \in 1 .. Len(words) /\ LineSettled(words, base, decoded, n)
        /\ Len(words) <= 64512
        /\ LinesOf(words, base, decoded)
    BY <1>1, <2>1, FinishedListing DEF ShorterThanOffsets, WORD_MAX
  <2>3. Knows(words, base, decoded, table)
    BY <2>1, <2>2 DEF KnowsLabels, Knows, AddressAt
  <2> QED
    BY <2>2, <2>3, LineReassembles
<1> QED
  BY <1>1, DisassemblerInvAlways, PTL
=============================================================================
