-------------------------- MODULE LC3ToolchainProofs --------------------------
(***************************************************************************)
(* The disassembler, the file between and the assembler, for every object  *)
(* file.  A line of a listing is followed through fgets and                *)
(* parse_assembly_line: the printed line is taken apart into the pieces it *)
(* was put together from, and each piece is read as what it was printed    *)
(* from.  Then the two passes and the writing of the object file are       *)
(* followed over the lines that were read.  The invariant, ToolchainInv,   *)
(* has a part for the disassembler, one for the reading of the file, and   *)
(* one for what the assembler has made of the listing so far.  The last    *)
(* section is about single words (LC3EveryWord).                           *)
(***************************************************************************)
EXTENDS LC3Toolchain, LC3EveryWord, LC3AssemblerProofs,
        LC3DisassemblerProofs, FiniteSetTheorems

-----------------------------------------------------------------------------
(* Lists of lexemes. *)

(* The least and the greatest of a set of numbers. *)
LEMMA MinIs ==
  ASSUME NEW S, NEW m \in S, S \subseteq Nat, \A i \in S : m <= i
  PROVE  Min(S) = m
<1>1. Min(S) \in S /\ \A i \in S : Min(S) <= i
  BY DEF Min
<1>2. Min(S) \in Nat /\ m \in Nat /\ Min(S) <= m /\ m <= Min(S)
  BY <1>1
<1> QED
  BY <1>2

LEMMA MaxIs ==
  ASSUME NEW S, NEW m \in S, S \subseteq Nat, \A i \in S : i <= m
  PROVE  Max(S) = m
<1>1. Max(S) \in S /\ \A i \in S : Max(S) >= i
  BY DEF Max
<1>2. Max(S) \in Nat /\ m \in Nat /\ m <= Max(S) /\ Max(S) <= m
  BY <1>1
<1> QED
  BY <1>2

(* One element, and two that are next to each other. *)
LEMMA OneTaken ==
  ASSUME NEW S, NEW s \in Seq(S), NEW i \in 1 .. Len(s)
  PROVE  SubSeq(s, i, i) = <<s[i]>>
<1>1. i \in i .. Len(s)
  OBVIOUS
<1>2. SubSeq(s, i, i) = <<s[i]>> \o SubSeq(s, i + 1, i)
  BY <1>1, SubSeqRecursiveFirst
<1>3. SubSeq(s, i + 1, i) = <<>>
  BY SubSeqEmpty
<1>4. <<s[i]>> \o <<>> = <<s[i]>>
  BY ConcatEmptySeq
<1> QED
  BY <1>2, <1>3, <1>4

LEMMA TwoTaken ==
  ASSUME NEW S, NEW s \in Seq(S), NEW i \in 1 .. Len(s), NEW j \in 1 .. Len(s),
         j = i + 1
  PROVE  SubSeq(s, i, j) = <<s[i], s[j]>>
<1>1. j \in i .. Len(s)
  OBVIOUS
<1>2. SubSeq(s, i, j) = <<s[i]>> \o SubSeq(s, i + 1, j)
  BY <1>1, SubSeqRecursiveFirst
<1>3. SubSeq(s, j, j) = <<s[j]>>
  BY OneTaken
<1> QED
  BY <1>2, <1>3, TwoJoined

\* No blank at either end.
Trimmed(line) ==
  /\ Len(line) \in Nat /\ Len(line) >= 1 /\ DOMAIN line = 1 .. Len(line)
  /\ line[1] # Blank /\ line[Len(line)] # Blank

(* Nothing is trimmed off such a line, and a blank in front is. *)
LEMMA TrimTrimmed ==
  ASSUME NEW S, NEW line \in Seq(S), Trimmed(line)
  PROVE  Trim(line) = line
<1> DEFINE solid == DOMAIN line \ Places(line, Blank)
<1>1. /\ 1 \in solid /\ Len(line) \in solid /\ solid \subseteq Nat
      /\ \A i \in solid : 1 <= i /\ i <= Len(line)
  BY DEF Trimmed, Places
<1> HIDE DEF solid
<1>2. Min(solid) = 1 /\ Max(solid) = Len(line)
  BY <1>1, MinIs, MaxIs
<1>3. Trim(line) = SubSeq(line, Min(solid), Max(solid))
  BY <1>1 DEF Trim, solid
<1> QED
  BY <1>2, <1>3, SubSeqFull

LEMMA TrimFront ==
  ASSUME NEW S, Blank \in S, NEW line \in Seq(S), Trimmed(line)
  PROVE  Trim(<<Blank>> \o line) = line
<1> DEFINE longer == <<Blank>> \o line
           solid == DOMAIN longer \ Places(longer, Blank)
<1>1. /\ longer \in Seq(S) /\ Len(longer) = Len(line) + 1
      /\ longer[1] = Blank
      /\ \A i \in 1 .. Len(line) : longer[i + 1] = line[i]
  OBVIOUS
<1> HIDE DEF longer
<1>2. Len(line) \in Nat /\ Len(line) >= 1
  BY DEF Trimmed
<1>3. longer[2] = line[1] /\ longer[Len(longer)] = line[Len(line)]
  BY <1>1, <1>2
<1>4. /\ 2 \in solid /\ Len(longer) \in solid /\ solid \subseteq Nat
      /\ \A i \in solid : 2 <= i /\ i <= Len(longer)
  BY <1>1, <1>2, <1>3 DEF Trimmed, Places
<1> HIDE DEF solid
<1>5. Min(solid) = 2 /\ Max(solid) = Len(line) + 1
  BY <1>1, <1>4, MinIs, MaxIs
<1>6. Trim(longer) = SubSeq(longer, 2, Len(line) + 1)
  BY <1>4, <1>5 DEF Trim, solid
<1>7. SubSeq(longer, 2, Len(line) + 1) = SubSeq(line, 1, Len(line))
  <2>1. /\ <<Blank>> \in Seq(S) /\ Len(<<Blank>>) = 1
        /\ 2 \in Len(<<Blank>>) + 1 .. Len(<<Blank>>) + Len(line)
        /\ Len(line) + 1 \in Len(<<Blank>>) + 1 .. Len(<<Blank>>) + Len(line)
    BY <1>2
  <2>2. SubSeq(longer, 2, Len(line) + 1)
          = SubSeq(line, 2 - Len(<<Blank>>), (Len(line) + 1) - Len(<<Blank>>))
    BY <2>1, SubSeqOfConcat2 DEF longer
  <2>3. 2 - Len(<<Blank>>) = 1 /\ (Len(line) + 1) - Len(<<Blank>>) = Len(line)
    BY <1>2, <2>1
  <2> QED
    BY <2>2, <2>3
<1> QED
  BY <1>6, <1>7, SubSeqFull DEF longer

LEMMA TrimEmpty == Trim(<<>>) = <<>>
  BY DEF Trim, Places

(* A line without a semicolon has no comment. *)
LEMMA NoComment ==
  ASSUME NEW line, Places(line, Semicolon) = {}
  PROVE  Uncommented(line) = line
<1>1. {i \in Places(line, Semicolon) :
         Cardinality({j \in Places(line, Quote) : j < i}) % 2 = 0} = {}
  OBVIOUS
<1> QED
  BY <1>1 DEF Uncommented

(* A word and a blank in front of a trimmed rest. *)
LEMMA TokenOff ==
  ASSUME NEW S, NEW x \in S, x # Blank, Blank \in S,
         NEW rest \in Seq(S), Trimmed(rest)
  PROVE  /\ FirstToken(<<x, Blank>> \o rest) = <<x>>
         /\ Behind(<<x, Blank>> \o rest) = rest
<1> DEFINE line == <<x, Blank>> \o rest
           blanks == Places(line, Blank)
<1>1. /\ line \in Seq(S) /\ Len(line) = Len(rest) + 2
      /\ line[1] = x /\ line[2] = Blank /\ Len(rest) \in Nat
      /\ \A i \in 1 .. Len(rest) : line[i + 2] = rest[i]
  OBVIOUS
<1>2. line = <<x>> \o (<<Blank>> \o rest)
  OBVIOUS
<1> HIDE DEF line
<1>3. 2 \in blanks /\ blanks \subseteq Nat /\ \A i \in blanks : 2 <= i
  BY <1>1 DEF Places
<1>4. Min(blanks) = 2
  <2> HIDE DEF blanks
  <2> QED
    BY <1>3, MinIs
<1>5. FirstToken(line) = SubSeq(line, 1, 1)
  BY <1>3, <1>4 DEF FirstToken
<1>6. SubSeq(line, 1, 1) = <<x>>
  BY <1>1, OneTaken
<1>7. SubSeq(line, 2, Len(line)) = <<Blank>> \o rest
  <2> DEFINE behind == <<Blank>> \o rest
  <2>1. behind \in Seq(S) /\ Len(behind) = Len(rest) + 1
    OBVIOUS
  <2> HIDE DEF behind
  <2>2. /\ <<x>> \in Seq(S) /\ Len(<<x>>) = 1
        /\ 2 \in Len(<<x>>) + 1 .. Len(<<x>>) + Len(behind)
        /\ Len(line) \in Len(<<x>>) + 1 .. Len(<<x>>) + Len(behind)
        /\ 2 - Len(<<x>>) = 1 /\ Len(line) - Len(<<x>>) = Len(behind)
    BY <1>1, <2>1
  <2>3. SubSeq(<<x>> \o behind, 2, Len(line)) = SubSeq(behind, 1, Len(behind))
    BY <2>1, <2>2, SubSeqOfConcat2
  <2>4. SubSeq(behind, 1, Len(behind)) = behind
    BY <2>1, SubSeqFull
  <2> QED
    BY <1>2, <2>3, <2>4 DEF behind
<1>8. Behind(line) = rest
  <2>1. Len(<<x>>) + 1 = 2
    OBVIOUS
  <2> QED
    BY <1>5, <1>6, <1>7, <2>1, TrimFront DEF Behind
<1> QED
  BY <1>5, <1>6, <1>8 DEF line

(* A word alone. *)
LEMMA TokenAlone ==
  ASSUME NEW x, x # Blank
  PROVE  FirstToken(<<x>>) = <<x>> /\ Behind(<<x>>) = <<>>
<1>1. Places(<<x>>, Blank) = {}
  BY DEF Places
<1>2. FirstToken(<<x>>) = <<x>>
  BY <1>1 DEF FirstToken
<1>3. /\ SubSeq(<<x>>, 2, 1) = <<>>
      /\ Len(<<x>>) + 1 = 2 /\ Len(<<x>>) = 1
  OBVIOUS
<1>4. Behind(<<x>>) = Trim(SubSeq(<<x>>, Len(<<x>>) + 1, Len(<<x>>)))
  BY <1>2 DEF Behind
<1> QED
  BY <1>2, <1>3, <1>4, TrimEmpty

-----------------------------------------------------------------------------
(* The pieces between commas. *)

\* Below j there are n elements of S.
Below(S, j, n) == Cardinality({i \in S : i < j}) = n

(* The n-th number of a set is the one with n - 1 below it. *)
LEMMA NthIs ==
  ASSUME NEW S, NEW n, NEW j \in S, Below(S, j, n),
         \A k \in S : Below(S, k, n) => k = j
  PROVE  Nth(n, S) = j
<1>1. Nth(n, S) \in S /\ Below(S, Nth(n, S), n)
  BY DEF Nth, Below
<1> QED
  BY <1>1

(* The numbers of one, two, three and four different things. *)
Counted(S, n) == IsFiniteSet(S) /\ Cardinality(S) = n

LEMMA CountMore ==
  ASSUME NEW S, NEW n \in Nat, Counted(S, n), NEW x, x \notin S,
         NEW T, T = S \cup {x}
  PROVE  Counted(T, n + 1)
  BY FS_AddElement DEF Counted

LEMMA CountNone == Counted({}, 0)
  BY FS_EmptySet DEF Counted
LEMMA CountOne == ASSUME NEW a PROVE Counted({a}, 1)
  BY FS_Singleton DEF Counted
LEMMA CountTwo == ASSUME NEW a, NEW b, a # b PROVE Counted({a, b}, 2)
<1>1. Counted({a}, 1) /\ {a, b} = {a} \cup {b} /\ b \notin {a} /\ 1 \in Nat
  BY CountOne
<1>2. Counted({a, b}, 1 + 1)
  BY <1>1, CountMore
<1> QED
  BY <1>2
LEMMA CountThree ==
  ASSUME NEW a, NEW b, NEW c, a # b, a # c, b # c PROVE Counted({a, b, c}, 3)
<1>1. /\ Counted({a, b}, 2) /\ {a, b, c} = {a, b} \cup {c}
      /\ c \notin {a, b} /\ 2 \in Nat
  BY CountTwo
<1>2. Counted({a, b, c}, 2 + 1)
  BY <1>1, CountMore
<1> QED
  BY <1>2
LEMMA CountFour ==
  ASSUME NEW a, NEW b, NEW c, NEW d,
         a # b, a # c, b # c, a # d, b # d, c # d
  PROVE  Counted({a, b, c, d}, 4)
<1>1. /\ Counted({a, b, c}, 3) /\ {a, b, c, d} = {a, b, c} \cup {d}
      /\ d \notin {a, b, c} /\ 3 \in Nat
  BY CountThree
<1>2. Counted({a, b, c, d}, 3 + 1)
  BY <1>1, CountMore
<1> QED
  BY <1>2

(* What is counted as below. *)
LEMMA BelowIs ==
  ASSUME NEW S, NEW j, NEW n, NEW T, {i \in S : i < j} = T, Counted(T, n)
  PROVE  Below(S, j, n)
  BY DEF Below, Counted

(* Two, three and four numbers in their order. *)
LEMMA TwoStops ==
  ASSUME NEW a \in Int, NEW b \in Int,
         a < b
  PROVE  /\ Cardinality({a, b}) = 2
         /\ Nth(0, {a, b}) = a
         /\ Nth(1, {a, b}) = b
<1> DEFINE S == {a, b}
<1>1. /\ {i \in S : i < a} = {}
      /\ {i \in S : i < b} = {a}
  OBVIOUS
<1>2. a # b
  OBVIOUS
<1>3. /\ Counted({}, 0)
      /\ Counted({a}, 1)
      /\ Counted({a, b}, 2)
  BY <1>2, CountNone, CountOne, CountTwo
<1>4. /\ a \in S
      /\ b \in S
      /\ \A j \in S : j = a \/ j = b
  OBVIOUS
<1> HIDE DEF S
<1>5. Below(S, a, 0) /\ Below(S, b, 1)
  BY <1>1, <1>3, BelowIs
<1>6. \A n : /\ Below(S, a, n) => n = 0
             /\ Below(S, b, n) => n = 1
  BY <1>5 DEF Below
<1>7. /\ \A j \in S : Below(S, j, 0) => j = a
      /\ \A j \in S : Below(S, j, 1) => j = b
  BY <1>4, <1>6
<1>8. Nth(0, S) = a /\ Nth(1, S) = b
  BY <1>4, <1>5, <1>7, NthIs
<1> QED
  BY <1>3, <1>8 DEF S, Counted

LEMMA ThreeStops ==
  ASSUME NEW a \in Int, NEW b \in Int, NEW c \in Int,
         a < b, b < c
  PROVE  /\ Cardinality({a, b, c}) = 3
         /\ Nth(0, {a, b, c}) = a
         /\ Nth(1, {a, b, c}) = b
         /\ Nth(2, {a, b, c}) = c
<1> DEFINE S == {a, b, c}
<1>1. /\ {i \in S : i < a} = {}
      /\ {i \in S : i < b} = {a}
      /\ {i \in S : i < c} = {a, b}
  OBVIOUS
<1>2. a # b /\ a # c /\ b # c
  OBVIOUS
<1>3. /\ Counted({}, 0)
      /\ Counted({a}, 1)
      /\ Counted({a, b}, 2)
      /\ Counted({a, b, c}, 3)
  BY <1>2, CountNone, CountOne, CountTwo, CountThree
<1>4. /\ a \in S
      /\ b \in S
      /\ c \in S
      /\ \A j \in S : j = a \/ j = b \/ j = c
  OBVIOUS
<1> HIDE DEF S
<1>5. Below(S, a, 0) /\ Below(S, b, 1) /\ Below(S, c, 2)
  BY <1>1, <1>3, BelowIs
<1>6. \A n : /\ Below(S, a, n) => n = 0
             /\ Below(S, b, n) => n = 1
             /\ Below(S, c, n) => n = 2
  BY <1>5 DEF Below
<1>7. /\ \A j \in S : Below(S, j, 0) => j = a
      /\ \A j \in S : Below(S, j, 1) => j = b
      /\ \A j \in S : Below(S, j, 2) => j = c
  BY <1>4, <1>6
<1>8. Nth(0, S) = a /\ Nth(1, S) = b /\ Nth(2, S) = c
  BY <1>4, <1>5, <1>7, NthIs
<1> QED
  BY <1>3, <1>8 DEF S, Counted

LEMMA FourStops ==
  ASSUME NEW a \in Int, NEW b \in Int, NEW c \in Int, NEW d \in Int,
         a < b, b < c, c < d
  PROVE  /\ Cardinality({a, b, c, d}) = 4
         /\ Nth(0, {a, b, c, d}) = a
         /\ Nth(1, {a, b, c, d}) = b
         /\ Nth(2, {a, b, c, d}) = c
         /\ Nth(3, {a, b, c, d}) = d
<1> DEFINE S == {a, b, c, d}
<1>1. /\ {i \in S : i < a} = {}
      /\ {i \in S : i < b} = {a}
      /\ {i \in S : i < c} = {a, b}
      /\ {i \in S : i < d} = {a, b, c}
  OBVIOUS
<1>2. a # b /\ a # c /\ b # c /\ a # d /\ b # d /\ c # d
  OBVIOUS
<1>3. /\ Counted({}, 0)
      /\ Counted({a}, 1)
      /\ Counted({a, b}, 2)
      /\ Counted({a, b, c}, 3)
      /\ Counted({a, b, c, d}, 4)
  BY <1>2, CountNone, CountOne, CountTwo, CountThree, CountFour
<1>4. /\ a \in S
      /\ b \in S
      /\ c \in S
      /\ d \in S
      /\ \A j \in S : j = a \/ j = b \/ j = c \/ j = d
  OBVIOUS
<1> HIDE DEF S
<1>5. Below(S, a, 0) /\ Below(S, b, 1) /\ Below(S, c, 2) /\ Below(S, d, 3)
  BY <1>1, <1>3, BelowIs
<1>6. \A n : /\ Below(S, a, n) => n = 0
             /\ Below(S, b, n) => n = 1
             /\ Below(S, c, n) => n = 2
             /\ Below(S, d, n) => n = 3
  BY <1>5 DEF Below
<1>7. /\ \A j \in S : Below(S, j, 0) => j = a
      /\ \A j \in S : Below(S, j, 1) => j = b
      /\ \A j \in S : Below(S, j, 2) => j = c
      /\ \A j \in S : Below(S, j, 3) => j = d
  BY <1>4, <1>6
<1>8. Nth(0, S) = a /\ Nth(1, S) = b /\ Nth(2, S) = c /\ Nth(3, S) = d
  BY <1>4, <1>5, <1>7, NthIs
<1> QED
  BY <1>3, <1>8 DEF S, Counted

\* A lexeme that is neither a blank nor punctuation.
Solid(x) == x \notin {Blank, Comma, Quote, Semicolon}

(* A solid lexeme is no blank, comma, quote or semicolon. *)
LEMMA SolidAlone ==
  ASSUME NEW x, Solid(x)
  PROVE  Trim(<<x>>) = <<x>> /\ Trim(<<Blank, x>>) = <<x>>
<1>1. Trimmed(<<x>>)
  BY DEF Trimmed, Solid
<1>2. <<Blank, x>> = <<Blank>> \o <<x>> /\ <<x>> \in Seq({x, Blank})
  BY TwoJoined
<1> QED
  BY <1>1, <1>2, TrimTrimmed, TrimFront

(* The four lexemes of punctuation are four. *)
LEMMA PunctuationDiffers ==
  /\ Blank # Comma /\ Blank # Quote /\ Blank # Semicolon
  /\ Comma # Quote /\ Comma # Semicolon
<1>1. \A s, t : Name(s) = Name(t) => s = t
  BY DEF Name
<1>2. /\ " " # "," /\ " " # "\"" /\ " " # ";"
      /\ "," # "\"" /\ "," # ";"
  OBVIOUS
<1> QED
  BY <1>1, <1>2 DEF Blank, Comma, Quote, Semicolon

(* The operands of a printed line, taken apart again. *)
Piece(line, from, to) == Trim(SubSeq(line, from + 1, to - 1))

\* pieces is a list of k pieces, those between the numbers of S.
Pieces(pieces, line, S, k) ==
  /\ pieces = [n \in 1 .. k |-> pieces[n]]
  /\ \A n \in 1 .. k : pieces[n] = Piece(line, Nth(n - 1, S), Nth(n, S))

(* Splitting takes the pieces between the stops. *)
LEMMA SplitAt ==
  ASSUME NEW line, NEW S, S = {0, Len(line) + 1} \cup Places(line, Comma),
         NEW k, Cardinality(S) - 1 = k
  PROVE  Pieces(Split(line), line, S, k)
<1>1. Split(line) = [n \in 1 .. k |-> Piece(line, Nth(n - 1, S), Nth(n, S))]
  BY DEF Split, Piece
<1> QED
  BY <1>1 DEF Pieces

(* No comma, one, and two. *)
LEMMA SplitOne ==
  ASSUME NEW x, Solid(x) PROVE Split(<<x>>) = <<<<x>>>>
<1> DEFINE line == <<x>>
           S == {0, 2}
<1>1. S = {0, Len(line) + 1} \cup Places(line, Comma)
  BY DEF Places, Solid
<1>2. Cardinality(S) - 1 = 1 /\ Nth(0, S) = 0 /\ Nth(1, S) = 2
  BY TwoStops
<1>3. Piece(line, 0, 2) = <<x>>
  <2>1. line \in Seq({x}) /\ 1 \in 1 .. Len(line) /\ line[1] = x
    OBVIOUS
  <2>2. SubSeq(line, 1, 1) = <<x>>
    BY <2>1, OneTaken
  <2>3. 0 + 1 = 1 /\ 2 - 1 = 1
    OBVIOUS
  <2>4. Piece(line, 0, 2) = Trim(<<x>>)
    BY <2>2, <2>3 DEF Piece
  <2> QED
    BY <2>4, SolidAlone
<1> HIDE DEF line, S
<1>4. Pieces(Split(line), line, S, 1)
  BY <1>1, <1>2, SplitAt
<1>5. Split(line) = <<<<x>>>>
  BY <1>4, <1>2, <1>3 DEF Pieces
<1> QED
  BY <1>5 DEF line

LEMMA SplitTwo ==
  ASSUME NEW x, NEW y, Solid(x), Solid(y)
  PROVE  Split(<<x, Comma, Blank, y>>) = <<<<x>>, <<y>>>>
<1> DEFINE line == <<x, Comma, Blank, y>>
           S == {0, 2, 5}
<1>1. S = {0, Len(line) + 1} \cup Places(line, Comma)
  BY PunctuationDiffers DEF Places, Solid
<1>2. /\ Cardinality(S) - 1 = 2 /\ Nth(0, S) = 0 /\ Nth(1, S) = 2
      /\ Nth(2, S) = 5
  BY ThreeStops
<1>3. /\ line \in Seq({x, Comma, Blank, y}) /\ Len(line) = 4
      /\ line[1] = x /\ line[3] = Blank /\ line[4] = y
  OBVIOUS
<1> HIDE DEF line, S
<1>4. Piece(line, 0, 2) = <<x>>
  <2>1. SubSeq(line, 1, 1) = <<x>>
    BY <1>3, OneTaken
  <2>2. 0 + 1 = 1 /\ 2 - 1 = 1
    OBVIOUS
  <2>3. Piece(line, 0, 2) = Trim(<<x>>)
    BY <2>1, <2>2 DEF Piece
  <2> QED
    BY <2>3, SolidAlone
<1>5. Piece(line, 2, 5) = <<y>>
  <2>1. SubSeq(line, 3, 4) = <<Blank, y>>
    BY <1>3, TwoTaken
  <2>2. 2 + 1 = 3 /\ 5 - 1 = 4
    OBVIOUS
  <2>3. Piece(line, 2, 5) = Trim(<<Blank, y>>)
    BY <2>1, <2>2 DEF Piece
  <2> QED
    BY <2>3, SolidAlone
<1>6. Pieces(Split(line), line, S, 2)
  BY <1>1, <1>2, SplitAt
<1>7. Split(line) = <<<<x>>, <<y>>>>
  BY <1>6, <1>2, <1>4, <1>5 DEF Pieces
<1> QED
  BY <1>7 DEF line

LEMMA SplitThree ==
  ASSUME NEW x, NEW y, NEW z, Solid(x), Solid(y), Solid(z)
  PROVE  Split(<<x, Comma, Blank, y, Comma, Blank, z>>)
           = <<<<x>>, <<y>>, <<z>>>>
<1> DEFINE line == <<x, Comma, Blank, y, Comma, Blank, z>>
           S == {0, 2, 5, 8}
<1>1. S = {0, Len(line) + 1} \cup Places(line, Comma)
  BY PunctuationDiffers DEF Places, Solid
<1>2. /\ Cardinality(S) - 1 = 3 /\ Nth(0, S) = 0 /\ Nth(1, S) = 2
      /\ Nth(2, S) = 5 /\ Nth(3, S) = 8
  BY FourStops
<1>3. /\ line \in Seq({x, Comma, Blank, y, z}) /\ Len(line) = 7
      /\ line[1] = x /\ line[3] = Blank /\ line[4] = y
      /\ line[6] = Blank /\ line[7] = z
  OBVIOUS
<1> HIDE DEF line, S
<1>4. Piece(line, 0, 2) = <<x>>
  <2>1. SubSeq(line, 1, 1) = <<x>>
    BY <1>3, OneTaken
  <2>2. 0 + 1 = 1 /\ 2 - 1 = 1
    OBVIOUS
  <2>3. Piece(line, 0, 2) = Trim(<<x>>)
    BY <2>1, <2>2 DEF Piece
  <2> QED
    BY <2>3, SolidAlone
<1>5. Piece(line, 2, 5) = <<y>>
  <2>1. SubSeq(line, 3, 4) = <<Blank, y>>
    BY <1>3, TwoTaken
  <2>2. 2 + 1 = 3 /\ 5 - 1 = 4
    OBVIOUS
  <2>3. Piece(line, 2, 5) = Trim(<<Blank, y>>)
    BY <2>1, <2>2 DEF Piece
  <2> QED
    BY <2>3, SolidAlone
<1>6. Piece(line, 5, 8) = <<z>>
  <2>1. SubSeq(line, 6, 7) = <<Blank, z>>
    BY <1>3, TwoTaken
  <2>2. 5 + 1 = 6 /\ 8 - 1 = 7
    OBVIOUS
  <2>3. Piece(line, 5, 8) = Trim(<<Blank, z>>)
    BY <2>1, <2>2 DEF Piece
  <2> QED
    BY <2>3, SolidAlone
<1>7. Pieces(Split(line), line, S, 3)
  BY <1>1, <1>2, SplitAt
<1>8. Split(line) = <<<<x>>, <<y>>, <<z>>>>
  BY <1>7, <1>2, <1>4, <1>5, <1>6 DEF Pieces
<1> QED
  BY <1>8 DEF line

-----------------------------------------------------------------------------
(* A printed line, parsed. *)

\* The lexemes of words in a listing.
Plain ==
  {x \in Lexemes : /\ Solid(x)
                   /\ Len(x.digits) <= 4 /\ Len(Spelling(x.text)) <= 8}

\* All the lexemes of a listing.
Tidy == Plain \cup {Blank, Comma}

\* The operands os stand in the text, with commas between them.
Shown(os, text) ==
  \/ os = <<>> /\ text = <<>>
  \/ \E x \in Plain : os = <<<<x>>>> /\ text = <<x>>
  \/ \E x, y \in Plain : os = <<<<x>>, <<y>>>> /\ text = <<x, Comma, Blank, y>>
  \/ \E x, y, z \in Plain :
       /\ os = <<<<x>>, <<y>>, <<z>>>>
       /\ text = <<x, Comma, Blank, y, Comma, Blank, z>>

(* A listing has no semicolon. *)
LEMMA TidySemicolon == Semicolon \notin Tidy
  BY PunctuationDiffers DEF Tidy, Plain, Solid

(* Operands that stand in a text make it up. *)
LEMMA ShownText ==
  ASSUME NEW os, NEW text, Shown(os, text)
  PROVE  /\ text \in Seq(Tidy) /\ Len(text) <= 7
         /\ \/ os = <<>> /\ text = <<>>
            \/ os # <<>> /\ Trimmed(text)
<1>1. CASE os = <<>> /\ text = <<>>
  <2>1. <<>> \in Seq(Tidy) /\ Len(<<>>) <= 7
    OBVIOUS
  <2>2. text \in Seq(Tidy) /\ Len(text) <= 7
    BY <1>1, <2>1, Zenon
  <2> QED
    BY <1>1, <2>2, Zenon
<1>2. CASE \E x \in Plain : os = <<<<x>>>> /\ text = <<x>>
  BY <1>2 DEF Tidy, Plain, Solid, Trimmed
<1>3. CASE \E x, y \in Plain :
             os = <<<<x>>, <<y>>>> /\ text = <<x, Comma, Blank, y>>
  BY <1>3 DEF Tidy, Plain, Solid, Trimmed
<1>4. CASE \E x, y, z \in Plain :
             /\ os = <<<<x>>, <<y>>, <<z>>>>
             /\ text = <<x, Comma, Blank, y, Comma, Blank, z>>
  BY <1>4 DEF Tidy, Plain, Solid, Trimmed
<1> QED
  BY <1>1, <1>2, <1>3, <1>4 DEF Shown

(* Splitting gives the operands back. *)
LEMMA ShownSplit ==
  ASSUME NEW os, NEW text, Shown(os, text), os # <<>>
  PROVE  Split(text) = os /\ Len(os) \in 1 .. 3
<1>1. CASE \E x \in Plain : os = <<<<x>>>> /\ text = <<x>>
  BY <1>1, SplitOne DEF Plain
<1>2. CASE \E x, y \in Plain :
             os = <<<<x>>, <<y>>>> /\ text = <<x, Comma, Blank, y>>
  BY <1>2, SplitTwo DEF Plain
<1>3. CASE \E x, y, z \in Plain :
             /\ os = <<<<x>>, <<y>>, <<z>>>>
             /\ text = <<x, Comma, Blank, y, Comma, Blank, z>>
  BY <1>3, SplitThree DEF Plain
<1> QED
  BY <1>1, <1>2, <1>3 DEF Shown

(* They are read as the operands they are. *)
LEMMA ShownOperands ==
  ASSUME NEW os, NEW text, Shown(os, text)
  PROVE  PlainOperands(text) = [n \in DOMAIN os |-> BuildOperand(os[n])]
<1>1. CASE os = <<>>
  <2>1. text = <<>>
    BY <1>1, ShownText
  <2>2. DOMAIN os = {}
    BY <1>1
  <2> QED
    BY <2>1, <2>2 DEF PlainOperands
<1>2. CASE os # <<>>
  <2>1. text # <<>> /\ Split(text) = os
    BY <1>2, ShownText, ShownSplit DEF Trimmed
  <2>2. PICK size \in 1 .. 3 : Len(os) = size
    BY <1>2, ShownSplit
  <2>3. DOMAIN os = 1 .. Len(os)
    BY <1>2 DEF Shown
  <2>4. Min({MAX_OPERANDS, Len(os)}) = Len(os)
    <3>1. /\ {3, size} \subseteq Nat /\ size \in {3, size}
          /\ \A i \in {3, size} : size <= i
      OBVIOUS
    <3>2. Min({3, size}) = size
      BY <3>1, MinIs
    <3> QED
      BY <2>2, <3>2 DEF MAX_OPERANDS
  <2> QED
    BY <2>1, <2>3, <2>4 DEF PlainOperands
<1> QED
  BY <1>1, <1>2

(* The parts of a line, joined. *)
LEMMA FlattenOne ==
  ASSUME NEW S, NEW p \in Seq(S) PROVE FlattenSeq(<<p>>) = p
<1>1. /\ <<>> \in Seq(Seq(S)) /\ Append(<<>>, p) = <<p>> /\ <<>> \o p = p
  OBVIOUS
<1> QED
  BY <1>1, FlattenAppend, FlattenEmpty

LEMMA TwoAppended ==
  ASSUME NEW p, NEW q
  PROVE  Append(<<p>>, q) = <<p, q>>
<1> DEFINE s == Append(<<p>>, q)
           t == <<p, q>>
<1>1. <<p>> \in Seq({p, q}) /\ q \in {p, q} /\ Len(<<p>>) = 1 /\ <<p>>[1] = p
  OBVIOUS
<1>2. t \in Seq({p, q}) /\ Len(t) = 2 /\ t[1] = p /\ t[2] = q
  OBVIOUS
<1>3. s \in Seq({p, q}) /\ Len(s) = 2 /\ s[1] = p /\ s[2] = q
  BY <1>1, AppendProperties
<1> HIDE DEF s, t
<1>4. \A i \in 1 .. Len(s) : s[i] = t[i]
  BY <1>2, <1>3
<1>5. s = t
  BY <1>2, <1>3, <1>4, SeqEqual
<1> QED
  BY <1>5 DEF s, t

LEMMA FlattenTwo ==
  ASSUME NEW S, NEW p \in Seq(S), NEW q \in Seq(S)
  PROVE  FlattenSeq(<<p, q>>) = p \o q
<1>1. <<p>> \in Seq(Seq(S))
  <2> DEFINE T == Seq(S)
  <2>1. p \in T
    OBVIOUS
  <2> HIDE DEF T
  <2>2. <<p>> \in Seq(T)
    BY <2>1
  <2> QED
    BY <2>2 DEF T
<1>2. Append(<<p>>, q) = <<p, q>>
  BY TwoAppended
<1> QED
  BY <1>1, <1>2, FlattenAppend, FlattenOne

FlatThree(p, q, r) == FlattenSeq(<<p, q, r>>) = (p \o q) \o r

LEMMA FlattenThree ==
  ASSUME NEW S, NEW p \in Seq(S), NEW q \in Seq(S), NEW r \in Seq(S)
  PROVE  FlatThree(p, q, r)
<1>1. <<p, q>> \in Seq(Seq(S))
  <2> DEFINE T == Seq(S)
  <2>1. p \in T /\ q \in T
    OBVIOUS
  <2> HIDE DEF T
  <2>2. <<p, q>> \in Seq(T)
    BY <2>1
  <2> QED
    BY <2>2 DEF T
<1>2. Append(<<p, q>>, r) = <<p, q, r>>
  BY <1>1, ThreeAppended
<1>3. FlattenSeq(Append(<<p, q>>, r)) = FlattenSeq(<<p, q>>) \o r
  BY <1>1, FlattenAppend
<1>4. FlattenSeq(<<p, q>>) = p \o q
  BY FlattenTwo
<1> QED
  BY <1>2, <1>3, <1>4, Zenon DEF FlatThree

\* The text of operand n.
Part(os, n) == (IF n = 1 THEN <<Blank>> ELSE <<Comma, Blank>>) \o os[n]

(* An operand and what is in front of it. *)
LEMMA PartOne ==
  ASSUME NEW os, NEW x, os[1] = <<x>>
  PROVE  Part(os, 1) = <<Blank, x>>
  BY TwoJoined DEF Part

LEMMA PartLater ==
  ASSUME NEW os, NEW n, n # 1, NEW x, os[n] = <<x>>
  PROVE  Part(os, n) = <<Comma, Blank, x>>
<1> DEFINE u == <<Comma, Blank>>
           S == {Comma, Blank, x}
<1>1. /\ u \in Seq(S) /\ x \in S /\ Len(u) = 2 /\ u[1] = Comma /\ u[2] = Blank
      /\ Append(u, x) = <<Comma, Blank, x>>
  BY ThreeAppended
<1> HIDE DEF u
<1>2. u \o <<x>> = Append(u, x)
  BY <1>1, AppendIsConcat
<1> QED
  BY <1>1, <1>2 DEF Part, u

(* The operands of a printed line stand in it. *)
LEMMA BodyShown ==
  ASSUME NEW d, NEW text, Shown(PrintedOperands(d), text)
  PROVE  Body(d) = IF text = <<>> THEN <<Mnemonic(d)>>
                   ELSE <<Mnemonic(d), Blank>> \o text
<1> DEFINE os == PrintedOperands(d)
           parts == [n \in DOMAIN os |-> Part(os, n)]
           m == Mnemonic(d)
<1>1. Body(d) = <<m>> \o FlattenSeq(parts)
  BY DEF Body, Part
<1> HIDE DEF os, m
<1>2. Shown(os, text)
  BY DEF os
<1>3. CASE os = <<>> /\ text = <<>>
  <2>1. parts = <<>>
    BY <1>3
  <2>2. <<m>> \o <<>> = <<m>>
    BY ConcatEmptySeq
  <2> QED
    BY <1>1, <1>3, <2>1, <2>2, FlattenEmpty DEF m
<1>4. CASE \E x \in Plain : os = <<<<x>>>> /\ text = <<x>>
  <2>1. PICK x \in Plain : os = <<<<x>>>> /\ text = <<x>>
    BY <1>4
  <2>2. parts = <<<<Blank, x>>>>
    <3>1. Part(os, 1) = <<Blank, x>>
      BY <2>1, PartOne
    <3> QED
      BY <2>1, <3>1
  <2>3. FlattenSeq(parts) = <<Blank, x>>
    <3>1. <<Blank, x>> \in Seq({Blank, x})
      OBVIOUS
    <3> QED
      BY <2>2, <3>1, FlattenOne
  <2>4. <<m>> \o <<Blank, x>> = <<m, Blank>> \o <<x>> /\ <<x>> # <<>>
    OBVIOUS
  <2> QED
    BY <1>1, <2>1, <2>3, <2>4 DEF m
<1>5. CASE \E x, y \in Plain :
             os = <<<<x>>, <<y>>>> /\ text = <<x, Comma, Blank, y>>
  <2>1. PICK x \in Plain, y \in Plain :
          os = <<<<x>>, <<y>>>> /\ text = <<x, Comma, Blank, y>>
    BY <1>5
  <2>2. parts = <<<<Blank, x>>, <<Comma, Blank, y>>>>
    <3>1. Part(os, 1) = <<Blank, x>> /\ Part(os, 2) = <<Comma, Blank, y>>
      BY <2>1, PartOne, PartLater
    <3> QED
      BY <2>1, <3>1
  <2>3. FlattenSeq(parts) = <<Blank, x>> \o <<Comma, Blank, y>>
    <3>1. /\ <<Blank, x>> \in Seq({Blank, Comma, x, y})
          /\ <<Comma, Blank, y>> \in Seq({Blank, Comma, x, y})
      OBVIOUS
    <3> QED
      BY <2>2, <3>1, FlattenTwo
  <2>4. /\ <<m>> \o (<<Blank, x>> \o <<Comma, Blank, y>>)
             = <<m, Blank>> \o <<x, Comma, Blank, y>>
        /\ <<x, Comma, Blank, y>> # <<>>
    OBVIOUS
  <2> QED
    BY <1>1, <2>1, <2>3, <2>4 DEF m
<1>6. CASE \E x, y, z \in Plain :
             /\ os = <<<<x>>, <<y>>, <<z>>>>
             /\ text = <<x, Comma, Blank, y, Comma, Blank, z>>
  <2>1. PICK x \in Plain, y \in Plain, z \in Plain :
             /\ os = <<<<x>>, <<y>>, <<z>>>>
             /\ text = <<x, Comma, Blank, y, Comma, Blank, z>>
    BY <1>6
  <2>2. parts = <<<<Blank, x>>, <<Comma, Blank, y>>, <<Comma, Blank, z>>>>
    <3>1. /\ Part(os, 1) = <<Blank, x>> /\ Part(os, 2) = <<Comma, Blank, y>>
          /\ Part(os, 3) = <<Comma, Blank, z>>
      BY <2>1, PartOne, PartLater
    <3> QED
      BY <2>1, <3>1
  <2>3. FlattenSeq(parts)
          = (<<Blank, x>> \o <<Comma, Blank, y>>) \o <<Comma, Blank, z>>
    <3> DEFINE p == <<Blank, x>>
               q == <<Comma, Blank, y>>
               r == <<Comma, Blank, z>>
               S == {Blank, Comma, x, y, z}
    <3>1. p \in Seq(S) /\ q \in Seq(S) /\ r \in Seq(S)
      OBVIOUS
    <3>2. FlatThree(p, q, r)
      <4> HIDE DEF p, q, r, S
      <4> QED
        BY <3>1, FlattenThree
    <3> QED
      BY <2>2, <3>2 DEF FlatThree
  <2>4. /\ <<m>> \o ((<<Blank, x>> \o <<Comma, Blank, y>>) \o <<Comma, Blank, z>>)
             = <<m, Blank>> \o <<x, Comma, Blank, y, Comma, Blank, z>>
        /\ <<x, Comma, Blank, y, Comma, Blank, z>> # <<>>
    OBVIOUS
  <2> QED
    BY <1>1, <2>1, <2>3, <2>4 DEF m
<1> QED
  BY <1>2, <1>3, <1>4, <1>5, <1>6 DEF Shown

\* The words of a line: its name and its operands stand in the text.
BodyOf(m, text) == IF text = <<>> THEN <<m>> ELSE <<m, Blank>> \o text

\* A list of the listing's lexemes, with no blank at its ends.
TidyLine(line, size) ==
  line \in Seq(Tidy) /\ Trimmed(line) /\ Len(line) <= size

(* The name comes off a body, and the operands are left. *)
LEMMA BodyParts ==
  ASSUME NEW os, NEW text, Shown(os, text), NEW m \in Plain
  PROVE  /\ TidyLine(BodyOf(m, text), 9)
         /\ FirstToken(BodyOf(m, text)) = <<m>>
         /\ Behind(BodyOf(m, text)) = text
<1>1. m # Blank /\ m \in Tidy /\ Blank \in Tidy /\ Solid(m)
  BY DEF Plain, Tidy, Solid
<1>2. CASE text = <<>>
  <2>1. BodyOf(m, text) = <<m>>
    BY <1>2 DEF BodyOf
  <2>2. <<m>> \in Seq(Tidy) /\ Trimmed(<<m>>) /\ Len(<<m>>) <= 9
    BY <1>1 DEF Trimmed
  <2>3. FirstToken(<<m>>) = <<m>> /\ Behind(<<m>>) = <<>>
    BY <1>1, TokenAlone
  <2> QED
    BY <1>2, <2>1, <2>2, <2>3, Zenon DEF TidyLine
<1>3. CASE text # <<>>
  <2>1. text \in Seq(Tidy) /\ Trimmed(text) /\ Len(text) <= 7
    BY <1>3, ShownText
  <2> DEFINE line == <<m, Blank>> \o text
  <2>2. BodyOf(m, text) = line
    BY <1>3 DEF BodyOf
  <2>3. /\ line \in Seq(Tidy) /\ Len(line) = Len(text) + 2 /\ line[1] = m
        /\ line[Len(text) + 2] = text[Len(text)]
    BY <1>1, <2>1 DEF Trimmed
  <2>4. FirstToken(line) = <<m>> /\ Behind(line) = text
    BY <1>1, <2>1, TokenOff
  <2> HIDE DEF line
  <2>5. Trimmed(line) /\ Len(line) <= 9
    BY <1>1, <2>1, <2>3 DEF Trimmed
  <2> QED
    BY <2>2, <2>3, <2>4, <2>5 DEF TidyLine
<1> QED
  BY <1>2, <1>3

\* A label of the disassembler.
Minted(label) == \E spot \in Word : label = Mint(spot)

\* Operations that need not stand for one word.
Unsized == {NULL, ".ORIG", ".END", ".BLKW", ".STRINGZ"}

\* A line that the assembler can read back.
Printable(d) ==
  /\ \E text : Shown(PrintedOperands(d), text)
  /\ Mnemonic(d) \in Plain
  /\ IsOperationName(<<Mnemonic(d)>>)
  /\ Operation(<<Mnemonic(d)>>) = d.operation
  /\ Conditions(<<Mnemonic(d)>>) = d.conditions
  /\ d.operation \notin Unsized
  /\ d.label = NoLabel \/ Minted(d.label)

(* A label of the disassembler is a lexeme that reads as no operation. *)
LEMMA MintedLexeme ==
  ASSUME NEW label, Minted(label)
  PROVE  /\ label # NoLabel
         /\ \E x \in Plain : label = <<x>> /\ ~IsOperationName(<<x>>)
<1>1. PICK spot \in Word : label = Mint(spot)
  BY DEF Minted
<1> DEFINE digits == Hex4(spot)
           x == Hexadecimal("L_", digits)
<1>2. label = <<x>> /\ label # NoLabel
  BY <1>1, MintAssumption DEF Mint
<1>3. digits \in Seq(Digits) /\ Len(digits) = 4 /\ digits # <<>>
  BY <1>1, HexValues
<1> HIDE DEF digits
<1>4. "L_" \in Spellings /\ Len(Spelling("L_")) <= 8
  BY ListingAssumption DEF ListingSpellings
<1>5. /\ x = [text |-> "L_", minus |-> FALSE, digits |-> digits]
      /\ x.text = "L_" /\ x.digits = digits
  BY DEF Hexadecimal
<1> HIDE DEF x
<1>6. x \in Lexemes
  <2>1. "L_" \in Spellings /\ FALSE \in BOOLEAN /\ digits \in Seq(Digits)
    BY <1>3, <1>4
  <2>2. [text |-> "L_", minus |-> FALSE, digits |-> digits] \in Lexemes
    BY <2>1, Zenon DEF Lexemes
  <2> QED
    BY <1>5, <2>2, Zenon
<1>7. \A s : Name(s).digits = <<>>
  BY DEF Name
<1>8. Solid(x)
  BY <1>3, <1>5, <1>7 DEF Solid, Blank, Comma, Quote, Semicolon
<1>9. x \in Plain
  <2>1. Len(digits) <= 4
    BY <1>3
  <2>2. Len(Spelling(x.text)) <= 8
    BY <1>4, <1>5, Zenon
  <2> QED
    BY <1>5, <1>6, <1>8, <2>1, <2>2, Zenon DEF Plain
<1>10. ~IsOperationName(<<x>>)
  <2>1. <<x>>[1] = x /\ x # Name(x.text)
    BY <1>3, <1>5, <1>7
  <2> QED
    BY <2>1 DEF IsOperationName
<1> QED
  BY <1>2, <1>9, <1>10

(* A line of lexemes of the listing has no comment. *)
LEMMA TidyUncommented ==
  ASSUME NEW line \in Seq(Tidy)
  PROVE  Uncommented(line) = line
<1>1. Places(line, Semicolon) = {}
  BY TidySemicolon DEF Places
<1> QED
  BY <1>1, NoComment

\* How a line begins and goes on.
ReadAs(line, label, name, region) ==
  Parse(line) =
    [label |-> label, operation |-> Operation(name),
     conditions |-> Conditions(name),
     operands |-> IF Operation(name) = ".STRINGZ" THEN StringOperands(region)
                  ELSE PlainOperands(region)]

(* A line with a body alone, and one with a label. *)
LEMMA ParseBody ==
  ASSUME NEW line, NEW body, Trim(Uncommented(line)) = body,
         NEW name, FirstToken(body) = name, IsOperationName(name)
  PROVE  ReadAs(line, NoLabel, name, Behind(body))
  BY Zenon DEF Parse, ReadAs

LEMMA ParseLabelled ==
  ASSUME NEW line, NEW body, Trim(Uncommented(line)) = body,
         NEW label, FirstToken(body) = label, ~IsOperationName(label),
         NEW rest, Behind(body) = rest
  PROVE  ReadAs(line, label, FirstToken(rest), Behind(rest))
  BY Zenon DEF Parse, ReadAs

(* A printed line is read back as what it was printed from. *)
LEMMA ListingLineRead ==
  ASSUME NEW d, Printable(d)
  PROVE  /\ ListingLine(d) \in Seq(Tidy) /\ Len(ListingLine(d)) <= 11
         /\ Trim(Uncommented(ListingLine(d))) # <<>>
         /\ Parse(ListingLine(d)) = Reread(d)
<1>1. PICK text : Shown(PrintedOperands(d), text)
  BY DEF Printable
<1> DEFINE m == Mnemonic(d)
           body == BodyOf(m, text)
<1>2. /\ m \in Plain /\ IsOperationName(<<m>>)
      /\ Operation(<<m>>) = d.operation /\ Conditions(<<m>>) = d.conditions
      /\ d.operation # ".STRINGZ"
  BY DEF Printable, Unsized
<1>3. /\ TidyLine(body, 9) /\ FirstToken(body) = <<m>> /\ Behind(body) = text
  BY <1>1, <1>2, BodyParts
<1>4. Body(d) = body
  BY <1>1, BodyShown DEF BodyOf
<1>5. \A line, label : ReadAs(line, label, <<m>>, text) /\ label = d.label
                          => Parse(line) = Reread(d)
  <2>1. PlainOperands(text)
          = [n \in DOMAIN PrintedOperands(d) |-> BuildOperand(PrintedOperands(d)[n])]
    BY <1>1, ShownOperands
  <2> QED
    BY <1>2, <2>1, Zenon DEF ReadAs, Reread
<1> HIDE DEF m, body
<1>6. /\ body \in Seq(Tidy) /\ Trimmed(body) /\ Len(body) <= 9
      /\ Blank \in Tidy /\ body # <<>>
  BY <1>3 DEF TidyLine, Tidy, Trimmed
<1>7. CASE d.label = NoLabel
  <2> DEFINE line == <<Blank>> \o body
  <2>1. ListingLine(d) = line
    <3>1. <<>> \o <<Blank>> = <<Blank>>
      OBVIOUS
    <3> QED
      BY <1>4, <1>7, <3>1 DEF ListingLine, LabelText
  <2>2. line \in Seq(Tidy) /\ Len(line) <= 11
    BY <1>6
  <2>3. Trim(line) = body
    BY <1>6, TrimFront
  <2> HIDE DEF line
  <2>4. Trim(Uncommented(line)) = body
    BY <2>2, <2>3, TidyUncommented
  <2>5. ReadAs(line, NoLabel, <<m>>, text)
    BY <1>2, <1>3, <2>4, ParseBody
  <2> QED
    BY <1>5, <1>6, <1>7, <2>1, <2>2, <2>4, <2>5
<1>8. CASE Minted(d.label)
  <2>1. PICK x \in Plain : d.label = <<x>> /\ ~IsOperationName(<<x>>)
    BY <1>8, MintedLexeme
  <2>2. d.label # NoLabel
    BY <1>8, MintedLexeme
  <2> DEFINE line == <<x, Blank>> \o body
  <2>3. ListingLine(d) = line
    <3>1. <<x>> \o <<Blank>> = <<x, Blank>>
      BY TwoJoined
    <3> QED
      BY <1>4, <2>1, <2>2, <3>1 DEF ListingLine, LabelText
  <2>4. x \in Tidy /\ x # Blank
    BY DEF Plain, Tidy, Solid
  <2>5. /\ line \in Seq(Tidy) /\ Len(line) = Len(body) + 2
        /\ line[1] = x /\ line[Len(body) + 2] = body[Len(body)]
    BY <1>6, <2>4 DEF Trimmed
  <2>6. FirstToken(line) = <<x>> /\ Behind(line) = body
    BY <1>6, <2>4, TokenOff
  <2> HIDE DEF line
  <2>7. Trimmed(line) /\ Len(line) <= 11 /\ line # <<>>
    BY <1>6, <2>4, <2>5 DEF Trimmed
  <2>8. Trim(Uncommented(line)) = line
    BY <2>5, <2>7, TidyUncommented, TrimTrimmed
  <2>9. ReadAs(line, <<x>>, <<m>>, text)
    BY <1>3, <2>1, <2>6, <2>8, ParseLabelled
  <2> QED
    BY <1>5, <2>1, <2>3, <2>5, <2>7, <2>8, <2>9
<1> QED
  BY <1>7, <1>8 DEF Printable

-----------------------------------------------------------------------------
(* Lines that fit the buffer of main. *)

\* At most n bytes.
Bytes(s, n) == s \in Seq(Byte) /\ Len(s) <= n

(* Parts of thirteen bytes make so many times thirteen. *)
LEMMA PartsWidth ==
  ASSUME NEW parts \in Seq(Seq(Byte)),
         \A i \in 1 .. Len(parts) : Len(parts[i]) <= 13
  PROVE  Bytes(FlattenSeq(parts), 13 * Len(parts))
<1> DEFINE S == Seq(Byte)
           Narrow(p) == \A i \in 1 .. Len(p) : Len(p[i]) <= 13
           T == {n \in Nat : \A p \in Seq(S) :
                   Len(p) = n /\ Narrow(p) => Bytes(FlattenSeq(p), 13 * n)}
<1>1. 0 \in T
  <2>1. \A p \in Seq(S) : Len(p) = 0 => p = <<>>
    OBVIOUS
  <2>2. Bytes(FlattenSeq(<<>>), 13 * 0)
    <3>1. <<>> \in Seq(Byte) /\ Len(<<>>) <= 13 * 0
      OBVIOUS
    <3> QED
      BY <3>1, FlattenEmpty DEF Bytes
  <2> HIDE DEF S, Narrow
  <2> QED
    BY <2>1, <2>2
<1>2. ASSUME NEW n \in Nat, n \in T PROVE n + 1 \in T
  <2>1. n + 1 \in Nat
    BY <1>2
  <2>2. SUFFICES ASSUME NEW p \in Seq(S), Len(p) = n + 1, Narrow(p)
                 PROVE  Bytes(FlattenSeq(p), 13 * (n + 1))
    <3> HIDE DEF S, Narrow
    <3> QED
      BY <2>1
  <2>3. \E q \in Seq(S) : \E last \in S : p = Append(q, last)
    <3>1. p # <<>>
      BY <2>2
    <3> HIDE DEF S
    <3> QED
      BY <3>1, SequenceEmptyOrAppend
  <2>4. PICK q \in Seq(S), last \in S : p = Append(q, last)
    BY <2>3
  <2>5. /\ Len(q) = n /\ Len(q) \in Nat /\ n + 1 \in 1 .. Len(p)
        /\ \A i \in 1 .. n : i \in 1 .. Len(p) /\ p[i] = q[i]
        /\ p[n + 1] = last
    <3> HIDE DEF S
    <3> QED
      BY <2>2, <2>4, AppendProperties
  <2>6. Narrow(q) /\ Len(last) <= 13
    BY <2>2, <2>5
  <2>7. Bytes(FlattenSeq(q), 13 * n)
    <3> HIDE DEF S, Narrow
    <3> QED
      BY <1>2, <2>5, <2>6
  <2>8. FlattenSeq(p) = FlattenSeq(q) \o last
    BY <2>4, FlattenAppend
  <2>9. last \in Seq(Byte)
    OBVIOUS
  <2> QED
    BY <2>6, <2>7, <2>8, <2>9 DEF Bytes
<1> HIDE DEF T
<1>3. \A n \in Nat : n \in T
  BY <1>1, <1>2, Induction
<1>4. Len(parts) \in T
  BY <1>3
<1> QED
  BY <1>4 DEF T

(* No lexemes, no characters. *)
LEMMA NothingTyped ==
  ASSUME NEW S
  PROVE  <<>> \in Seq(S) /\ Len(<<>>) <= 4
  OBVIOUS

(* Every lexeme of a listing is spelled with ListingSpellings. *)
LEMMA TidySpelled ==
  ASSUME NEW x \in Tidy
  PROVE  /\ x \in Lexemes /\ x.text \in Spellings /\ x.digits \in Seq(Digits)
         /\ Len(x.digits) <= 4 /\ Len(Spelling(x.text)) <= 8
<1>1. CASE x \in Plain
  BY <1>1 DEF Plain, Lexemes
<1>2. ASSUME NEW text \in {" ", ","}, x = Name(text)
      PROVE  /\ x \in Lexemes /\ x.text \in Spellings /\ x.digits \in Seq(Digits)
             /\ Len(x.digits) <= 4 /\ Len(Spelling(x.text)) <= 8
  <2>1. text \in Spellings /\ Len(Spelling(text)) <= 8
    BY ListingAssumption DEF ListingSpellings
  <2>2. x = [text |-> text, minus |-> FALSE, digits |-> <<>>]
    BY <1>2 DEF Name
  <2>3. <<>> \in Seq(Digits) /\ Len(<<>>) <= 4 /\ FALSE \in BOOLEAN
    BY NothingTyped
  <2>4. x \in Lexemes
    BY <2>1, <2>2, <2>3, Zenon DEF Lexemes
  <2>5. x.text = text /\ x.digits = <<>>
    BY <2>2
  <2> QED
    BY <2>1, <2>3, <2>4, <2>5, Zenon
<1> QED
  BY <1>1, <1>2 DEF Tidy, Blank, Comma

(* A lexeme of the listing is thirteen characters at most. *)
LEMMA TidyWidth ==
  ASSUME NEW x \in Tidy
  PROVE  Bytes(Characters(x), 13)
<1> DEFINE d == x.digits
           sign == IF x.minus THEN <<45>> ELSE <<>>
           tail == [n \in DOMAIN d |-> d[n] + (IF d[n] < 10 THEN 48 ELSE 55)]
           head == Spelling(x.text)
<1>1. x.text \in Spellings /\ d \in Seq(Digits) /\ Len(d) <= 4 /\ Len(head) <= 8
  BY TidySpelled
<1>2. head \in Seq(Byte)
  BY <1>1, SpellingAssumption
<1>3. sign \in Seq(Byte) /\ Len(sign) <= 1
  <2>1. <<45>> \in Seq(Byte) /\ Len(<<45>>) <= 1
    BY DEF Byte
  <2>2. <<>> \in Seq(Byte) /\ Len(<<>>) <= 1
    OBVIOUS
  <2> QED
    BY <2>1, <2>2, Zenon
<1>4. tail \in Seq(Byte) /\ Len(tail) <= 4
  <2>1. \A n \in DOMAIN d : d[n] \in Digits
    BY <1>1
  <2>2. \A n \in DOMAIN d : d[n] + (IF d[n] < 10 THEN 48 ELSE 55) \in Byte
    BY <2>1 DEF Digits, Byte
  <2>3. tail \in [1 .. Len(d) -> Byte] /\ Len(d) \in Nat
    BY <1>1, <2>2
  <2> QED
    BY <1>1, <2>3
<1>5. Characters(x) = (head \o sign) \o tail
  BY DEF Characters
<1> HIDE DEF head, sign, tail
<1> QED
  BY <1>1, <1>2, <1>3, <1>4, <1>5 DEF Bytes

(* A line has eight lexemes at most, and so fits. *)
LEMMA TidyLineWidth ==
  ASSUME NEW line \in Seq(Tidy)
  PROVE  /\ Width(line) \in Nat /\ Width(line) <= 13 * Len(line)
<1> DEFINE parts == [n \in DOMAIN line |-> Characters(line[n])]
<1>1. \A n \in 1 .. Len(line) : /\ Characters(line[n]) \in Seq(Byte)
                                /\ Len(Characters(line[n])) <= 13
  BY TidyWidth DEF Bytes
<1>2. /\ parts \in Seq(Seq(Byte)) /\ Len(parts) = Len(line)
      /\ \A i \in 1 .. Len(parts) : Len(parts[i]) <= 13
  BY <1>1
<1>3. Width(line) = Len(FlattenSeq(parts))
  BY DEF Width, Text
<1> HIDE DEF parts
<1>4. Bytes(FlattenSeq(parts), 13 * Len(line))
  BY <1>2, PartsWidth
<1> QED
  BY <1>3, <1>4 DEF Bytes

\* fgets returns it whole, and it is not skipped as blank.
Legible(line) ==
  /\ line \in Seq(Tidy) /\ Len(line) <= 11
  /\ Trim(Uncommented(line)) # <<>>

(* ReadLine takes such a line whole. *)
LEMMA LegibleRead ==
  ASSUME NEW line, Legible(line)
  PROVE  Chunk(line) = line /\ Rest(line) = <<>> /\ ~IsBlankLine(line)
<1>1. line \in Seq(Tidy) /\ Len(line) \in Nat /\ Len(line) <= 11
  BY DEF Legible
<1> DEFINE S == {n \in 0 .. Len(line) : Width(SubSeq(line, 1, n)) < LINE_SIZE}
<1>2. SubSeq(line, 1, Len(line)) = line
  BY <1>1, SubSeqFull
<1>3. Width(line) < LINE_SIZE
  BY <1>1, TidyLineWidth DEF LINE_SIZE
<1>4. Len(line) \in S /\ S \subseteq Nat /\ \A i \in S : i <= Len(line)
  <2>1. Width(SubSeq(line, 1, Len(line))) < LINE_SIZE
    BY <1>2, <1>3, Zenon
  <2> QED
    BY <1>1, <2>1
<1>5. ChunkLength(line) = Max(S)
  BY DEF ChunkLength
<1> HIDE DEF S
<1>6. ChunkLength(line) = Len(line)
  BY <1>4, <1>5, MaxIs
<1>7. SubSeq(line, Len(line) + 1, Len(line)) = <<>>
  BY <1>1
<1> QED
  BY <1>2, <1>6, <1>7 DEF Chunk, Rest, IsBlankLine, Legible

-----------------------------------------------------------------------------
(* The lines of a listing can be read back. *)

(* The lexemes the disassembler makes: names, registers, numbers. *)
LEMMA PlainLexeme ==
  ASSUME NEW text \in ListingSpellings, text \notin {" ", ",", "\"", ";"},
         NEW minus \in BOOLEAN, NEW digits \in Seq(Digits), Len(digits) <= 4
  PROVE  [text |-> text, minus |-> minus, digits |-> digits] \in Plain
<1> SUFFICES ASSUME NEW x, x = [text |-> text, minus |-> minus, digits |-> digits]
             PROVE  x \in Plain
  OBVIOUS
<1>1. text \in Spellings /\ Len(Spelling(text)) <= 8
  BY ListingAssumption
<1>2. x.text = text /\ x.digits = digits
  OBVIOUS
<1>3. x \in Lexemes
  BY <1>1, Zenon DEF Lexemes
<1>4. \A s : Name(s).text = s
  BY DEF Name
<1>5. Solid(x)
  BY <1>2, <1>4, Zenon DEF Solid, Blank, Comma, Quote, Semicolon
<1> QED
  BY <1>1, <1>2, <1>3, <1>5, Zenon DEF Plain

LEMMA PlainName ==
  ASSUME NEW text \in ListingSpellings, text \notin {" ", ",", "\"", ";"}
  PROVE  Name(text) \in Plain
<1>1. <<>> \in Seq(Digits) /\ Len(<<>>) <= 4 /\ FALSE \in BOOLEAN
  BY NothingTyped
<1> HIDE DEF ListingSpellings
<1>2. [text |-> text, minus |-> FALSE, digits |-> <<>>] \in Plain
  BY <1>1, PlainLexeme
<1> QED
  BY <1>2 DEF Name

LEMMA PlainRegister ==
  ASSUME NEW code \in GeneralRegisters
  PROVE  RegisterLexeme(code) \in Plain
<1>1. RegisterName(code) \in ListingSpellings
  BY DEF ListingSpellings
<1>2. RegisterName(code) \in {"R0", "R1", "R2", "R3", "R4", "R5", "R6", "R7"}
  BY DEF RegisterName, GeneralRegisters
<1>3. RegisterName(code) \notin {" ", ",", "\"", ";"}
  BY <1>2
<1> QED
  BY <1>1, <1>3, PlainName DEF RegisterLexeme

LEMMA PlainHexadecimal ==
  ASSUME NEW digits \in Seq(Digits), Len(digits) <= 4
  PROVE  Hexadecimal("x", digits) \in Plain
<1>1. "x" \in ListingSpellings /\ "x" \notin {" ", ",", "\"", ";"} /\ FALSE \in BOOLEAN
  BY DEF ListingSpellings
<1>2. [text |-> "x", minus |-> FALSE, digits |-> digits] \in Plain
  BY <1>1, PlainLexeme
<1> QED
  BY <1>2 DEF Hexadecimal

LEMMA PlainDecimal ==
  ASSUME NEW n \in Int, -32 <= n, n <= 31
  PROVE  Decimal(n) \in Plain
<1> DEFINE size == IF n < 0 THEN -n ELSE n
           digits == IF size < 10 THEN <<size>> ELSE <<size \div 10, size % 10>>
<1>1. "#" \in ListingSpellings /\ "#" \notin {" ", ",", "\"", ";"}
  BY DEF ListingSpellings
<1>2. size \in Int /\ 0 <= size /\ size <= 32
  OBVIOUS
<1> HIDE DEF size
<1>3. digits \in Seq(Digits) /\ Len(digits) <= 4
  <2>1. CASE size < 10
    BY <1>2, <2>1 DEF Digits
  <2>2. CASE ~(size < 10)
    BY <1>2, <2>2 DEF Digits
  <2> QED
    BY <2>1, <2>2
<1>4. (n < 0) \in BOOLEAN
  OBVIOUS
<1>5. Decimal(n) = [text |-> "#", minus |-> n < 0, digits |-> digits]
  BY DEF Decimal, size
<1> HIDE DEF digits
<1> QED
  BY <1>1, <1>3, <1>4, <1>5, PlainLexeme

-----------------------------------------------------------------------------
\* A name, with the conditions of a BR.
KnownName(name, letters) ==
  \/ /\ \/ name \in OperationNames \ (Directives \cup DOMAIN Branches)
        \/ name = ".FILL"
     /\ letters = {}
  \/ name = "BR" /\ letters \in SUBSET {"N", "Z", "P"}

(* No name is punctuation. *)
LEMMA NamesSolid ==
  ASSUME NEW name \in OperationNames \cup DOMAIN BranchNames
  PROVE  name \in ListingSpellings /\ name \notin {" ", ",", "\"", ";"}
<1>1. name \in ListingSpellings
  BY DEF ListingSpellings
<1>2. name \notin {" ", ",", "\"", ";"}
  BY DEF OperationNames, Opcodes, TrapNames, Directives, Branches, BranchNames
<1> QED
  BY <1>1, <1>2

(* A BR is printed with one of the names of its conditions. *)
LEMMA BranchNamed ==
  ASSUME NEW letters \in SUBSET {"N", "Z", "P"}
  PROVE  \E name \in DOMAIN BranchNames : BranchNames[name] = letters
<1>1. \/ letters = {} \/ letters = {"N"} \/ letters = {"Z"} \/ letters = {"P"}
      \/ letters = {"N", "Z"} \/ letters = {"N", "P"} \/ letters = {"Z", "P"}
      \/ letters = {"N", "Z", "P"}
  OBVIOUS
<1>2. /\ {"BR", "BRn", "BRz", "BRp", "BRnz", "BRnp", "BRzp", "BRnzp"}
           = DOMAIN BranchNames
      /\ BranchNames["BR"] = {} /\ BranchNames["BRn"] = {"N"}
      /\ BranchNames["BRz"] = {"Z"} /\ BranchNames["BRp"] = {"P"}
      /\ BranchNames["BRnz"] = {"N", "Z"} /\ BranchNames["BRnp"] = {"N", "P"}
      /\ BranchNames["BRzp"] = {"Z", "P"}
      /\ BranchNames["BRnzp"] = {"N", "Z", "P"}
  BY DEF BranchNames
<1>3. \A n \in {"BR", "BRn", "BRz", "BRp", "BRnz", "BRnp", "BRzp", "BRnzp"} :
        n \in DOMAIN BranchNames
  BY <1>2, Zenon
<1>4. /\ "BR" \in DOMAIN BranchNames /\ "BRn" \in DOMAIN BranchNames
      /\ "BRz" \in DOMAIN BranchNames /\ "BRp" \in DOMAIN BranchNames
      /\ "BRnz" \in DOMAIN BranchNames /\ "BRnp" \in DOMAIN BranchNames
      /\ "BRzp" \in DOMAIN BranchNames /\ "BRnzp" \in DOMAIN BranchNames
  BY <1>3
<1> QED
  BY <1>1, <1>2, <1>4, Zenon

\* The parser finds the operation and the conditions behind the text.
Finds(text, name, letters) ==
  /\ IsOperationName(<<Name(text)>>)
  /\ Operation(<<Name(text)>>) = name /\ Conditions(<<Name(text)>>) = letters

(* Names are found whatever their case. *)
LEMMA UpperFound ==
  ASSUME NEW text, NEW upper, UpperCase(text) = upper, upper \in OperationNames,
         NEW name, name = (IF upper \in DOMAIN Branches THEN "BR" ELSE upper),
         NEW letters,
         letters = (IF upper \in DOMAIN Branches THEN Branches[upper] ELSE {})
  PROVE  Finds(text, name, letters)
<1> DEFINE token == <<Name(text)>>
<1>1. /\ Len(token) = 1 /\ token[1] = Name(text) /\ token # <<>>
      /\ Name(text).text = text
  BY DEF Name
<1>2. Upper(Name(text)).text = upper
  BY <1>1 DEF Upper
<1> HIDE DEF token
<1>3. IsOperationName(token)
  BY <1>1, <1>2 DEF IsOperationName
<1>4. Operation(token) = name
  BY <1>1, <1>2, <1>3, Zenon DEF Operation
<1>5. Conditions(token) = letters
  BY <1>1, <1>2, <1>3, Zenon DEF Conditions
<1> QED
  BY <1>3, <1>4, <1>5 DEF Finds, token

(* What Mnemonic prints is found again. *)
LEMMA MnemonicFound ==
  ASSUME NEW d, KnownName(d.operation, d.conditions)
  PROVE  /\ Mnemonic(d) \in Plain /\ d.operation \notin Unsized
         /\ \E text : /\ Mnemonic(d) = Name(text)
                      /\ Finds(text, d.operation, d.conditions)
<1>1. CASE d.operation = "BR" /\ d.conditions \in SUBSET {"N", "Z", "P"}
  <2> DEFINE text == CHOOSE name \in DOMAIN BranchNames :
                       BranchNames[name] = d.conditions
  <2>1. text \in DOMAIN BranchNames /\ BranchNames[text] = d.conditions
    BY <1>1, BranchNamed
  <2>2. Mnemonic(d) = Name(text)
    BY <1>1 DEF Mnemonic
  <2> HIDE DEF text
  <2>3. /\ UpperCase(text) \in DOMAIN Branches
        /\ Branches[UpperCase(text)] = d.conditions
    BY <2>1, ListingAssumption
  <2>4. UpperCase(text) \in OperationNames
    BY <2>3 DEF OperationNames
  <2>5. Finds(text, "BR", d.conditions)
    BY <2>3, <2>4, UpperFound
  <2>6. Name(text) \in Plain
    BY <2>1, NamesSolid, PlainName
  <2> QED
    BY <1>1, <2>2, <2>5, <2>6 DEF Unsized, NULL
<1>2. CASE /\ \/ d.operation \in OperationNames \ (Directives \cup DOMAIN Branches)
              \/ d.operation = ".FILL"
           /\ d.conditions = {}
  <2> DEFINE text == d.operation
  <2>1. /\ text \in OperationNames /\ text \notin DOMAIN Branches
    <3>1. /\ Directives \subseteq OperationNames /\ ".FILL" \in Directives
          /\ ".FILL" \notin DOMAIN Branches
      BY DEF OperationNames, Directives, Branches
    <3> QED
      BY <1>2, <3>1
  <2>2. text # "BR"
    BY <2>1 DEF Branches
  <2>3. Mnemonic(d) = Name(text)
    BY <2>2 DEF Mnemonic
  <2>4. UpperCase(text) = text
    BY <2>1, ListingAssumption
  <2>5. Finds(text, text, {})
    BY <2>1, <2>4, UpperFound
  <2>6. Name(text) \in Plain
    BY <2>1, NamesSolid, PlainName
  <2>7. text \notin Unsized
    <3>1. Unsized \cap (DOMAIN Opcodes \cup TrapNames) = {}
      BY DEF Unsized, NULL, Opcodes, TrapNames
    <3>2. ".FILL" \notin Unsized
      BY DEF Unsized, NULL
    <3> QED
      BY <1>2, <3>1, <3>2 DEF OperationNames
  <2> QED
    BY <1>2, <2>1, <2>3, <2>5, <2>6, <2>7, Zenon
<1> QED
  BY <1>1, <1>2 DEF KnownName

-----------------------------------------------------------------------------
(* What each decoder leaves can be printed so that it is read back. *)

\* The operands of a decoded line, without its label.
NoneOrOne(os) == os = <<>> \/ \E x \in Plain : os = <<x>>
UpToThree(os) ==
  \/ NoneOrOne(os)
  \/ \E x, y \in Plain : os = <<x, y>>
  \/ \E x, y, z \in Plain : os = <<x, y, z>>

\* The line can be printed once it has the label of its target.
WellDecoded(d) ==
  /\ KnownName(d.operation, d.conditions)
  /\ d.has_target \in BOOLEAN
  /\ IF d.has_target THEN NoneOrOne(d.operands) ELSE UpToThree(d.operands)

(* The operands of a well decoded line can be shown. *)
LEMMA WellShaped ==
  ASSUME NEW d, NEW name, NEW letters, NEW operands, KnownName(name, letters)
  PROVE  /\ Shape(d, name, letters, operands, FALSE) /\ UpToThree(operands)
              => WellDecoded(d)
         /\ Shape(d, name, letters, operands, TRUE) /\ NoneOrOne(operands)
              => WellDecoded(d)
<1>1. ASSUME Shape(d, name, letters, operands, FALSE), UpToThree(operands)
      PROVE  WellDecoded(d)
  <2>1. d.has_target = FALSE
    BY <1>1 DEF Shape
  <2> QED
    BY <1>1, <2>1 DEF Shape, WellDecoded
<1>2. ASSUME Shape(d, name, letters, operands, TRUE), NoneOrOne(operands)
      PROVE  WellDecoded(d)
  <2>1. d.has_target = TRUE
    BY <1>2 DEF Shape
  <2> QED
    BY <1>2, <2>1 DEF Shape, WellDecoded
<1> QED
  BY <1>1, <1>2

(* The decoders name operations the parser knows. *)
LEMMA NamesKnown ==
  /\ \A name \in {"ADD", "AND", "NOT", "JMP", "RET", "JSR", "JSRR", "LD", "LDI",
                  "LEA", "ST", "STI", "LDR", "STR", "TRAP", "RTI", ".FILL"} :
       KnownName(name, {})
  /\ \A name \in TrapNames : KnownName(name, {})
<1>1. \A name \in {"ADD", "AND", "NOT", "JMP", "RET", "JSR", "JSRR", "LD", "LDI",
                   "LEA", "ST", "STI", "LDR", "STR", "TRAP", "RTI"} :
        name \in DOMAIN Opcodes
  BY DEF Opcodes
<1>2. \A name \in {"ADD", "AND", "NOT", "JMP", "RET", "JSR", "JSRR", "LD", "LDI",
                   "LEA", "ST", "STI", "LDR", "STR", "TRAP", "RTI", ".FILL"} :
        name \in OperationNames
  BY <1>1 DEF OperationNames, Directives
<1>3. \A name \in TrapNames : name \in OperationNames
  BY DEF OperationNames
<1>4. \A name \in {"ADD", "AND", "NOT", "JMP", "RET", "JSR", "JSRR", "LD", "LDI",
                   "LEA", "ST", "STI", "LDR", "STR", "TRAP", "RTI", ".FILL"} :
        name \notin DOMAIN Branches /\ (name \notin Directives \/ name = ".FILL")
  BY DEF Branches, Directives
<1>5. \A name \in TrapNames : name \notin DOMAIN Branches /\ name \notin Directives
  BY DEF TrapNames, Branches, Directives
<1> QED
  BY <1>2, <1>3, <1>4, <1>5 DEF KnownName

(* One word, by the form of its line. *)
LEMMA WellNamed ==
  ASSUME NEW word, NEW spot, NEW name, KnownName(name, {}), NEW operands
  PROVE  /\ UpToThree(operands) =>
              WellDecoded(Decoded(Undecoded(word, spot), name, operands))
         /\ \A span : NoneOrOne(operands) =>
              WellDecoded(WithTarget(Decoded(Undecoded(word, spot), name, operands),
                                     span))
<1>1. Shape(Decoded(Undecoded(word, spot), name, operands), name, {}, operands,
            FALSE)
  BY DecodedShape
<1>2. \A span : Shape(WithTarget(Decoded(Undecoded(word, spot), name, operands),
                                 span), name, {}, operands, TRUE)
  BY TargetShape
<1> QED
  BY <1>1, <1>2, WellShaped

LEMMA WellData ==
  ASSUME NEW word \in Word, NEW spot
  PROVE  WellDecoded(Data(Undecoded(word, spot)))
<1> DEFINE x == Hexadecimal("x", Hex4(word))
<1>1. Shape(Data(Undecoded(word, spot)), ".FILL", {}, <<x>>, FALSE)
  BY DataShape
<1>2. Hex4(word) \in Seq(Digits) /\ Len(Hex4(word)) <= 4
  <2>1. Hex4(word) \in Seq(Digits) /\ Len(Hex4(word)) = 4
    BY HexValues
  <2> QED
    BY <2>1
<1>3. x \in Plain
  BY <1>2, PlainHexadecimal
<1>4. UpToThree(<<x>>)
  BY <1>3 DEF UpToThree, NoneOrOne
<1>5. KnownName(".FILL", {})
  BY NamesKnown
<1> HIDE DEF x
<1> QED
  BY <1>1, <1>4, <1>5, WellShaped

(* The register fields are general registers. *)
LEMMA WordRegisters ==
  ASSUME NEW word \in Word, NEW u, u.word = word
  PROVE  /\ FirstRegister(u) \in Plain /\ SecondRegister(u) \in Plain
         /\ RegisterLexeme(FieldSR2(u.word)) \in Plain
         /\ Decimal(SignedField(u.word, 32)) \in Plain
         /\ Decimal(SignedField(u.word, 64)) \in Plain
<1>1. /\ FieldDR(word) \in GeneralRegisters /\ FieldSR1(word) \in GeneralRegisters
      /\ FieldSR2(word) \in GeneralRegisters
  BY RegisterFields
<1>2. /\ RegisterLexeme(FieldDR(word)) \in Plain
      /\ RegisterLexeme(FieldSR1(word)) \in Plain
      /\ RegisterLexeme(FieldSR2(word)) \in Plain
  BY <1>1, PlainRegister
<1>3. ASSUME NEW span \in {32, 64}, NEW n, n = SignedField(word, span)
      PROVE  n \in Int /\ -32 <= n /\ n <= 31
  <2>1. n \in Int /\ n \in -(span \div 2) .. span \div 2 - 1
    BY <1>3, SignedFieldMasked
  <2> QED
    BY <2>1
<1>4. Decimal(SignedField(word, 32)) \in Plain /\ Decimal(SignedField(word, 64)) \in Plain
  BY <1>3, PlainDecimal
<1> QED
  BY <1>2, <1>4 DEF FirstRegister, SecondRegister

(* So are the names of the traps. *)
LEMMA TrapsNamed ==
  ASSUME NEW vector \in Traps
  PROVE  TrapName(vector) \in TrapNames
  BY TrapNamed

\* Whatever the word, its fresh line can be printed.
LEMMA WellFresh ==
  ASSUME NEW word \in Word, NEW spot \in Word
  PROVE  WellDecoded(Decode(Undecoded(word, spot)))
<1> DEFINE u == Undecoded(word, spot)
           a == FirstRegister(u)
           b == SecondRegister(u)
           code == Opcode(u.word)
<1>1. /\ u.word = word /\ WellDecoded(Data(u))
      /\ \A name, operands : KnownName(name, {}) =>
           /\ UpToThree(operands) => WellDecoded(Decoded(u, name, operands))
           /\ \A span : NoneOrOne(operands) =>
                WellDecoded(WithTarget(Decoded(u, name, operands), span))
  BY UndecodedFields, WellData, WellNamed
<1>2. /\ a \in Plain /\ b \in Plain
      /\ RegisterLexeme(FieldSR2(u.word)) \in Plain
      /\ Decimal(SignedField(u.word, 32)) \in Plain
      /\ Decimal(SignedField(u.word, 64)) \in Plain
  BY <1>1, WordRegisters
<1>3. code \in Int /\ 0 <= code /\ code <= 15
  BY <1>1, WordFields
<1>4. /\ NoneOrOne(<<>>) /\ UpToThree(<<>>)
      /\ \A x \in Plain : NoneOrOne(<<x>>) /\ UpToThree(<<x>>)
      /\ \A x, y \in Plain : UpToThree(<<x, y>>)
      /\ \A x, y, z \in Plain : UpToThree(<<x, y, z>>)
  BY Zenon DEF NoneOrOne, UpToThree
<1>5. NameOf(u) = OperationName(code)
  BY DEF NameOf
<1>6. \A letters \in SUBSET {"N", "Z", "P"} : \A span :
        WellDecoded(WithTarget([Decoded(u, "BR", <<>>)
                                  EXCEPT !.conditions = letters], span))
  <2>1. ASSUME NEW letters \in SUBSET {"N", "Z", "P"}, NEW span, NEW d, NEW name,
               name = "BR",
               d = WithTarget([Decoded(Undecoded(word, spot), name, <<>>)
                                 EXCEPT !.conditions = letters], span)
        PROVE  WellDecoded(d)
    <3>1. Shape(d, name, letters, <<>>, TRUE)
      BY <2>1, BranchShape, Zenon
    <3>2. KnownName(name, letters)
      BY <2>1 DEF KnownName
    <3> HIDE DEF u
    <3> QED
      BY <1>4, <3>1, <3>2, WellShaped
  <2> QED
    BY <2>1
<1> HIDE DEF u, a, b
<1>7. code \in {OP_ADD, OP_AND} => WellDecoded(DecodeArithmetic(u))
  <2>1. ASSUME code \in {OP_ADD, OP_AND} PROVE KnownName(NameOf(u), {})
    BY <1>5, <2>1, NamesKnown, OperationNamesAre
  <2>2. ASSUME code \in {OP_ADD, OP_AND} PROVE WellDecoded(DecodeArithmetic(u))
    BY <1>1, <1>2, <1>4, <2>1, <2>2, ArithmeticForms DEF a, b
  <2> QED
    BY <2>2
<1>8. code = OP_NOT => WellDecoded(DecodeNot(u))
  <2>1. ASSUME code = OP_NOT PROVE KnownName(NameOf(u), {})
    BY <1>5, <2>1, NamesKnown, OperationNamesAre
  <2> QED
    BY <1>1, <1>2, <1>4, <2>1 DEF DecodeNot, a, b
<1>9. code = OP_JMP => WellDecoded(DecodeJmp(u))
  <2>1. ASSUME code = OP_JMP PROVE KnownName(NameOf(u), {}) /\ KnownName("RET", {})
    BY <1>5, <2>1, NamesKnown, OperationNamesAre
  <2> QED
    BY <1>1, <1>2, <1>4, <2>1 DEF DecodeJmp, b
<1>10. code = OP_JSR => WellDecoded(DecodeJsr(u))
  <2>1. ASSUME code = OP_JSR PROVE KnownName(NameOf(u), {}) /\ KnownName("JSRR", {})
    BY <1>5, <2>1, NamesKnown, OperationNamesAre
  <2> QED
    BY <1>1, <1>2, <1>4, <2>1 DEF DecodeJsr, b
<1>11. code \in {OP_LD, OP_LDI, OP_LEA, OP_ST, OP_STI} =>
         WellDecoded(DecodePcRelative(u))
  <2>1. ASSUME code \in {OP_LD, OP_LDI, OP_LEA, OP_ST, OP_STI}
        PROVE  KnownName(NameOf(u), {})
    BY <1>5, <2>1, NamesKnown, OperationNamesAre
  <2> QED
    BY <1>1, <1>2, <1>4, <2>1 DEF DecodePcRelative, a
<1>12. code \in {OP_LDR, OP_STR} => WellDecoded(DecodeBaseOffset(u))
  <2>1. ASSUME code \in {OP_LDR, OP_STR} PROVE KnownName(NameOf(u), {})
    BY <1>5, <2>1, NamesKnown, OperationNamesAre
  <2> QED
    BY <1>1, <1>2, <1>4, <2>1 DEF DecodeBaseOffset, a, b
<1>13. code = OP_TRAP => WellDecoded(DecodeTrap(u))
  <2> DEFINE vector == u.word % 256
  <2>1. ASSUME code = OP_TRAP PROVE KnownName(NameOf(u), {})
    BY <1>5, <2>1, NamesKnown, OperationNamesAre
  <2>2. vector \in Traps => KnownName(TrapName(vector), {})
    BY TrapsNamed, NamesKnown
  <2>3. Hexadecimal("x", Hex2(vector)) \in Plain
    <3>1. vector \in Byte
      BY <1>1, WordBounds DEF Byte
    <3>2. Hex2(vector) \in Seq(Digits) /\ Len(Hex2(vector)) <= 4
      BY <3>1, HexValues
    <3> QED
      BY <3>2, PlainHexadecimal
  <2> QED
    BY <1>1, <1>4, <2>1, <2>2, <2>3 DEF DecodeTrap
<1>14. code = OP_RTI => WellDecoded(DecodeRti(u))
  <2>1. ASSUME code = OP_RTI PROVE KnownName(NameOf(u), {})
    BY <1>5, <2>1, NamesKnown, OperationNamesAre
  <2> QED
    BY <1>1, <1>4, <2>1 DEF DecodeRti
<1>15. code = OP_BR => WellDecoded(DecodeBr(u))
  <2> DEFINE letters == {c \in {"N", "Z", "P"} :
                           BitAnd(FieldDR(u.word), BranchMask({c})) # 0}
  <2>1. letters \in SUBSET {"N", "Z", "P"}
    OBVIOUS
  <2>2. ASSUME code = OP_BR PROVE NameOf(u) = "BR"
    BY <1>5, <2>2, OperationNamesAre
  <2>3. FieldDR(u.word) # 0 =>
          DecodeBr(u) = WithTarget([Decoded(u, NameOf(u), <<>>)
                                      EXCEPT !.conditions = letters], 512)
    BY Zenon DEF DecodeBr
  <2>4. FieldDR(u.word) = 0 => DecodeBr(u) = Data(u)
    BY Zenon DEF DecodeBr
  <2> HIDE DEF letters
  <2> QED
    BY <1>1, <1>6, <2>1, <2>2, <2>3, <2>4, Zenon
<1>16. WellDecoded(Decode(u))
  <2>1. /\ code \in {OP_ADD, OP_AND} => Decode(u) = DecodeArithmetic(u)
        /\ code = OP_NOT => Decode(u) = DecodeNot(u)
        /\ code = OP_BR => Decode(u) = DecodeBr(u)
        /\ code = OP_JMP => Decode(u) = DecodeJmp(u)
        /\ code = OP_JSR => Decode(u) = DecodeJsr(u)
        /\ code \in {OP_LD, OP_LDI, OP_LEA, OP_ST, OP_STI} =>
             Decode(u) = DecodePcRelative(u)
        /\ code \in {OP_LDR, OP_STR} => Decode(u) = DecodeBaseOffset(u)
        /\ code = OP_TRAP => Decode(u) = DecodeTrap(u)
        /\ code = OP_RTI => Decode(u) = DecodeRti(u)
        /\ code = OP_RES => Decode(u) = Data(u)
    BY DEF Decode, OP_BR, OP_ADD, OP_LD, OP_ST, OP_JSR, OP_AND, OP_LDR,
           OP_STR, OP_RTI, OP_NOT, OP_LDI, OP_STI, OP_JMP, OP_RES, OP_LEA,
           OP_TRAP
  <2>2. \/ code \in {OP_ADD, OP_AND, OP_NOT, OP_JMP, OP_TRAP, OP_RTI, OP_RES}
        \/ code \in {OP_LDR, OP_STR, OP_BR, OP_JSR}
        \/ code \in {OP_LD, OP_LDI, OP_LEA, OP_ST, OP_STI}
    BY <1>3 DEF OP_BR, OP_ADD, OP_LD, OP_ST, OP_JSR, OP_AND, OP_LDR, OP_STR,
                OP_RTI, OP_NOT, OP_LDI, OP_STI, OP_JMP, OP_RES, OP_LEA, OP_TRAP
  <2> HIDE DEF code
  <2> QED
    BY <1>1, <1>7, <1>8, <1>9, <1>10, <1>11, <1>12, <1>13, <1>14, <1>15, <2>1, <2>2
<1> QED
  BY <1>16 DEF u

-----------------------------------------------------------------------------
(* Every line of a finished listing can be printed. *)

(* One operand, and two or three. *)
LEMMA ShownOne ==
  ASSUME NEW d, NoneOrOne(d.operands), d.has_target,
         NEW label, d.reference_label = label, Minted(label)
  PROVE  \E text : Shown(PrintedOperands(d), text)
<1>1. PICK l \in Plain : label = <<l>>
  BY MintedLexeme
<1>2. LabelText(d.reference_label) = <<l>>
  BY <1>1, MintedLexeme DEF LabelText
<1> DEFINE front == [n \in DOMAIN d.operands |-> <<d.operands[n]>>]
<1>3. PrintedOperands(d) = front \o <<<<l>>>>
  BY <1>2 DEF PrintedOperands
<1>4. CASE d.operands = <<>>
  <2>1. front = <<>>
    BY <1>4
  <2>2. <<>> \o <<<<l>>>> = <<<<l>>>>
    BY ConcatEmptySeq
  <2>3. Shown(<<<<l>>>>, <<l>>)
    BY DEF Shown
  <2> QED
    BY <1>3, <2>1, <2>2, <2>3
<1>5. CASE \E x \in Plain : d.operands = <<x>>
  <2>1. PICK x \in Plain : d.operands = <<x>>
    BY <1>5
  <2>2. front = <<<<x>>>>
    BY <2>1
  <2>3. <<<<x>>>> \o <<<<l>>>> = <<<<x>>, <<l>>>>
    BY TwoJoined
  <2>4. Shown(<<<<x>>, <<l>>>>, <<x, Comma, Blank, l>>)
    BY DEF Shown
  <2> QED
    BY <1>3, <2>2, <2>3, <2>4
<1> QED
  BY <1>4, <1>5 DEF NoneOrOne

LEMMA ShownMany ==
  ASSUME NEW d, UpToThree(d.operands), ~d.has_target
  PROVE  \E text : Shown(PrintedOperands(d), text)
<1> DEFINE front == [n \in DOMAIN d.operands |-> <<d.operands[n]>>]
<1>1. PrintedOperands(d) = front \o <<>>
  BY DEF PrintedOperands
<1>2. CASE d.operands = <<>>
  <2>1. front = <<>> /\ <<>> \o <<>> = <<>>
    BY <1>2
  <2>2. Shown(<<>>, <<>>)
    BY DEF Shown
  <2> QED
    BY <1>1, <2>1, <2>2
<1>3. CASE \E x \in Plain : d.operands = <<x>>
  <2>1. PICK x \in Plain : d.operands = <<x>>
    BY <1>3
  <2>2. front = <<<<x>>>> /\ <<<<x>>>> \in Seq({<<x>>})
    BY <2>1
  <2>3. front \o <<>> = <<<<x>>>>
    <3> HIDE DEF front
    <3> QED
      BY <2>2, ConcatEmptySeq
  <2>4. Shown(<<<<x>>>>, <<x>>)
    BY DEF Shown
  <2> QED
    BY <1>1, <2>3, <2>4
<1>4. CASE \E x, y \in Plain : d.operands = <<x, y>>
  <2>1. PICK x \in Plain, y \in Plain : d.operands = <<x, y>>
    BY <1>4
  <2>2. front = <<<<x>>, <<y>>>> /\ <<<<x>>, <<y>>>> \in Seq({<<x>>, <<y>>})
    BY <2>1
  <2>3. front \o <<>> = <<<<x>>, <<y>>>>
    <3> HIDE DEF front
    <3> QED
      BY <2>2, ConcatEmptySeq
  <2>4. Shown(<<<<x>>, <<y>>>>, <<x, Comma, Blank, y>>)
    BY DEF Shown
  <2> QED
    BY <1>1, <2>3, <2>4
<1>5. CASE \E x, y, z \in Plain : d.operands = <<x, y, z>>
  <2>1. PICK x \in Plain, y \in Plain, z \in Plain : d.operands = <<x, y, z>>
    BY <1>5
  <2>2. /\ front = <<<<x>>, <<y>>, <<z>>>>
        /\ <<<<x>>, <<y>>, <<z>>>> \in Seq({<<x>>, <<y>>, <<z>>})
    BY <2>1
  <2>3. front \o <<>> = <<<<x>>, <<y>>, <<z>>>>
    <3> HIDE DEF front
    <3> QED
      BY <2>2, ConcatEmptySeq
  <2>4. Shown(<<<<x>>, <<y>>, <<z>>>>, <<x, Comma, Blank, y, Comma, Blank, z>>)
    BY DEF Shown
  <2> QED
    BY <1>1, <2>3, <2>4
<1> QED
  BY <1>2, <1>3, <1>4, <1>5 DEF UpToThree, NoneOrOne

(* A line that shows a well decoded one can be printed. *)
LEMMA ShowsPrintable ==
  ASSUME NEW d, NEW g, Shows(d, g), WellDecoded(g),
         g.has_target => g.target \in Word,
         d.label = NoLabel \/ Minted(d.label)
  PROVE  Printable(d)
<1>1. /\ d.operation = g.operation /\ d.conditions = g.conditions
      /\ d.operands = g.operands /\ d.has_target = g.has_target
      /\ g.has_target => d.reference_label = Mint(g.target)
  BY DEF Shows
<1>2. \E text : Shown(PrintedOperands(d), text)
  <2>1. CASE g.has_target
    <3>1. Minted(d.reference_label)
      BY <1>1, <2>1 DEF Minted
    <3> QED
      BY <1>1, <2>1, <3>1, ShownOne DEF WellDecoded
  <2>2. CASE ~g.has_target
    BY <1>1, <2>2, ShownMany DEF WellDecoded
  <2> QED
    BY <2>1, <2>2
<1>3. KnownName(d.operation, d.conditions)
  BY <1>1 DEF WellDecoded
<1>4. Mnemonic(d) \in Plain /\ d.operation \notin Unsized
  BY <1>3, MnemonicFound
<1>5. PICK text : Mnemonic(d) = Name(text) /\ Finds(text, d.operation, d.conditions)
  BY <1>3, MnemonicFound
<1> QED
  BY <1>2, <1>4, <1>5, Zenon DEF Printable, Finds

\* Line n shows what it was decoded as, or its word as data.
LEMMA SettledShows ==
  ASSUME NEW ws \in Seq(Word), NEW b \in Word, NEW ds, LinesOf(ws, b, ds),
         NEW n \in 1 .. Len(ws), LineSettled(ws, b, ds, n)
  PROVE  \/ /\ Shows(ds[n], Fresh(ws, b, n))
            /\ Fresh(ws, b, n).has_target =>
                 /\ InsideOf(ws, b, Fresh(ws, b, n).target)
                 /\ Labelled(b, ds, n, Fresh(ws, b, n).target)
         \/ Shows(ds[n], Data(Undecoded(ws[n], AddressAt(b, n))))
<1> DEFINE f == Fresh(ws, b, n)
<1>1. CASE ~f.has_target /\ Same(ds[n], f)
  BY <1>1 DEF Same, Shows
<1>2. CASE /\ f.has_target /\ InsideOf(ws, b, f.target)
           /\ Same(ds[n], f) /\ Labelled(b, ds, n, f.target)
  BY <1>2 DEF Same, Shows, Labelled
<1>3. CASE Shows(ds[n], Data(Undecoded(ws[n], AddressAt(b, n))))
  BY <1>3
<1> QED
  BY <1>1, <1>2, <1>3 DEF LineSettled

(* So every line of a finished array can be printed. *)
LEMMA FinishedPrintable ==
  ASSUME NEW ws \in Seq(Word), NEW b \in Word, NEW ds, LinesOf(ws, b, ds),
         NEW n \in 1 .. Len(ws), LineSettled(ws, b, ds, n)
  PROVE  Printable(ds[n])
<1>1. /\ ws[n] \in Word /\ AddressAt(b, n) \in Word
      /\ Opened(Fresh(ws, b, n), ws[n], AddressAt(b, n))
  BY FreshLine
<1>2. WellDecoded(Fresh(ws, b, n))
  BY <1>1, WellFresh DEF Fresh
<1>3. Fresh(ws, b, n).has_target => Fresh(ws, b, n).target \in Word
  BY <1>1 DEF Opened
<1>4. ds[n].label = NoLabel \/ Minted(ds[n].label)
  BY <1>1 DEF LinesOf, LineAt, Minted
<1> DEFINE data == Data(Undecoded(ws[n], AddressAt(b, n)))
<1>5. WellDecoded(data) /\ data.has_target = FALSE
  BY <1>1, WellData, DataShape DEF Shape
<1> HIDE DEF data
<1>6. Shows(ds[n], Fresh(ws, b, n)) \/ Shows(ds[n], data)
  BY SettledShows DEF data
<1> QED
  BY <1>2, <1>3, <1>4, <1>5, <1>6, ShowsPrintable

-----------------------------------------------------------------------------
(* The first and the last line of a listing. *)

HeaderLine(b) == <<Name(".ORIG"), Blank, Hexadecimal("x", Hex4(b))>>
EndLine == <<Name(".END")>>

\* A line without a label.
Bare(name, operands) ==
  [label |-> NoLabel, operation |-> name, conditions |-> {},
   operands |-> operands]

(* The directives are found by their own names. *)
LEMMA DirectiveFound ==
  ASSUME NEW name \in {".ORIG", ".END"}
  PROVE  Name(name) \in Plain /\ Finds(name, name, {})
<1>1. name \in OperationNames /\ name \notin DOMAIN Branches
  BY DEF OperationNames, Directives, Branches
<1>2. name \in ListingSpellings /\ name \notin {" ", ",", "\"", ";"}
  BY <1>1, NamesSolid
<1>3. UpperCase(name) = name
  BY <1>1, ListingAssumption
<1>4. Finds(name, name, {})
  BY <1>1, <1>3, UpperFound
<1> QED
  BY <1>2, <1>4, PlainName

(* A line that is a directive and what it shows. *)
LEMMA DirectiveRead ==
  ASSUME NEW name \in {".ORIG", ".END"}, NEW os, NEW text, Shown(os, text)
  PROVE  /\ Legible(BodyOf(Name(name), text))
         /\ Parse(BodyOf(Name(name), text))
              = Bare(name, [n \in DOMAIN os |-> BuildOperand(os[n])])
<1> DEFINE m == Name(name)
           line == BodyOf(m, text)
<1>1. m \in Plain /\ IsOperationName(<<m>>)
      /\ Operation(<<m>>) = name /\ Conditions(<<m>>) = {}
  BY DirectiveFound DEF Finds
<1> HIDE DEF m
<1>2. /\ TidyLine(line, 9) /\ FirstToken(line) = <<m>> /\ Behind(line) = text
  BY <1>1, BodyParts
<1> HIDE DEF line
<1>3. /\ line \in Seq(Tidy) /\ Trimmed(line) /\ Len(line) <= 9
      /\ Len(line) \in Nat /\ Len(line) >= 1
  BY <1>2 DEF TidyLine, Trimmed
<1>4. Uncommented(line) = line
  BY <1>3, TidyUncommented
<1>5. Trim(Uncommented(line)) = line
  BY <1>3, <1>4, TrimTrimmed
<1>6. line # <<>>
  BY <1>3
<1>7. Legible(line)
  BY <1>3, <1>5, <1>6 DEF Legible
<1>8. ReadAs(line, NoLabel, <<m>>, text)
  BY <1>1, <1>2, <1>5, ParseBody
<1>9. PlainOperands(text) = [n \in DOMAIN os |-> BuildOperand(os[n])]
  BY ShownOperands
<1>10. name # ".STRINGZ"
  OBVIOUS
<1>11. Parse(line) = Bare(name, [n \in DOMAIN os |-> BuildOperand(os[n])])
  BY <1>1, <1>8, <1>9, <1>10, Zenon DEF ReadAs, Bare
<1> QED
  BY <1>7, <1>11 DEF line, m

(* Three lexemes. *)
LEMMA TwoAndOne ==
  ASSUME NEW p, NEW q, NEW r
  PROVE  <<p, q>> \o <<r>> = <<p, q, r>>
<1>1. <<p, q>> \in Seq({p, q, r}) /\ r \in {p, q, r}
  OBVIOUS
<1>2. Append(<<p, q>>, r) = <<p, q>> \o <<r>>
  BY <1>1, AppendIsConcat
<1> QED
  BY <1>2, ThreeAppended

(* .ORIG and the origin, and .END. *)
LEMMA HeaderRead ==
  ASSUME NEW b \in Word
  PROVE  Legible(HeaderLine(b)) /\ Parse(HeaderLine(b)) = Bare(".ORIG", <<Integer(b)>>)
<1> DEFINE x == Hexadecimal("x", Hex4(b))
<1>1. /\ Hex4(b) \in Seq(Digits) /\ Len(Hex4(b)) = 4 /\ Value(Hex4(b), 16) = b
  BY HexValues
<1>2. Len(Hex4(b)) <= 4 /\ Hex4(b) # <<>>
  BY <1>1
<1>3. x \in Plain
  BY <1>1, <1>2, PlainHexadecimal
<1>4. BuildOperand(<<x>>) = Integer(b)
  BY <1>1, <1>2, HexadecimalReadBack
<1> HIDE DEF x
<1>5. Shown(<<<<x>>>>, <<x>>)
  BY <1>3 DEF Shown
<1>6. /\ Legible(BodyOf(Name(".ORIG"), <<x>>))
      /\ Parse(BodyOf(Name(".ORIG"), <<x>>))
           = Bare(".ORIG", [n \in DOMAIN <<<<x>>>> |-> BuildOperand(<<<<x>>>>[n])])
  BY <1>5, DirectiveRead
<1>7. [n \in DOMAIN <<<<x>>>> |-> BuildOperand(<<<<x>>>>[n])] = <<BuildOperand(<<x>>)>>
  OBVIOUS
<1>8. BodyOf(Name(".ORIG"), <<x>>) = <<Name(".ORIG"), Blank>> \o <<x>>
  BY DEF BodyOf
<1>9. <<Name(".ORIG"), Blank>> \o <<x>> = <<Name(".ORIG"), Blank, x>>
  BY TwoAndOne
<1>10. HeaderLine(b) = <<Name(".ORIG"), Blank, x>>
  BY DEF HeaderLine, x
<1> QED
  BY <1>4, <1>6, <1>7, <1>8, <1>9, <1>10

LEMMA EndRead ==
  Legible(EndLine) /\ Parse(EndLine) = Bare(".END", <<>>)
<1>1. Shown(<<>>, <<>>)
  BY DEF Shown
<1>2. /\ Legible(BodyOf(Name(".END"), <<>>))
      /\ Parse(BodyOf(Name(".END"), <<>>))
           = Bare(".END", [n \in DOMAIN <<>> |-> BuildOperand(<<>>[n])])
  BY <1>1, DirectiveRead
<1>3. [n \in DOMAIN <<>> |-> BuildOperand(<<>>[n])] = <<>>
  OBVIOUS
<1>4. BodyOf(Name(".END"), <<>>) = EndLine
  BY DEF BodyOf, EndLine
<1> QED
  BY <1>2, <1>3, <1>4

(* And a line of the array. *)
LEMMA ListingLegible ==
  ASSUME NEW d, Printable(d)
  PROVE  Legible(ListingLine(d)) /\ Parse(ListingLine(d)) = Reread(d)
BY ListingLineRead DEF Legible

-----------------------------------------------------------------------------
(* The array of a finished disassembly, and its listing. *)

\* All lines are decoded and labelled.
ArrayDone ==
  /\ words \in Seq(Word) /\ base \in Word /\ Len(words) \in Nat
  /\ LinesOf(words, base, decoded)
  /\ \A n \in 1 .. Len(words) : LineSettled(words, base, decoded, n)

\* Line i of the listing, and what the assembler reads of it.
TextAt(i) ==
  IF i = 1 THEN HeaderLine(base)
  ELSE IF i <= Len(words) + 1 THEN ListingLine(decoded[i - 1]) ELSE EndLine

ReadAt(i) ==
  IF i = 1 THEN Bare(".ORIG", <<Integer(base)>>)
  ELSE IF i <= Len(words) + 1 THEN Reread(decoded[i - 1]) ELSE Bare(".END", <<>>)

(* Each line of the listing is read as what it shows. *)
LEMMA TextRead ==
  ASSUME ArrayDone, NEW i \in 1 .. Len(words) + 2
  PROVE  Legible(TextAt(i)) /\ Parse(TextAt(i)) = ReadAt(i)
<1>1. CASE i = 1
  BY <1>1, HeaderRead DEF ArrayDone, TextAt, ReadAt
<1>2. CASE i # 1 /\ i <= Len(words) + 1
  <2> DEFINE n == i - 1
  <2>1. n \in 1 .. Len(words)
    BY <1>2 DEF ArrayDone
  <2>2. Printable(decoded[n])
    BY <2>1, FinishedPrintable DEF ArrayDone
  <2>3. TextAt(i) = ListingLine(decoded[n]) /\ ReadAt(i) = Reread(decoded[n])
    BY <1>2 DEF TextAt, ReadAt
  <2> QED
    BY <2>2, <2>3, ListingLegible
<1>3. CASE ~(i <= Len(words) + 1)
  <2>1. TextAt(i) = EndLine /\ ReadAt(i) = Bare(".END", <<>>)
    BY <1>3 DEF ArrayDone, TextAt, ReadAt
  <2> QED
    BY <2>1, EndRead
<1> QED
  BY <1>1, <1>2, <1>3

(* The lines between the first and the last are one word each. *)
LEMMA SizedLine ==
  ASSUME ArrayDone, NEW n \in 1 .. Len(words)
  PROVE  /\ Reread(decoded[n]).operation \notin Unsized
         /\ Size(Reread(decoded[n])) = 1
         /\ Reread(decoded[n]).label = decoded[n].label
         /\ decoded[n].label \in {NoLabel, Mint(AddressAt(base, n))}
<1>1. Printable(decoded[n])
  BY FinishedPrintable DEF ArrayDone
<1>2. /\ Reread(decoded[n]).operation = decoded[n].operation
      /\ Reread(decoded[n]).label = decoded[n].label
  BY DEF Reread
<1>3. decoded[n].operation \notin Unsized
  BY <1>1 DEF Printable
<1>4. Size(Reread(decoded[n])) = 1
  BY <1>2, <1>3, Zenon DEF Size, Unsized
<1>5. decoded[n].label \in {NoLabel, Mint(AddressAt(base, n))}
  BY DEF ArrayDone, LinesOf, LineAt
<1> QED
  BY <1>2, <1>3, <1>4, <1>5

\* The listing shows them, between .ORIG and .END.
Listed ==
  /\ listing \in Seq(Seq(Tidy)) /\ Len(listing) = Len(words) + 2
  /\ \A i \in 1 .. Len(words) + 2 : listing[i] = TextAt(i)

(* A list between a first and a last element. *)
LEMMA Enclosed ==
  ASSUME NEW S, NEW a \in S, NEW s \in Seq(S), NEW z \in S
  PROVE  /\ <<a>> \o s \o <<z>> \in Seq(S)
         /\ Len(<<a>> \o s \o <<z>>) = Len(s) + 2
         /\ (<<a>> \o s \o <<z>>)[1] = a
         /\ \A i \in 2 .. Len(s) + 1 : (<<a>> \o s \o <<z>>)[i] = s[i - 1]
         /\ (<<a>> \o s \o <<z>>)[Len(s) + 2] = z
OBVIOUS

(* Render lists them all. *)
LEMMA RenderLists ==
  ASSUME ArrayDone, Render PROVE Listed'
<1> DEFINE texts == [n \in DOMAIN decoded |-> ListingLine(decoded[n])]
<1>1. /\ UNCHANGED <<base, words, decoded>>
      /\ listing' = <<HeaderLine(base)>> \o texts \o <<EndLine>>
  BY DEF Render, HeaderLine, EndLine
<1>2. /\ Len(words) \in Nat /\ words \in Seq(Word)
      /\ DOMAIN decoded = 1 .. Len(words)
  BY ArrayLength DEF ArrayDone, LinesOf
<1>3. \A n \in 1 .. Len(words) : ListingLine(decoded[n]) \in Seq(Tidy)
  BY FinishedPrintable, ListingLegible DEF ArrayDone, Legible
<1>4. /\ texts \in Seq(Seq(Tidy)) /\ Len(texts) = Len(words)
      /\ \A n \in 1 .. Len(words) : texts[n] = ListingLine(decoded[n])
  BY <1>2, <1>3
<1>5. HeaderLine(base) \in Seq(Tidy) /\ EndLine \in Seq(Tidy)
  BY HeaderRead, EndRead DEF ArrayDone, Legible
<1> HIDE DEF texts
<1> DEFINE out == <<HeaderLine(base)>> \o texts \o <<EndLine>>
<1>6. /\ out \in Seq(Seq(Tidy))
      /\ Len(out) = Len(texts) + 2
      /\ out[1] = HeaderLine(base)
      /\ \A i \in 2 .. Len(texts) + 1 : out[i] = texts[i - 1]
      /\ out[Len(texts) + 2] = EndLine
  BY <1>4, <1>5, Enclosed
<1> HIDE DEF out
<1>7. ASSUME NEW i \in 1 .. Len(words) + 2 PROVE out[i] = TextAt(i)
  <2>1. CASE i = 1
    BY <1>6, <2>1 DEF TextAt
  <2>2. CASE i # 1 /\ i <= Len(words) + 1
    <3>1. i \in 2 .. Len(texts) + 1 /\ i - 1 \in 1 .. Len(words)
      BY <1>2, <1>4, <2>2
    <3> QED
      BY <1>4, <1>6, <2>2, <3>1 DEF TextAt
  <2>3. CASE i = Len(words) + 2
    BY <1>2, <1>4, <1>6, <2>3 DEF TextAt
  <2> QED
    BY <1>2, <2>1, <2>2, <2>3
<1>8. Len(words') = Len(words) /\ \A i : TextAt(i)' = TextAt(i)
  BY <1>1 DEF TextAt
<1>9. listing' = out
  BY <1>1 DEF out
<1> QED
  BY <1>4, <1>6, <1>7, <1>8, <1>9 DEF Listed

-----------------------------------------------------------------------------
(* The disassembler's side of the toolchain. *)

\* The words are those of the object file.
FromImage ==
  /\ Len(WordsOf(image)) > 1
  /\ base = WordsOf(image)[1] /\ words = Tail(WordsOf(image))

\* The disassembler, and the file it hands over.
ListingSide ==
  /\ DisassemblerInv
  /\ stage # "done" => listing = <<>>
  /\ stage \in {"decode", "label", "open"} \/ result = "0" => FromImage
  /\ result = "0" => stage = "done" /\ ArrayDone /\ Listed

(* When the listing is opened the array is finished. *)
LEMMA OpenArray ==
  ASSUME DisassemblerInv, stage = "open" PROVE ArrayDone
<1>1. /\ words \in Seq(Word) /\ base \in Word /\ Len(words) \in Nat
      /\ Progress(words, base, decoded, Len(words) + 1)
  BY DEF DisassemblerInv, FilesOK, StagesOK
<1>2. \A n \in 1 .. Len(words) : n < Len(words) + 1
  BY <1>1
<1> QED
  BY <1>1, <1>2 DEF ArrayDone, Progress

(* Every step of the disassembler keeps this. *)
LEMMA ListingSideNext ==
  ASSUME ListingSide, [DisassemblerNext]_disassemblerVars
  PROVE  ListingSide'
<1>1. DisassemblerInv'
  BY DisassemblerInvNext DEF ListingSide
<1>2. stage # "done" => result = "none"
  BY DEF ListingSide, DisassemblerInv, FilesOK
<1>3. CASE UNCHANGED disassemblerVars
  <2>1. UNCHANGED <<stage, image, base, words, row, decoded, listing, result>>
    BY <1>3 DEF disassemblerVars
  <2>2. /\ FromImage' <=> FromImage
        /\ ArrayDone' <=> ArrayDone
        /\ Listed' <=> Listed
    BY <2>1 DEF FromImage, ArrayDone, Listed, TextAt
  <2> QED
    BY <1>1, <2>1, <2>2 DEF ListingSide
<1>4. CASE DisassemblerUsage \/ ObjectMissing \/ ObjectTooShort \/ ObjectEmpty
  <2>1. /\ stage = "start" /\ stage' = "done" /\ result' \in {"1", "2"}
    BY <1>4 DEF DisassemblerUsage, ObjectMissing, ObjectTooShort, ObjectEmpty, Finish
  <2> QED
    BY <1>1, <2>1 DEF ListingSide
<1>5. CASE ReadObject
  <2>1. /\ stage = "start" /\ stage' = "decode"
        /\ UNCHANGED <<image, listing, result>>
        /\ Len(WordsOf(image)) > 1
        /\ base' = WordsOf(image)[1] /\ words' = Tail(WordsOf(image))
    BY <1>5 DEF ReadObject
  <2>2. FromImage'
    BY <2>1 DEF FromImage, WordsOf
  <2> QED
    BY <1>1, <1>2, <2>1, <2>2 DEF ListingSide
<1>6. CASE DecodeWord \/ EndDecode \/ SkipLine \/ LabelTarget \/ DemoteLine \/ EndLabel
  <2>1. /\ stage \in {"decode", "label"} /\ stage' \in {"decode", "label", "open"}
        /\ UNCHANGED <<image, base, words, listing, result>>
    BY <1>6 DEF DecodeWord, EndDecode, SkipLine, LabelTarget, DemoteLine, EndLabel
  <2>2. FromImage' <=> FromImage
    BY <2>1 DEF FromImage
  <2> QED
    BY <1>1, <1>2, <2>1, <2>2 DEF ListingSide
<1>7. CASE OpenListingFails
  <2>1. stage' = "done" /\ result' = "1"
    BY <1>7 DEF OpenListingFails, Finish
  <2> QED
    BY <1>1, <2>1 DEF ListingSide
<1>8. CASE Render
  <2>1. /\ stage = "open" /\ stage' = "done" /\ result' = "0"
        /\ UNCHANGED <<image, base, words, decoded>>
    BY <1>8 DEF Render, Finish
  <2>2. ArrayDone
    BY <2>1, OpenArray DEF ListingSide
  <2>3. Listed'
    BY <1>8, <2>2, RenderLists
  <2>4. (FromImage' <=> FromImage) /\ (ArrayDone' <=> ArrayDone)
    BY <2>1 DEF FromImage, ArrayDone
  <2> QED
    BY <1>1, <2>1, <2>2, <2>3, <2>4 DEF ListingSide
<1> QED
  BY <1>3, <1>4, <1>5, <1>6, <1>7, <1>8 DEF DisassemblerNext

LEMMA ListingSideInit == DisassemblerInit => ListingSide
<1> SUFFICES ASSUME DisassemblerInit PROVE ListingSide
  OBVIOUS
<1>1. DisassemblerInv
  BY DisassemblerInvInit
<1>2. stage = "start" /\ listing = <<>> /\ result = "none"
  BY DEF DisassemblerInit
<1> QED
  BY <1>1, <1>2 DEF ListingSide

\* What is printed of a line, the parser reads as what it was printed from.
ListingIsReadBack ==
  result = "0" =>
    \A n \in DOMAIN words : Parse(ListingLine(decoded[n])) = Reread(decoded[n])

(* ListingsAreReadBack: parse_assembly_line (assembler/parser.c) reads every
   line that the disassembler prints (disassembler.c) as the operation, the
   conditions, the label and the operands that it was printed from, whatever
   the object file was. *)
THEOREM ListingsAreReadBack == DisassemblerSpec => []ListingIsReadBack
<1>1. ASSUME DisassemblerInv PROVE ListingIsReadBack
  <2>1. SUFFICES ASSUME result = "0", NEW n \in DOMAIN words
                 PROVE  Parse(ListingLine(decoded[n])) = Reread(decoded[n])
    BY DEF ListingIsReadBack
  <2>2. /\ words \in Seq(Word) /\ base \in Word /\ n \in 1 .. Len(words)
        /\ LinesOf(words, base, decoded)
        /\ LineSettled(words, base, decoded, n)
    BY <1>1, <2>1, FinishedListing
  <2> QED
    BY <2>2, FinishedPrintable, ListingLegible
<1> QED
  BY <1>1, DisassemblerInvAlways, PTL

-----------------------------------------------------------------------------
(* The driver: the listing is read line by line. *)

\* The first k lines are parsed, the rest is still to be read.
ReadUpTo(k) ==
  /\ IsArray(parsed) /\ source \in Seq(Seq(Tidy))
  /\ Len(parsed) = k /\ k + Len(source) = Len(words) + 2
  /\ \A i \in 1 .. k : parsed[i] = ReadAt(i)
  /\ \A j \in 1 .. Len(source) : source[j] = TextAt(k + j)

Reading == \E k \in Nat : ReadUpTo(k)

\* How far main has come.
DriverSide ==
  /\ opened \in BOOLEAN
  /\ stage # "done" => phase = "start" /\ ~opened
  /\ ~opened => /\ source = <<>> /\ parsed = <<>>
                /\ phase \in {"start", "ended"}
  /\ opened /\ result = "0" => Reading

\* A step of the driver leaves the array alone.
SameArray == UNCHANGED <<base, words, decoded>>

(* The texts are those of the array. *)
LEMMA ArrayFrame ==
  ASSUME SameArray
  PROVE  /\ Len(words') = Len(words)
         /\ \A i : TextAt(i)' = TextAt(i)
         /\ \A i : ReadAt(i)' = ReadAt(i)
BY DEF SameArray, TextAt, ReadAt

(* Opening the file leaves all of it to be read. *)
LEMMA OpenSourceReads ==
  ASSUME ListingSide, DriverSide, OpenSource, result = "0"
  PROVE  Reading'
<1>1. /\ source' = listing /\ parsed' = <<>> /\ SameArray
  BY DEF OpenSource, DriverSide, SameArray, disassemblerVars
<1>2. /\ listing \in Seq(Seq(Tidy)) /\ Len(listing) = Len(words) + 2
      /\ \A i \in 1 .. Len(words) + 2 : listing[i] = TextAt(i)
      /\ Len(words) \in Nat
  BY DEF ListingSide, Listed, ArrayDone
<1>3. /\ IsArray(parsed') /\ Len(parsed') = 0
  <2>1. <<>> \in Seq({}) /\ Len(<<>>) = 0
    OBVIOUS
  <2> QED
    BY <1>1, <2>1 DEF IsArray
<1>4. \A j \in 1 .. Len(source') : source'[j] = TextAt(0 + j)'
  BY <1>1, <1>2, ArrayFrame
<1>5. 0 + Len(source') = Len(words') + 2
  BY <1>1, <1>2, ArrayFrame
<1>6. ReadUpTo(0)'
  BY <1>1, <1>2, <1>3, <1>4, <1>5 DEF ReadUpTo
<1> QED
  BY <1>6 DEF Reading

LEMMA NothingInFront ==
  ASSUME NEW S, NEW s \in Seq(S)
  PROVE  <<>> \o s = s
OBVIOUS

(* ReadLine takes one line of the listing, parsed, over. *)
LEMMA ReadLineReads ==
  ASSUME ListingSide, DriverSide, ReadLine, result = "0"
  PROVE  Reading'
<1>1. /\ opened /\ source # <<>> /\ SameArray
      /\ source' = (IF Rest(Head(source)) = <<>> THEN <<>>
                    ELSE <<Rest(Head(source))>>) \o Tail(source)
      /\ parsed' = IF IsBlankLine(Chunk(Head(source))) THEN parsed
                   ELSE Append(parsed, Parse(Chunk(Head(source))))
  BY DEF ReadLine, SameArray, disassemblerVars
<1>2. PICK n \in Nat : ReadUpTo(n)
  BY <1>1 DEF DriverSide, Reading
<1>3. /\ IsArray(parsed) /\ source \in Seq(Seq(Tidy))
      /\ Len(parsed) = n /\ n + Len(source) = Len(words) + 2
      /\ \A i \in 1 .. n : parsed[i] = ReadAt(i)
      /\ \A j \in 1 .. Len(source) : source[j] = TextAt(n + j)
  BY <1>2 DEF ReadUpTo
<1> DEFINE k == n + 1
           line == TextAt(k)
<1>4. /\ Len(source) \in Nat /\ Len(source) >= 1 /\ Head(source) = source[1]
      /\ Tail(source) \in Seq(Seq(Tidy)) /\ Len(Tail(source)) = Len(source) - 1
      /\ \A j \in 1 .. Len(source) - 1 : Tail(source)[j] = source[j + 1]
  BY <1>1, <1>3
<1>5. k \in 1 .. Len(words) + 2 /\ ArrayDone
  BY <1>3, <1>4 DEF ListingSide, ArrayDone
<1>6. Legible(line) /\ Parse(line) = ReadAt(k)
  BY <1>5, TextRead
<1>7. Head(source) = line
  BY <1>3, <1>4
<1> HIDE DEF line
<1>8. Chunk(line) = line /\ Rest(line) = <<>> /\ ~IsBlankLine(line)
  BY <1>6, LegibleRead
<1>9. parsed' = Append(parsed, ReadAt(k))
  BY <1>1, <1>6, <1>7, <1>8
<1>10. source' = Tail(source)
  <2>1. source' = <<>> \o Tail(source)
    BY <1>1, <1>7, <1>8
  <2> QED
    BY <1>4, <2>1, NothingInFront
<1>11. /\ IsArray(parsed') /\ Len(parsed') = k
       /\ parsed'[k] = ReadAt(k)
       /\ \A j \in 1 .. n : parsed'[j] = parsed[j]
  BY <1>3, <1>9, ArrayAppended
<1>12. \A i \in 1 .. k : parsed'[i] = ReadAt(i)'
  <2> SUFFICES ASSUME NEW i \in 1 .. k PROVE parsed'[i] = ReadAt(i)
    BY <1>1, ArrayFrame
  <2>1. CASE i = k
    BY <1>11, <2>1
  <2>2. CASE i # k
    <3>1. i \in 1 .. n
      BY <2>2
    <3> QED
      BY <1>3, <1>11, <3>1
  <2> QED
    BY <2>1, <2>2
<1>13. \A j \in 1 .. Len(source') : source'[j] = TextAt(k + j)'
  <2> SUFFICES ASSUME NEW j \in 1 .. Len(source')
               PROVE  source'[j] = TextAt(k + j)
    BY <1>1, ArrayFrame
  <2>1. /\ j + 1 \in 1 .. Len(source) /\ j \in 1 .. Len(source) - 1
        /\ k + j = n + (j + 1)
    BY <1>4, <1>10
  <2> QED
    BY <1>3, <1>4, <1>10, <2>1
<1>14. k \in Nat /\ k + Len(source') = Len(words') + 2 /\ source' \in Seq(Seq(Tidy))
  <2>1. Len(words') = Len(words)
    BY <1>1, ArrayFrame
  <2>2. Len(source') = Len(source) - 1 /\ source' \in Seq(Seq(Tidy))
    BY <1>4, <1>10
  <2>3. n \in Nat /\ Len(source) \in Nat /\ n + Len(source) = Len(words) + 2
    BY <1>3, <1>4
  <2> QED
    BY <2>1, <2>2, <2>3
<1> HIDE DEF k
<1>15. ReadUpTo(k)'
  BY <1>11, <1>12, <1>13, <1>14 DEF ReadUpTo
<1> QED
  BY <1>14, <1>15 DEF Reading

(* Other steps change nothing about it. *)
LEMMA ReadingFrame ==
  ASSUME SameArray, UNCHANGED <<source, parsed>>
  PROVE  Reading' <=> Reading
BY ArrayFrame DEF Reading, ReadUpTo

-----------------------------------------------------------------------------
(* The symbol table of a listing. *)

(* A label names one address. *)
LEMMA MintDiffers ==
  ASSUME NEW a \in Word, NEW b \in Word, Mint(a) = Mint(b)
  PROVE  a = b
<1>1. Mint(a)[1].digits = Hex4(a) /\ Mint(b)[1].digits = Hex4(b)
  BY DEF Mint, Hexadecimal
<1>2. Hex4(a) = Hex4(b)
  BY <1>1
<1>3. Value(Hex4(a), 16) = a /\ Value(Hex4(b), 16) = b
  BY HexValues
<1> QED
  BY <1>2, <1>3

\* Every row of the table is a label at the address it was made from.
RowMinted(entry) == \E a \in Word : entry = [label |-> Mint(a), address |-> a]
RowsMinted(rows) == IsArray(rows) /\ \A i \in 1 .. Len(rows) : RowMinted(rows[i])

(* A label in the table resolves to its address. *)
LEMMA MintedResolves ==
  ASSUME NEW rows, RowsMinted(rows), NEW a \in Word, Rows(rows, Mint(a)) # {}
  PROVE  Resolves(rows, Mint(a), a)
<1> DEFINE S == Rows(rows, Mint(a))
           first == CHOOSE i \in S : \A j \in S : i <= j
<1>1. Len(rows) \in Nat /\ DOMAIN rows = 1 .. Len(rows)
  BY ArrayLength DEF RowsMinted
<1>2. S \subseteq 1 .. Len(rows) /\ \A i \in S : rows[i].label = Mint(a)
  BY <1>1 DEF Rows
<1>3. S \subseteq Nat /\ S # {}
  BY <1>1, <1>2
<1>4. \E i \in S : \A j \in S : i <= j
  BY <1>3, LeastElement
<1>5. first \in S
  BY <1>4
<1>6. AddressOf(rows, Mint(a)) = rows[first].address
  BY DEF AddressOf
<1> HIDE DEF first
<1>7. PICK b \in Word : rows[first] = [label |-> Mint(b), address |-> b]
  BY <1>2, <1>5 DEF RowsMinted, RowMinted
<1>8. Mint(b) = Mint(a) /\ rows[first].address = b
  BY <1>2, <1>5, <1>7
<1>9. b = a
  BY <1>8, MintDiffers
<1>10. rows # <<>>
  <2>1. Len(rows) # 0
    BY <1>1, <1>2, <1>5
  <2> QED
    BY <2>1
<1> QED
  BY <1>6, <1>8, <1>9, <1>10 DEF Resolves

(* A row more: its label is found, and those that were found still are. *)
LEMMA RowAdded ==
  ASSUME NEW rows, RowsMinted(rows), NEW a \in Word,
         NEW more, more = Append(rows, [label |-> Mint(a), address |-> a])
  PROVE  /\ RowsMinted(more) /\ Rows(more, Mint(a)) # {}
         /\ \A label : Rows(rows, label) # {} => Rows(more, label) # {}
<1> DEFINE new == [label |-> Mint(a), address |-> a]
<1>1. new.label = Mint(a) /\ RowMinted(new)
  BY DEF RowMinted
<1> HIDE DEF new
<1>2. more = Append(rows, new) /\ IsArray(rows)
  BY DEF new, RowsMinted
<1>3. /\ Len(rows) \in Nat /\ DOMAIN rows = 1 .. Len(rows)
      /\ IsArray(more) /\ Len(more) = Len(rows) + 1
      /\ more[Len(rows) + 1] = new
      /\ \A j \in 1 .. Len(rows) : more[j] = rows[j]
  BY <1>2, ArrayLength, ArrayAppended
<1>4. DOMAIN more = 1 .. Len(rows) + 1
  BY <1>3, ArrayLength
<1>5. RowsMinted(more)
  <2>1. ASSUME NEW i \in 1 .. Len(more) PROVE RowMinted(more[i])
    <3>1. CASE i = Len(rows) + 1
      BY <1>1, <1>3, <3>1
    <3>2. CASE i # Len(rows) + 1
      <4>1. i \in 1 .. Len(rows)
        BY <1>3, <3>2
      <4> QED
        BY <1>3, <4>1 DEF RowsMinted
    <3> QED
      BY <3>1, <3>2
  <2> QED
    BY <1>3, <2>1 DEF RowsMinted
<1>6. Len(rows) + 1 \in Rows(more, Mint(a))
  BY <1>1, <1>3, <1>4 DEF Rows
<1>7. \A label : Rows(rows, label) \subseteq Rows(more, label)
  BY <1>3, <1>4 DEF Rows
<1> QED
  BY <1>5, <1>6, <1>7

-----------------------------------------------------------------------------
(* The two passes over a listing, and the object file. *)

\* The program is what was read of the listing.
OfListing ==
  /\ IsArray(program) /\ Len(program) = Len(words) + 2
  /\ \A i \in 1 .. Len(words) + 2 : program[i] = ReadAt(i)

\* The lines in front of line k lie where the words they show did.
PlacedBefore(k) ==
  /\ IsArray(address) /\ Len(address) = Len(words) + 2
  /\ \A n \in 1 .. Len(words) :
       n + 1 < k => address[n + 1] = AddressAt(base, n)

\* Their labels are in the table.
NamedBefore(k) ==
  /\ RowsMinted(table)
  /\ \A n \in 1 .. Len(words) :
       n + 1 < k /\ decoded[n].label # NoLabel => Rows(table, decoded[n].label) # {}

\* They have their words again, and the first and the last line have none.
CodesBefore(k) ==
  /\ IsArray(codes) /\ Len(codes) = Len(words) + 2
  /\ codes[1] = <<>> /\ codes[Len(words) + 2] = <<>>
  /\ \A n \in 1 .. Len(words) : n + 1 < k => codes[n + 1] = <<words[n]>>

\* The origin and k words behind it.
Image(k) == [n \in 1 .. k + 1 |-> IF n = 1 THEN base ELSE words[n - 1]]

\* k words are written when line i is next.
WrittenBefore(i, k) ==
  \/ k = 0 /\ i = 1
  \/ i = k + 2
  \/ k = Len(words) /\ i = Len(words) + 3

\* Pass 1, pass 2, and the object file: where each is, and what it has made.
InFirst ==
  phase = "pass1" =>
    /\ next \in 1 .. Len(words) + 2
    /\ next > 1 => have_origin /\ origin = base /\ lc = Wrap(base + (next - 2))
    /\ PlacedBefore(next) /\ NamedBefore(next) /\ CodesBefore(1)

InSecond ==
  phase = "pass2" =>
    /\ next \in 1 .. Len(words) + 2 /\ origin = base
    /\ PlacedBefore(Len(words) + 2) /\ NamedBefore(Len(words) + 2)
    /\ CodesBefore(next)

InOpen == phase = "open" => origin = base /\ CodesBefore(Len(words) + 2)

InFile ==
  phase = "write" =>
    /\ next \in 1 .. Len(words) + 3 /\ CodesBefore(Len(words) + 2)
    /\ \E k \in 0 .. Len(words) :
         written = ToBytes(Image(k)) /\ WrittenBefore(next, k)

InEnd ==
  phase = "ended" =>
    status # "crash" /\ (status = "0" => object = ToBytes(Image(Len(words))))

\* Wherever the assembler is, it is assembling the listing without an error.
ListingAssembled ==
  /\ ok
  /\ phase \in {"pass1", "pass2", "open", "write"} => OfListing
  /\ InFirst /\ InSecond /\ InOpen /\ InFile /\ InEnd

\* The disassembler's part of it.
ShortArray == ArrayDone /\ Len(words) <= 64512

(* The types of the array. *)
LEMMA ShortArrayIs ==
  ASSUME ShortArray
  PROVE  /\ words \in Seq(Word) /\ base \in Word /\ Len(words) \in Nat
         /\ base \in Int /\ 0 <= base /\ base <= 65535
         /\ \A n \in 1 .. Len(words) : words[n] \in Word
BY WordBounds DEF ShortArray, ArrayDone

(* All of it is about the array and one variable of the assembler. *)
LEMMA PassFrame ==
  ASSUME SameArray
  PROVE  /\ Len(words') = Len(words)
         /\ UNCHANGED program => (OfListing' <=> OfListing)
         /\ UNCHANGED address => \A k : PlacedBefore(k)' <=> PlacedBefore(k)
         /\ UNCHANGED table => \A k : NamedBefore(k)' <=> NamedBefore(k)
         /\ UNCHANGED codes => \A k : CodesBefore(k)' <=> CodesBefore(k)
         /\ \A k : Image(k)' = Image(k)
         /\ \A i, k : WrittenBefore(i, k)' <=> WrittenBefore(i, k)
<1>1. words' = words /\ base' = base /\ decoded' = decoded
  BY DEF SameArray
<1>2. UNCHANGED program => (OfListing' <=> OfListing)
  BY <1>1, ArrayFrame DEF OfListing
<1>3. UNCHANGED address => \A k : PlacedBefore(k)' <=> PlacedBefore(k)
  BY <1>1 DEF PlacedBefore
<1>4. UNCHANGED table => \A k : NamedBefore(k)' <=> NamedBefore(k)
  BY <1>1 DEF NamedBefore
<1>5. UNCHANGED codes => \A k : CodesBefore(k)' <=> CodesBefore(k)
  BY <1>1 DEF CodesBefore
<1>6. /\ \A k : Image(k)' = Image(k)
      /\ \A i, k : WrittenBefore(i, k)' <=> WrittenBefore(i, k)
  BY <1>1 DEF Image, WrittenBefore
<1> QED
  BY <1>1, <1>2, <1>3, <1>4, <1>5, <1>6

(* The line a pass is at. *)
LEMMA OriginLine ==
  ASSUME ShortArray, OfListing, next = 1
  PROVE  /\ More /\ Line = Bare(".ORIG", <<Integer(base)>>)
         /\ Line.operation = ".ORIG"
<1>1. 1 \in 1 .. Len(words) + 2 /\ next <= Len(program)
  BY ShortArrayIs DEF OfListing
<1>2. Line = Bare(".ORIG", <<Integer(base)>>)
  BY <1>1 DEF OfListing, Line, ReadAt
<1>3. Line.operation = ".ORIG"
  BY <1>2 DEF Bare
<1> QED
  BY <1>1, <1>2, <1>3 DEF More

LEMMA WordLine ==
  ASSUME ShortArray, OfListing, NEW n \in 1 .. Len(words), next = n + 1
  PROVE  /\ More /\ Line = Reread(decoded[n]) /\ Line.operation \notin Unsized
         /\ Size(Line) = 1 /\ Line.label = decoded[n].label
         /\ decoded[n].label \in {NoLabel, Mint(AddressAt(base, n))}
<1>1. /\ next \in 1 .. Len(words) + 2 /\ next # 1 /\ next <= Len(words) + 1
      /\ next - 1 = n /\ next <= Len(program)
  BY ShortArrayIs DEF OfListing
<1>2. Line = Reread(decoded[n])
  BY <1>1 DEF OfListing, Line, ReadAt
<1>3. /\ Reread(decoded[n]).operation \notin Unsized
      /\ Size(Reread(decoded[n])) = 1
      /\ Reread(decoded[n]).label = decoded[n].label
      /\ decoded[n].label \in {NoLabel, Mint(AddressAt(base, n))}
  BY SizedLine DEF ShortArray
<1>4. Line.operation # ".END"
  BY <1>2, <1>3 DEF Unsized
<1> QED
  BY <1>1, <1>2, <1>3, <1>4 DEF More

LEMMA LastLine ==
  ASSUME ShortArray, OfListing, next = Len(words) + 2
  PROVE  ~More
<1>1. /\ next \in 1 .. Len(words) + 2 /\ next # 1 /\ ~(next <= Len(words) + 1)
  BY ShortArrayIs
<1>2. Line = Bare(".END", <<>>)
  BY <1>1 DEF OfListing, Line, ReadAt
<1> QED
  BY <1>2 DEF Bare, More

\* Which of the three it is.
LEMMA LineCases ==
  ASSUME ShortArray, OfListing, next \in 1 .. Len(words) + 2
  PROVE  /\ ~More => next = Len(words) + 2
         /\ More => next = 1 \/ \E n \in 1 .. Len(words) : next = n + 1
<1>1. CASE next = 1
  BY <1>1, OriginLine
<1>2. CASE next = Len(words) + 2
  BY <1>2, LastLine
<1>3. CASE next # 1 /\ next # Len(words) + 2
  <2> DEFINE n == next - 1
  <2>1. n \in 1 .. Len(words) /\ next = n + 1
    BY <1>3, ShortArrayIs
  <2> HIDE DEF n
  <2> QED
    BY <2>1, WordLine
<1> QED
  BY <1>1, <1>2, <1>3

-----------------------------------------------------------------------------
(* Pass 1. *)

(* .ORIG sets the origin. *)
LEMMA PlaceOriginStep ==
  ASSUME ShortArray, SameArray, OfListing, InFirst, phase = "pass1", PlaceOrigin
  PROVE  InFirst' /\ phase' = "pass1" /\ OfListing' /\ ok' = ok
<1>1. /\ next \in 1 .. Len(words) + 2
      /\ PlacedBefore(next) /\ NamedBefore(next) /\ CodesBefore(1)
  BY DEF InFirst
<1>2. /\ More /\ Line.operation = ".ORIG"
      /\ origin' = Wrap(Operand(Line, 1).integer) /\ lc' = origin'
      /\ have_origin' = TRUE
      /\ address' = [address EXCEPT ![next] = origin'] /\ next' = next + 1
      /\ phase' = phase
      /\ UNCHANGED <<program, table, codes, ok>>
  BY DEF PlaceOrigin, fileVars
<1>3. next = 1
  <2>1. ASSUME NEW n \in 1 .. Len(words), next = n + 1 PROVE FALSE
    BY <1>2, <2>1, WordLine DEF Unsized
  <2> QED
    BY <1>1, <1>2, <2>1, LineCases
<1>4. origin' = base
  <2>1. Line.operands = <<Integer(base)>>
    BY <1>3, OriginLine DEF Bare
  <2>2. Operand(Line, 1) = Integer(base)
    BY <2>1 DEF Operand
  <2>3. Operand(Line, 1).integer = base
    BY <2>2 DEF Integer
  <2>4. Wrap(base) = base
    BY ShortArrayIs DEF Wrap, WORD_MAX
  <2> QED
    BY <1>2, <2>3, <2>4
<1>5. address' = Replaced(address, 1, origin')
  BY <1>2, <1>3 DEF Replaced
<1>6. IsArray(address) /\ Len(address) = Len(words) + 2
  BY <1>1 DEF PlacedBefore
<1>7. 1 \in 1 .. Len(address)
  BY <1>6, ShortArrayIs
<1>8. IsArray(address') /\ Len(address') = Len(words) + 2
  BY <1>5, <1>6, <1>7, ArrayReplaced
<1>9. Len(words') = Len(words) /\ words' = words
  BY DEF SameArray
<1>10. next' = 2
  BY <1>2, <1>3
<1>11. PlacedBefore(2)'
  <2>1. \A n \in 1 .. Len(words) : ~(n + 1 < 2)
    OBVIOUS
  <2> QED
    BY <1>8, <1>9, <2>1 DEF PlacedBefore
<1>12. NamedBefore(2)'
  <2>1. \A n \in 1 .. Len(words) : ~(n + 1 < 2)
    OBVIOUS
  <2>2. RowsMinted(table')
    BY <1>1, <1>2 DEF NamedBefore
  <2> QED
    BY <1>9, <2>1, <2>2 DEF NamedBefore
<1>13. CodesBefore(1)' /\ OfListing'
  BY <1>1, <1>2, PassFrame
<1>14. lc' = Wrap(base' + (2 - 2))
  <2>1. Wrap(base) = base /\ base + (2 - 2) = base
    BY ShortArrayIs DEF Wrap, WORD_MAX
  <2> QED
    BY <1>2, <1>4, <2>1 DEF SameArray
<1>15. 2 \in 1 .. Len(words') + 2 /\ origin' = base'
  BY <1>4, <1>9, ShortArrayIs DEF SameArray
<1>16. InFirst'
  BY <1>2, <1>10, <1>11, <1>12, <1>13, <1>14, <1>15 DEF InFirst
<1> QED
  BY <1>2, <1>13, <1>16

(* A line is placed where its word was, and its label is recorded. *)
LEMMA PlaceStep ==
  ASSUME ShortArray, SameArray, OfListing, InFirst, phase = "pass1", Place
  PROVE  InFirst' /\ phase' = "pass1" /\ OfListing' /\ ok' = ok
<1>1. /\ next \in 1 .. Len(words) + 2
      /\ next > 1 => have_origin /\ origin = base /\ lc = Wrap(base + (next - 2))
      /\ PlacedBefore(next) /\ NamedBefore(next) /\ CodesBefore(1)
  BY DEF InFirst
<1>2. /\ More /\ Line.operation # ".ORIG"
      /\ address' = [address EXCEPT ![next] = lc]
      /\ table' = IF Line.label = NoLabel THEN table
                  ELSE Append(table, [label |-> Line.label, address |-> lc])
      /\ lc' = Wrap(lc + Size(Line)) /\ next' = next + 1
      /\ phase' = phase
      /\ UNCHANGED <<program, origin, have_origin, codes, ok>>
  BY DEF Place, fileVars
<1>3. PICK n \in 1 .. Len(words) : next = n + 1
  BY <1>1, <1>2, LineCases, OriginLine
<1>4. /\ Size(Line) = 1 /\ Line.label = decoded[n].label
      /\ decoded[n].label \in {NoLabel, Mint(AddressAt(base, n))}
  BY <1>3, WordLine
<1>5. n \in Int /\ n >= 1 /\ n <= Len(words) /\ base \in Int /\ Len(words) \in Nat
  BY ShortArrayIs
<1>6. /\ have_origin /\ origin = base /\ lc = Wrap(base + n - 1)
      /\ lc = AddressAt(base, n)
  <2>1. next > 1 /\ base + (next - 2) = base + n - 1
    BY <1>3, <1>5
  <2> QED
    BY <1>1, <2>1 DEF AddressAt
<1>7. lc' = Wrap(base' + (next' - 2))
  <2>1. Wrap(Wrap(base + n - 1) + 1) = Wrap((base + n - 1) + 1)
    BY <1>5, WrapSum
  <2>2. (base + n - 1) + 1 = base + ((next + 1) - 2)
    BY <1>3, <1>5
  <2> QED
    BY <1>2, <1>4, <1>6, <2>1, <2>2 DEF SameArray
<1>8. IsArray(address) /\ Len(address) = Len(words) + 2
  BY <1>1 DEF PlacedBefore
<1>9. next \in 1 .. Len(address) /\ address' = Replaced(address, next, lc)
  BY <1>1, <1>2, <1>8 DEF Replaced
<1>10. /\ IsArray(address') /\ Len(address') = Len(words) + 2
       /\ address'[next] = lc
       /\ \A j \in 1 .. Len(address) : j # next => address'[j] = address[j]
  BY <1>8, <1>9, ArrayReplaced
<1>11. \A j \in 1 .. Len(words) : j + 1 < n + 2 =>
         address'[j + 1] = AddressAt(base, j)
  <2> SUFFICES ASSUME NEW j \in 1 .. Len(words), j + 1 < n + 2
               PROVE  address'[j + 1] = AddressAt(base, j)
    OBVIOUS
  <2>1. CASE j = n
    BY <1>3, <1>6, <1>10, <2>1
  <2>2. CASE j # n
    <3>1. j + 1 < next /\ j + 1 # next /\ j + 1 \in 1 .. Len(address)
      BY <1>3, <1>5, <1>8, <2>2
    <3>2. address[j + 1] = AddressAt(base, j)
      BY <1>1, <3>1 DEF PlacedBefore
    <3> QED
      BY <1>10, <3>1, <3>2
  <2> QED
    BY <2>1, <2>2
<1>12. next' = n + 2 /\ words' = words /\ base' = base /\ decoded' = decoded
  BY <1>2, <1>3, <1>5 DEF SameArray
<1>13. PlacedBefore(n + 2)'
  BY <1>10, <1>11, <1>12 DEF PlacedBefore
<1>14. NamedBefore(n + 2)'
  <2>1. /\ RowsMinted(table)
        /\ \A j \in 1 .. Len(words) :
             j + 1 < next /\ decoded[j].label # NoLabel => Rows(table, decoded[j].label) # {}
    BY <1>1 DEF NamedBefore
  <2>2. /\ RowsMinted(table')
        /\ decoded[n].label # NoLabel => Rows(table', decoded[n].label) # {}
        /\ \A label : Rows(table, label) # {} => Rows(table', label) # {}
    <3>1. CASE decoded[n].label = NoLabel
      BY <1>2, <1>4, <2>1, <3>1
    <3>2. CASE decoded[n].label # NoLabel
      <4> DEFINE a == AddressAt(base, n)
      <4>1. decoded[n].label = Mint(a) /\ Line.label = Mint(a)
        BY <1>4, <3>2
      <4>2. a \in Word
        BY ShortArrayIs, FreshLine
      <4>3. table' = Append(table, [label |-> Mint(a), address |-> a])
        BY <1>2, <1>6, <3>2, <4>1
      <4> HIDE DEF a
      <4> QED
        BY <2>1, <4>1, <4>2, <4>3, RowAdded
    <3> QED
      BY <3>1, <3>2
  <2>3. \A j \in 1 .. Len(words) : j + 1 < n + 2 => j = n \/ j + 1 < next
    BY <1>3, <1>5
  <2>4. \A j \in 1 .. Len(words) :
          j + 1 < n + 2 /\ decoded[j].label # NoLabel => Rows(table', decoded[j].label) # {}
    BY <2>1, <2>2, <2>3
  <2> QED
    BY <1>12, <2>2, <2>4 DEF NamedBefore
<1>15. CodesBefore(1)' /\ OfListing'
  BY <1>1, <1>2, PassFrame
<1>16. n + 2 \in 1 .. Len(words) + 2
  BY <1>5
<1>17. /\ have_origin' /\ origin' = base'
  BY <1>2, <1>6, <1>12
<1>18. InFirst'
  BY <1>7, <1>12, <1>13, <1>14, <1>15, <1>16, <1>17 DEF InFirst
<1> QED
  BY <1>2, <1>15, <1>18

(* .END ends it, with an origin. *)
LEMMA EndPass1Step ==
  ASSUME ShortArray, SameArray, OfListing, InFirst, phase = "pass1", EndPass1
  PROVE  InSecond' /\ phase' = "pass2" /\ OfListing' /\ ok' = ok
<1>1. /\ next \in 1 .. Len(words) + 2
      /\ next > 1 => have_origin /\ origin = base /\ lc = Wrap(base + (next - 2))
      /\ PlacedBefore(next) /\ NamedBefore(next) /\ CodesBefore(1)
  BY DEF InFirst
<1>2. ~More
  BY DEF EndPass1
<1>3. next = Len(words) + 2 /\ next > 1
  BY <1>1, <1>2, LineCases, ShortArrayIs
<1>4. have_origin /\ origin = base
  BY <1>1, <1>3
<1>5. /\ phase' = "pass2" /\ next' = 1
      /\ UNCHANGED <<program, origin, address, table, codes, ok>>
  BY <1>4 DEF EndPass1, layoutVars
<1>6. /\ PlacedBefore(Len(words) + 2) /\ NamedBefore(Len(words) + 2)
      /\ CodesBefore(1)
  BY <1>1, <1>3
<1>7. PICK k : k = Len(words) + 2
  OBVIOUS
<1>8. PlacedBefore(k)' /\ NamedBefore(k)' /\ CodesBefore(1)' /\ OfListing'
  BY <1>5, <1>6, <1>7, PassFrame
<1>9. words' = words /\ base' = base
  BY DEF SameArray
<1>10. k = Len(words') + 2
  BY <1>7, <1>9
<1>11. PlacedBefore(Len(words) + 2)' /\ NamedBefore(Len(words) + 2)'
  BY <1>8, <1>10 DEF PlacedBefore, NamedBefore
<1>12. 1 \in 1 .. Len(words') + 2
  BY <1>9, ShortArrayIs
<1> QED
  BY <1>4, <1>5, <1>8, <1>9, <1>11, <1>12 DEF InSecond

-----------------------------------------------------------------------------
(* Pass 2: every line has the word it was made from. *)

(* The table of pass 1 has every label of the listing. *)
LEMMA TableKnows ==
  ASSUME ShortArray, NamedBefore(Len(words) + 2)
  PROVE  Knows(words, base, decoded, table)
<1> SUFFICES ASSUME NEW n \in 1 .. Len(words), decoded[n].label # NoLabel
             PROVE  Resolves(table, decoded[n].label, AddressAt(base, n))
  BY DEF Knows
<1>1. n + 1 < Len(words) + 2
  BY ShortArrayIs
<1>2. RowsMinted(table) /\ Rows(table, decoded[n].label) # {}
  BY <1>1 DEF NamedBefore
<1> DEFINE a == AddressAt(base, n)
<1>3. a \in Word
  BY ShortArrayIs, FreshLine
<1>4. decoded[n].label = Mint(a)
  BY DEF ShortArray, ArrayDone, LinesOf, LineAt
<1> HIDE DEF a
<1>5. Resolves(table, Mint(a), a)
  BY <1>2, <1>3, <1>4, MintedResolves
<1> QED
  BY <1>4, <1>5 DEF a

(* Each line encodes to its word. *)
LEMMA SecondCodes ==
  ASSUME ShortArray, OfListing, InSecond, phase = "pass2", More
  PROVE  /\ next = 1 => LineCodes = <<>>
         /\ \A n \in 1 .. Len(words) : next = n + 1 => LineCodes = <<words[n]>>
<1>1. /\ PlacedBefore(Len(words) + 2) /\ NamedBefore(Len(words) + 2)
  BY DEF InSecond
<1>2. ASSUME next = 1 PROVE LineCodes = <<>>
  <2>1. Line.operation = ".ORIG"
    BY <1>2, OriginLine
  <2> QED
    BY <2>1 DEF LineCodes, MachineCodes
<1>3. ASSUME NEW n \in 1 .. Len(words), next = n + 1
      PROVE  LineCodes = <<words[n]>>
  <2>1. Line = Reread(decoded[n])
    BY <1>3, WordLine
  <2>2. address[next] = AddressAt(base, n)
    <3>1. n + 1 < Len(words) + 2
      BY ShortArrayIs
    <3> QED
      BY <1>1, <1>3, <3>1 DEF PlacedBefore
  <2>3. Knows(words, base, decoded, table)
    BY <1>1, TableKnows
  <2>4. MachineCodes(Reread(decoded[n]), table, AddressAt(base, n)) = <<words[n]>>
    BY <2>3, LineReassembles DEF ShortArray, ArrayDone
  <2> QED
    BY <2>1, <2>2, <2>4 DEF LineCodes
<1> QED
  BY <1>2, <1>3

(* So no line fails. *)
LEMMA NoneFails ==
  ASSUME ShortArray, OfListing, InSecond, phase = "pass2", More
  PROVE  ~Fails /\ ~Dies
<1>1. next \in 1 .. Len(words) + 2
  BY DEF InSecond
<1>2. CASE next = 1
  <2>1. LineCodes = <<>>
    BY <1>2, SecondCodes
  <2> QED
    BY <2>1 DEF Fails, Dies
<1>3. CASE \E n \in 1 .. Len(words) : next = n + 1
  <2>1. PICK n \in 1 .. Len(words) : next = n + 1
    BY <1>3
  <2> DEFINE word == words[n]
  <2>2. LineCodes = <<word>>
    BY <2>1, SecondCodes
  <2>3. word \in Int /\ word >= 0
    <3>1. word \in Word
      BY ShortArrayIs
    <3> QED
      BY <3>1, WordBounds
  <2>4. word \notin {Error, Undefined, Crash}
    BY <2>3 DEF Error, Undefined, Crash
  <2> HIDE DEF word
  <2>5. \A i \in DOMAIN LineCodes : LineCodes[i] = word
    BY <2>2
  <2> QED
    BY <2>4, <2>5 DEF Fails, Dies
<1> QED
  BY <1>1, <1>2, <1>3, LineCases

(* Its codes are kept. *)
LEMMA EmitLineStep ==
  ASSUME ShortArray, SameArray, OfListing, InSecond, phase = "pass2", EmitLine
  PROVE  InSecond' /\ phase' = "pass2" /\ OfListing' /\ ok' = ok
<1>1. /\ next \in 1 .. Len(words) + 2 /\ origin = base
      /\ PlacedBefore(Len(words) + 2) /\ NamedBefore(Len(words) + 2)
      /\ CodesBefore(next)
  BY DEF InSecond
<1>2. /\ More /\ codes' = [codes EXCEPT ![next] = LineCodes] /\ next' = next + 1
      /\ UNCHANGED <<phase, program, origin, address, table, ok>>
  BY DEF EmitLine, layoutVars
<1>3. /\ next = 1 => LineCodes = <<>>
      /\ \A n \in 1 .. Len(words) : next = n + 1 => LineCodes = <<words[n]>>
  BY <1>2, SecondCodes
<1>4. next = 1 \/ \E n \in 1 .. Len(words) : next = n + 1
  BY <1>1, <1>2, LineCases
<1>5. next \in Int /\ Len(words) \in Nat /\ 1 <= next /\ next <= Len(words) + 1
  BY <1>4, ShortArrayIs
<1>6. /\ IsArray(codes) /\ Len(codes) = Len(words) + 2
      /\ codes[1] = <<>> /\ codes[Len(words) + 2] = <<>>
      /\ \A n \in 1 .. Len(words) : n + 1 < next => codes[n + 1] = <<words[n]>>
  BY <1>1 DEF CodesBefore
<1>7. next \in 1 .. Len(codes) /\ codes' = Replaced(codes, next, LineCodes)
  BY <1>2, <1>5, <1>6 DEF Replaced
<1>8. /\ IsArray(codes') /\ Len(codes') = Len(words) + 2
      /\ codes'[next] = LineCodes
      /\ \A j \in 1 .. Len(codes) : j # next => codes'[j] = codes[j]
  BY <1>6, <1>7, ArrayReplaced
<1>9. codes'[1] = <<>> /\ codes'[Len(words) + 2] = <<>>
  <2>1. 1 \in 1 .. Len(codes) /\ Len(words) + 2 \in 1 .. Len(codes)
    BY <1>5, <1>6
  <2>2. Len(words) + 2 # next
    BY <1>5
  <2> QED
    BY <1>3, <1>6, <1>8, <2>1, <2>2
<1>10. \A n \in 1 .. Len(words) : n + 1 < next + 1 => codes'[n + 1] = <<words[n]>>
  <2> SUFFICES ASSUME NEW n \in 1 .. Len(words), n + 1 < next + 1
               PROVE  codes'[n + 1] = <<words[n]>>
    OBVIOUS
  <2>1. CASE next = n + 1
    BY <1>3, <1>8, <2>1
  <2>2. CASE next # n + 1
    <3>1. n + 1 < next /\ n + 1 \in 1 .. Len(codes)
      BY <1>5, <1>6, <2>2
    <3> QED
      BY <1>6, <1>8, <2>2, <3>1
  <2> QED
    BY <2>1, <2>2
<1>11. words' = words /\ base' = base /\ decoded' = decoded
  BY DEF SameArray
<1>12. PICK i : i = next + 1
  OBVIOUS
<1>13. \A n \in 1 .. Len(words) : n + 1 < i => codes'[n + 1] = <<words[n]>>
  BY <1>10, <1>12
<1>14. CodesBefore(i)'
  BY <1>8, <1>9, <1>11, <1>13 DEF CodesBefore
<1>15. next' = i /\ i \in 1 .. Len(words) + 2
  BY <1>2, <1>5, <1>12
<1>16. OfListing'
  BY <1>2, PassFrame
<1>17. PlacedBefore(Len(words) + 2)' /\ NamedBefore(Len(words) + 2)'
  BY <1>1, <1>2, <1>11 DEF PlacedBefore, NamedBefore
<1> QED
  BY <1>1, <1>2, <1>11, <1>14, <1>15, <1>16, <1>17 DEF InSecond

(* So pass 2 ends with ok set. *)
LEMMA EndPass2Step ==
  ASSUME ShortArray, SameArray, OfListing, InSecond, phase = "pass2", ok, EndPass2
  PROVE  InOpen' /\ phase' = "open" /\ OfListing' /\ ok' = ok
<1>1. /\ next \in 1 .. Len(words) + 2 /\ origin = base /\ CodesBefore(next)
  BY DEF InSecond
<1>2. ~More /\ phase' = "open" /\ UNCHANGED <<program, origin, codes, ok>>
  BY DEF EndPass2, layoutVars
<1>3. next = Len(words) + 2
  BY <1>1, <1>2, LineCases
<1>4. words' = words /\ base' = base
  BY DEF SameArray
<1>5. CodesBefore(Len(words) + 2)'
  BY <1>1, <1>2, <1>3, <1>4 DEF CodesBefore
<1>6. OfListing'
  BY <1>2, PassFrame
<1> QED
  BY <1>1, <1>2, <1>4, <1>5, <1>6 DEF InOpen

-----------------------------------------------------------------------------
(* The object file. *)

(* The words of an image. *)
LEMMA ImageType ==
  ASSUME ShortArray, NEW k \in 0 .. Len(words)
  PROVE  /\ Image(k) \in Seq(Word) /\ Len(Image(k)) = k + 1
         /\ Image(k)[1] = base
         /\ \A n \in 1 .. k : Image(k)[n + 1] = words[n]
<1>1. /\ base \in Word /\ Len(words) \in Nat
      /\ \A n \in 1 .. Len(words) : words[n] \in Word
  BY ShortArrayIs
<1>2. ASSUME NEW n \in 1 .. k + 1
      PROVE  (IF n = 1 THEN base ELSE words[n - 1]) \in Word
  <2>1. CASE n = 1
    BY <1>1, <2>1
  <2>2. CASE n # 1
    <3>1. n - 1 \in 1 .. Len(words)
      BY <1>1, <2>2
    <3> QED
      BY <1>1, <2>2, <3>1
  <2> QED
    BY <2>1, <2>2
<1>3. Image(k) \in [1 .. k + 1 -> Word]
  BY <1>2 DEF Image
<1>4. k + 1 \in Nat
  OBVIOUS
<1>5. Image(k) \in Seq(Word) /\ Len(Image(k)) = k + 1
  BY <1>3, <1>4
<1>6. Image(k)[1] = base
  BY DEF Image
<1>7. ASSUME NEW n \in 1 .. k PROVE Image(k)[n + 1] = words[n]
  <2>1. n + 1 \in 1 .. k + 1 /\ n + 1 # 1 /\ (n + 1) - 1 = n
    OBVIOUS
  <2> QED
    BY <2>1 DEF Image
<1> QED
  BY <1>5, <1>6, <1>7

(* Bytes of words and of one word more. *)
LEMMA NoBytes == ToBytes(<<>>) = <<>>
BY DEF ToBytes

LEMMA BytesAppended ==
  ASSUME NEW p \in Seq(Word), NEW w \in Word
  PROVE  ToBytes(p) \o ToBytes(<<w>>) = ToBytes(Append(p, w))
<1> DEFINE q == <<w>>
           r == Append(p, w)
           left == ToBytes(p) \o ToBytes(q)
           right == ToBytes(r)
           n == Len(p)
<1>1. /\ n \in Nat /\ q \in Seq(Word) /\ Len(q) = 1 /\ q[1] = w
      /\ r \in Seq(Word) /\ Len(r) = n + 1 /\ r[n + 1] = w
      /\ \A i \in 1 .. n : r[i] = p[i]
  OBVIOUS
<1>2. /\ ToBytes(p) \in Seq(Byte) /\ Len(ToBytes(p)) = 2 * n
      /\ ToBytes(q) \in Seq(Byte) /\ Len(ToBytes(q)) = 2 * Len(q)
      /\ right \in Seq(Byte) /\ Len(right) = 2 * Len(r)
  BY <1>1, ToBytesType
<1>3. /\ left \in Seq(Byte) /\ Len(left) = 2 * n + 2 /\ Len(right) = 2 * n + 2
  <2>1. left \in Seq(Byte) /\ Len(left) = Len(ToBytes(p)) + Len(ToBytes(q))
    BY <1>2, ConcatProperties
  <2> HIDE DEF left, right, q, r
  <2>2. Len(left) = 2 * n + 2
    BY <1>1, <1>2, <2>1
  <2>3. Len(right) = 2 * n + 2
    BY <1>1, <1>2
  <2> QED
    BY <2>1, <2>2, <2>3
<1>4. /\ \A i \in 1 .. 2 * n : left[i] = ToBytes(p)[i]
      /\ left[2 * n + 1] = ToBytes(q)[1] /\ left[2 * n + 2] = ToBytes(q)[2]
  BY <1>1, <1>2
<1>5. \A ws \in Seq(Word) : \A k \in 1 .. Len(ws) :
        /\ ToBytes(ws)[2 * k - 1] = ws[k] \div 256
        /\ ToBytes(ws)[2 * k] = ws[k] % 256
  BY ToBytesOf
<1> HIDE DEF left, right, q, r
<1>6. ASSUME NEW k \in 1 .. n
      PROVE  left[2 * k - 1] = right[2 * k - 1] /\ left[2 * k] = right[2 * k]
  <2>1. /\ 2 * k - 1 \in 1 .. 2 * n /\ 2 * k \in 1 .. 2 * n
        /\ k \in 1 .. Len(p) /\ k \in 1 .. Len(r)
    BY <1>1
  <2>2. /\ ToBytes(p)[2 * k - 1] = p[k] \div 256 /\ ToBytes(p)[2 * k] = p[k] % 256
    BY <1>5, <2>1
  <2>3. /\ right[2 * k - 1] = r[k] \div 256 /\ right[2 * k] = r[k] % 256
    BY <1>1, <1>5, <2>1 DEF right
  <2>4. r[k] = p[k]
    BY <1>1
  <2> QED
    BY <1>4, <2>1, <2>2, <2>3, <2>4
<1>7. left[2 * n + 1] = right[2 * n + 1] /\ left[2 * n + 2] = right[2 * n + 2]
  <2>1. ToBytes(q)[1] = w \div 256 /\ ToBytes(q)[2] = w % 256
    <3>1. 1 \in 1 .. Len(q)
      BY <1>1
    <3>2. /\ ToBytes(q)[2 * 1 - 1] = q[1] \div 256
          /\ ToBytes(q)[2 * 1] = q[1] % 256
      BY <1>1, <1>5, <3>1
    <3>3. 2 * 1 - 1 = 1 /\ 2 * 1 = 2
      OBVIOUS
    <3> QED
      BY <1>1, <3>2, <3>3
  <2>2. right[2 * n + 1] = w \div 256 /\ right[2 * n + 2] = w % 256
    <3>1. /\ n + 1 \in 1 .. Len(r)
          /\ 2 * (n + 1) - 1 = 2 * n + 1 /\ 2 * (n + 1) = 2 * n + 2
      BY <1>1
    <3> QED
      BY <1>1, <1>5, <3>1 DEF right
  <2> QED
    BY <1>4, <2>1, <2>2
<1>8. ASSUME NEW i \in 1 .. 2 * n + 2 PROVE left[i] = right[i]
  <2>1. PICK k \in 1 .. n + 1 : i = 2 * k - 1 \/ i = 2 * k
    <3>1. (i + 1) \div 2 \in 1 .. n + 1
      BY <1>1
    <3>2. i = 2 * ((i + 1) \div 2) - 1 \/ i = 2 * ((i + 1) \div 2)
      BY <1>1
    <3> QED
      BY <3>1, <3>2
  <2>2. CASE k \in 1 .. n
    BY <1>6, <2>1, <2>2
  <2>3. CASE k = n + 1
    <3>1. 2 * k - 1 = 2 * n + 1 /\ 2 * k = 2 * n + 2
      BY <1>1, <2>3
    <3> QED
      BY <1>7, <2>1, <3>1
  <2> QED
    BY <1>1, <2>1, <2>2, <2>3
<1>9. left = right
  <2>1. Len(left) = Len(right) /\ \A i \in 1 .. Len(left) : left[i] = right[i]
    BY <1>3, <1>8
  <2> QED
    BY <1>2, <1>3, <2>1, SeqEqual
<1> QED
  BY <1>9 DEF left, right, q, r

(* A word more. *)
LEMMA ImageAppended ==
  ASSUME ShortArray, NEW n \in 1 .. Len(words)
  PROVE  ToBytes(Image(n - 1)) \o ToBytes(<<words[n]>>) = ToBytes(Image(n))
<1>1. n - 1 \in 0 .. Len(words) /\ n \in 0 .. Len(words) /\ words[n] \in Word
      /\ Len(words) \in Nat
  BY ShortArrayIs
<1> DEFINE p == Image(n - 1)
           q == Image(n)
<1>2. /\ p \in Seq(Word) /\ Len(p) = (n - 1) + 1 /\ p[1] = base
      /\ \A i \in 1 .. n - 1 : p[i + 1] = words[i]
  BY <1>1, ImageType
<1>3. /\ q \in Seq(Word) /\ Len(q) = n + 1 /\ q[1] = base
      /\ \A i \in 1 .. n : q[i + 1] = words[i]
  BY <1>1, ImageType
<1> HIDE DEF p, q
<1>4. /\ Append(p, words[n]) \in Seq(Word) /\ Len(Append(p, words[n])) = n + 1
      /\ Append(p, words[n])[n + 1] = words[n]
      /\ \A i \in 1 .. n : Append(p, words[n])[i] = p[i]
  BY <1>1, <1>2
<1>5. ASSUME NEW i \in 1 .. n + 1 PROVE Append(p, words[n])[i] = q[i]
  <2>1. CASE i = 1
    BY <1>1, <1>2, <1>3, <1>4, <2>1
  <2>2. CASE i = n + 1
    BY <1>3, <1>4, <2>2
  <2>3. CASE i # 1 /\ i # n + 1
    <3>1. i - 1 \in 1 .. n - 1 /\ i - 1 \in 1 .. n /\ (i - 1) + 1 = i /\ i \in 1 .. n
      BY <1>1, <2>3
    <3> QED
      BY <1>2, <1>3, <1>4, <3>1
  <2> QED
    BY <2>1, <2>2, <2>3
<1>6. Append(p, words[n]) = q
  <2>1. n - 1 + 1 = n /\ Len(q) = Len(Append(p, words[n]))
    BY <1>1, <1>3, <1>4
  <2>2. \A i \in 1 .. Len(q) : Append(p, words[n])[i] = q[i]
    BY <1>1, <1>3, <1>5
  <2> QED
    BY <1>3, <1>4, <2>1, <2>2, SeqEqual
<1> QED
  BY <1>1, <1>2, <1>6, BytesAppended DEF p, q

(* The stream after a step that leaves the codes alone. *)
LEMMA FileNow ==
  ASSUME ShortArray, SameArray, UNCHANGED codes, CodesBefore(Len(words) + 2),
         NEW k \in 0 .. Len(words), written' = ToBytes(Image(k)),
         NEW i \in 1 .. Len(words) + 3, next' = i, WrittenBefore(i, k)
  PROVE  InFile'
<1>1. words' = words /\ base' = base /\ decoded' = decoded
  BY DEF SameArray
<1>2. Image(k)' = Image(k) /\ WrittenBefore(i, k)'
  BY <1>1 DEF Image, WrittenBefore
<1>3. written' = ToBytes(Image(k)')
  BY <1>2
<1>4. WrittenBefore(next, k)'
  BY <1>1 DEF WrittenBefore
<1>5. written' = ToBytes(Image(k))'
  BY <1>3
<1>6. k \in 0 .. Len(words')
  BY <1>1
<1>7. CodesBefore(Len(words) + 2)'
  BY <1>1 DEF CodesBefore
<1>8. next' \in 1 .. Len(words') + 3
  BY <1>1
<1> QED
  BY <1>4, <1>5, <1>6, <1>7, <1>8 DEF InFile

(* fopen may fail: the object file is never written. *)
LEMMA OpenFailsStep ==
  ASSUME OpenFails PROVE InEnd' /\ phase' = "ended" /\ ok' = ok
BY DEF OpenFails, Exit, InEnd

(* The header is the origin. *)
LEMMA OpenObjectStep ==
  ASSUME ShortArray, SameArray, OfListing, InOpen, phase = "open", OpenObject
  PROVE  InFile' /\ phase' = "write" /\ OfListing' /\ ok' = ok
<1>1. origin = base /\ CodesBefore(Len(words) + 2)
  BY DEF InOpen
<1>2. /\ phase' = "write" /\ next' = 1 /\ written' = ToBytes(<<origin>>)
      /\ UNCHANGED <<program, codes, ok>>
  BY DEF OpenObject
<1>3. OfListing'
  BY <1>2, PassFrame
<1>4. 0 \in 0 .. Len(words) /\ 1 \in 1 .. Len(words) + 3
  BY ShortArrayIs
<1>5. Image(0) = <<base>>
  <2>1. /\ Image(0) \in Seq(Word) /\ Len(Image(0)) = 0 + 1 /\ Image(0)[1] = base
    BY <1>4, ImageType
  <2> QED
    BY <2>1
<1>6. written' = ToBytes(Image(0))
  BY <1>1, <1>2, <1>5
<1>7. WrittenBefore(1, 0)
  BY DEF WrittenBefore
<1>8. InFile'
  BY <1>1, <1>2, <1>4, <1>6, <1>7, FileNow
<1> QED
  BY <1>2, <1>3, <1>8

(* Each line's word goes behind it, and nothing for .ORIG and .END. *)
LEMMA WriteLineStep ==
  ASSUME ShortArray, SameArray, OfListing, InFile, phase = "write", WriteLine
  PROVE  InFile' /\ phase' = "write" /\ OfListing' /\ ok' = ok
<1>1. CodesBefore(Len(words) + 2)
  BY DEF InFile
<1>2. PICK k \in 0 .. Len(words) :
        written = ToBytes(Image(k)) /\ WrittenBefore(next, k)
  BY DEF InFile
<1>3. /\ next <= Len(program) /\ written' = written \o ToBytes(codes[next])
      /\ next' = next + 1 /\ phase' = phase /\ UNCHANGED <<program, codes, ok>>
  BY DEF WriteLine
<1>4. OfListing' /\ phase' = "write" /\ ok' = ok
  BY <1>3, PassFrame
<1>5. /\ Len(program) = Len(words) + 2 /\ Len(words) \in Nat
  BY ShortArrayIs DEF OfListing
<1>6. next \in 1 .. Len(words) + 2
  BY <1>3, <1>5 DEF InFile
<1>7. /\ codes[1] = <<>> /\ codes[Len(words) + 2] = <<>>
      /\ \A n \in 1 .. Len(words) : codes[n + 1] = <<words[n]>>
  <2>1. \A n \in 1 .. Len(words) : n + 1 < Len(words) + 2
    BY <1>5
  <2> QED
    BY <1>1, <2>1 DEF CodesBefore
<1>8. k \in 0 .. Len(words) /\ Image(k) \in Seq(Word)
  BY ImageType
<1>9. ToBytes(Image(k)) \o <<>> = ToBytes(Image(k))
  <2>1. ToBytes(Image(k)) \in Seq(Byte)
    BY <1>8, ToBytesType
  <2> QED
    BY <2>1
<1>10. PICK i \in 1 .. Len(words) + 3 : i = next + 1
  BY <1>5, <1>6
<1>11. CASE next = 1 \/ next = Len(words) + 2
  <2>1. codes[next] = <<>>
    BY <1>7, <1>11
  <2>2. written' = ToBytes(Image(k))
    BY <1>2, <1>3, <1>9, <2>1, NoBytes
  <2>3. WrittenBefore(i, k)
    <3>1. k = next - 2 \/ (next = 1 /\ k = 0) \/ k = Len(words)
      BY <1>2, <1>5, <1>6, <1>8 DEF WrittenBefore
    <3>2. CASE next = 1
      <4>1. k = 0 /\ i = 2
        BY <1>2, <1>5, <1>8, <1>10, <3>2 DEF WrittenBefore
      <4> QED
        BY <4>1 DEF WrittenBefore
    <3>3. CASE next = Len(words) + 2
      <4>1. k = Len(words) /\ i = Len(words) + 3
        BY <1>2, <1>5, <1>8, <1>10, <3>3 DEF WrittenBefore
      <4> QED
        BY <4>1 DEF WrittenBefore
    <3> QED
      BY <1>11, <3>2, <3>3
  <2>4. InFile'
    BY <1>1, <1>3, <1>8, <1>10, <2>2, <2>3, FileNow
  <2> QED
    BY <1>4, <2>4
<1>12. CASE ~(next = 1 \/ next = Len(words) + 2)
  <2>1. PICK n \in 1 .. Len(words) : next = n + 1
    <3>1. next - 1 \in 1 .. Len(words) /\ next = (next - 1) + 1
      BY <1>5, <1>6, <1>12
    <3> QED
      BY <3>1
  <2>2. k = n - 1
    BY <1>2, <1>5, <1>8, <1>12, <2>1 DEF WrittenBefore
  <2>3. codes[next] = <<words[n]>>
    BY <1>7, <2>1
  <2>4. written' = ToBytes(Image(n))
    BY <1>2, <1>3, <2>2, <2>3, ImageAppended
  <2>5. n \in 0 .. Len(words) /\ i = n + 2
    BY <1>5, <1>10, <2>1
  <2>6. WrittenBefore(i, n)
    BY <2>5 DEF WrittenBefore
  <2>7. InFile'
    BY <1>1, <1>3, <1>10, <2>4, <2>5, <2>6, FileNow
  <2> QED
    BY <1>4, <2>7
<1> QED
  BY <1>11, <1>12

(* A disk that does not fill up takes all of the stream. *)
LEMMA CloseObjectStep ==
  ASSUME ~MaySpoil, ShortArray, SameArray, OfListing, InFile, phase = "write",
         CloseObject
  PROVE  InEnd' /\ phase' = "ended" /\ ok' = ok
<1>1. PICK k \in 0 .. Len(words) :
        written = ToBytes(Image(k)) /\ WrittenBefore(next, k)
  BY DEF InFile
<1>2. /\ next > Len(program) /\ object' \in OnDisk
      /\ phase' = "ended" /\ status' = "0" /\ ok' = ok
  BY DEF CloseObject, Exit
<1>3. next \in 1 .. Len(words) + 3 /\ Len(program) = Len(words) + 2
      /\ Len(words) \in Nat
  BY ShortArrayIs DEF OfListing, InFile
<1>4. k = Len(words)
  <2>1. next = Len(words) + 3
    BY <1>2, <1>3
  <2> QED
    BY <1>1, <1>3, <2>1 DEF WrittenBefore
<1>5. object' = ToBytes(Image(Len(words)))
  BY <1>1, <1>2, <1>4 DEF OnDisk
<1>6. words' = words /\ base' = base
  BY DEF SameArray
<1>7. object' = ToBytes(Image(Len(words)))'
  BY <1>5, <1>6 DEF Image
<1> QED
  BY <1>2, <1>7 DEF InEnd

-----------------------------------------------------------------------------
(* The toolchain. *)

\* The assembler has not begun, or has not ended.
Idle ==
  /\ phase = "start" => table = <<>> /\ ok
  /\ phase # "ended" => status = "none"

\* The invariant.
ToolchainInv ==
  /\ ListingSide /\ DriverSide /\ Idle
  /\ result = "0" /\ ShorterThanOffsets => ListingAssembled

(* The sides of the invariant meet. *)
LEMMA ShortListing ==
  ASSUME ListingSide, result = "0", ShorterThanOffsets PROVE ShortArray
<1>1. ArrayDone
  BY DEF ListingSide
<1>2. Len(words) <= 64512
  BY <1>1 DEF ShorterThanOffsets, WORD_MAX, ArrayDone
<1> QED
  BY <1>1, <1>2 DEF ShortArray

\* A step of the driver or the assembler.
LEMMA ListingSideFrame ==
  ASSUME ListingSide, UNCHANGED disassemblerVars
  PROVE  /\ ListingSide' /\ SameArray
         /\ UNCHANGED <<stage, result, listing>>
         /\ ShorterThanOffsets' <=> ShorterThanOffsets
<1>1. ListingSide'
  BY ListingSideNext
<1>2. UNCHANGED <<stage, result, listing, base, words, decoded>>
  BY DEF disassemblerVars
<1> QED
  BY <1>1, <1>2 DEF SameArray, ShorterThanOffsets

\* Until the assembler has begun, nothing is claimed of it.
LEMMA NotBegun ==
  ASSUME phase = "start", ok PROVE ListingAssembled
BY DEF ListingAssembled, InFirst, InSecond, InOpen, InFile, InEnd

(* It holds at the start. *)
LEMMA ToolchainInvInit == ToolchainInit => ToolchainInv
<1> SUFFICES ASSUME ToolchainInit PROVE ToolchainInv
  OBVIOUS
<1>1. /\ phase = "start" /\ status = "none" /\ table = <<>> /\ ok
      /\ opened = FALSE /\ source = <<>> /\ parsed = <<>>
  BY DEF ToolchainInit, Init
<1>2. Idle /\ DriverSide /\ ListingAssembled
  BY <1>1, NotBegun DEF Idle, DriverSide
<1>3. ASSUME NEW manuscript \in Manuscripts, Written(manuscript)
      PROVE  ListingSide
  <2>1. /\ stage = "done" /\ result = "none" /\ image = <<>>
        /\ base = 0 /\ words = <<>> /\ row = 1 /\ decoded = <<>>
    BY <1>3 DEF Written
  <2>2. image \in Seq(Byte) /\ words \in Seq(Word) /\ Len(words) = 0
    BY <2>1
  <2>3. base \in Word
    BY <2>1, BoundedIsWord
  <2>4. FilesOK
    BY <2>1, <2>2, <2>3 DEF FilesOK, Stages
  <2>5. StagesOK
    BY <2>1 DEF StagesOK
  <2> QED
    BY <2>1, <2>4, <2>5 DEF ListingSide, DisassemblerInv
<1>4. ListingSide
  BY <1>3, ListingSideInit DEF ToolchainInit
<1> QED
  BY <1>2, <1>4 DEF ToolchainInv

(* The disassembler: the assembler has not begun. *)
LEMMA DisassembleStep ==
  ASSUME ToolchainInv, Disassemble PROVE ToolchainInv'
<1>1. DisassemblerNext /\ UNCHANGED <<opened, source, parsed, phase, table, ok, status>>
  BY DEF Disassemble, driverVars, vars, layoutVars
<1>2. stage # "done"
  BY <1>1 DEF DisassemblerNext, DisassemblerUsage, ObjectMissing, ObjectTooShort,
     ObjectEmpty, ReadObject, DecodeWord, EndDecode, SkipLine, LabelTarget,
     DemoteLine, EndLabel, OpenListingFails, Render
<1>3. ListingSide'
  BY <1>1, ListingSideNext DEF ToolchainInv
<1>4. phase = "start" /\ ~opened /\ source = <<>> /\ parsed = <<>> /\ opened = FALSE
  BY <1>2 DEF ToolchainInv, DriverSide
<1>5. ok /\ Idle'
  BY <1>1, <1>4 DEF ToolchainInv, Idle
<1>6. DriverSide'
  BY <1>1, <1>4 DEF DriverSide
<1>7. phase' = "start" /\ ok'
  BY <1>1, <1>4, <1>5
<1>8. ListingAssembled'
  BY <1>7 DEF ListingAssembled, InFirst, InSecond, InOpen, InFile, InEnd
<1> QED
  BY <1>3, <1>5, <1>6, <1>8 DEF ToolchainInv

(* Main reads the assembly file. *)
LEMMA DriverStep ==
  ASSUME ToolchainInv, OpenSource \/ ReadLine PROVE ToolchainInv'
<1>1. /\ UNCHANGED disassemblerVars
      /\ phase = "start" /\ UNCHANGED <<phase, table, ok, status>>
      /\ opened'
  BY DEF OpenSource, ReadLine, vars, layoutVars, ToolchainInv, DriverSide
<1>2. /\ ListingSide' /\ SameArray /\ UNCHANGED <<stage, result, listing>>
  BY <1>1, ListingSideFrame DEF ToolchainInv
<1>3. stage = "done" /\ opened' = TRUE
  <2>1. CASE OpenSource
    BY <2>1 DEF OpenSource, ToolchainInv, ListingSide
  <2>2. CASE ReadLine
    BY <2>2 DEF ReadLine, ToolchainInv, DriverSide
  <2> QED
    BY <2>1, <2>2
<1>4. ASSUME result = "0" PROVE Reading'
  BY <1>4, OpenSourceReads, ReadLineReads DEF ToolchainInv
<1>5. DriverSide'
  BY <1>1, <1>2, <1>3, <1>4 DEF DriverSide
<1>6. ok /\ Idle'
  BY <1>1 DEF ToolchainInv, Idle
<1>7. phase' = "start" /\ ok'
  BY <1>1, <1>6
<1>8. ListingAssembled'
  BY <1>7 DEF ListingAssembled, InFirst, InSecond, InOpen, InFile, InEnd
<1> QED
  BY <1>2, <1>5, <1>6, <1>8 DEF ToolchainInv

(* Main ends early. *)
LEMMA RefuseStep ==
  ASSUME ToolchainInv, Refuse PROVE ToolchainInv'
<1>1. /\ UNCHANGED disassemblerVars
      /\ UNCHANGED <<opened, source, parsed, ok, table>>
      /\ phase = "start" /\ phase' = "ended" /\ status' \in {"1", "2"}
      /\ ~opened /\ listing # <<>>
  BY DEF Refuse, Usage, SourceMissing, Exit, driverVars, layoutVars
<1>2. /\ ListingSide' /\ UNCHANGED <<stage, result, listing>>
  BY <1>1, ListingSideFrame DEF ToolchainInv
<1>3. stage = "done"
  BY <1>1 DEF ToolchainInv, ListingSide
<1>4. DriverSide' /\ Idle'
  BY <1>1, <1>2, <1>3 DEF ToolchainInv, DriverSide, Idle
<1>5. ok'
  BY <1>1 DEF ToolchainInv, Idle
<1>6. ListingAssembled'
  BY <1>1, <1>5 DEF ListingAssembled, InFirst, InSecond, InOpen, InFile, InEnd
<1> QED
  BY <1>2, <1>4, <1>6 DEF ToolchainInv

(* Main hands the passes the lines it has read. *)
LEMMA AssembleStep ==
  ASSUME ToolchainInv, Assemble PROVE ToolchainInv'
<1>1. /\ UNCHANGED disassemblerVars /\ UNCHANGED <<opened, source, parsed>>
      /\ opened /\ source = <<>> /\ phase = "start" /\ phase' = "pass1"
      /\ program' = parsed /\ next' = 1
      /\ address' = [i \in 1 .. Len(program') |-> 0]
      /\ codes' = [i \in 1 .. Len(program') |-> <<>>]
      /\ UNCHANGED <<table, ok, status>>
  BY DEF Assemble, LoadProgram, driverVars
<1>2. /\ ListingSide' /\ SameArray /\ UNCHANGED <<stage, result, listing>>
      /\ ShorterThanOffsets' <=> ShorterThanOffsets
  BY <1>1, ListingSideFrame DEF ToolchainInv
<1>3. stage = "done"
  BY <1>1 DEF ToolchainInv, DriverSide
<1>4. DriverSide'
  <2>1. Reading' <=> Reading
    BY <1>1, <1>2, ReadingFrame
  <2> QED
    BY <1>1, <1>2, <1>3, <2>1 DEF ToolchainInv, DriverSide
<1>5. Idle' /\ ok' /\ table' = <<>>
  BY <1>1 DEF ToolchainInv, Idle
<1>6. ASSUME result = "0", ShorterThanOffsets PROVE ListingAssembled'
  <2>1. ShortArray
    BY <1>6, ShortListing DEF ToolchainInv
  <2>2. PICK n \in Nat : ReadUpTo(n)
    BY <1>1, <1>6 DEF ToolchainInv, DriverSide, Reading
  <2>3. /\ IsArray(parsed) /\ Len(parsed) = Len(words) + 2
        /\ \A i \in 1 .. Len(words) + 2 : parsed[i] = ReadAt(i)
        /\ Len(words) \in Nat
    <3>1. Len(source) = 0 /\ Len(words) \in Nat
      BY <1>1, <2>1, ShortArrayIs
    <3>2. n = Len(words) + 2
      BY <2>2, <3>1 DEF ReadUpTo
    <3> QED
      BY <2>2, <3>1, <3>2 DEF ReadUpTo
  <2>4. words' = words /\ base' = base /\ decoded' = decoded
    BY <1>2 DEF SameArray
  <2>5. OfListing'
    <3>1. \A i \in 1 .. Len(words) + 2 : program'[i] = ReadAt(i)'
      BY <1>1, <1>2, <2>3, ArrayFrame
    <3> QED
      BY <1>1, <2>3, <2>4, <3>1 DEF OfListing
  <2> DEFINE m == Len(words) + 2
  <2>6. /\ address' \in Seq({0}) /\ Len(address') = m
        /\ codes' \in Seq({<<>>}) /\ Len(codes') = m
        /\ codes'[1] = <<>> /\ codes'[m] = <<>>
    BY <1>1, <2>3
  <2>7. IsArray(address') /\ IsArray(codes')
    BY <2>6 DEF IsArray
  <2>8. \A n1 \in 1 .. Len(words) : ~(n1 + 1 < 1)
    OBVIOUS
  <2>9. PlacedBefore(1)' /\ CodesBefore(1)'
    BY <2>4, <2>6, <2>7, <2>8 DEF PlacedBefore, CodesBefore
  <2>10. RowsMinted(table')
    <3>1. <<>> \in Seq({}) /\ Len(<<>>) = 0
      OBVIOUS
    <3>2. table' \in Seq({}) /\ Len(table') = 0
      BY <1>5, <3>1
    <3> QED
      BY <3>2 DEF RowsMinted, IsArray
  <2>11. NamedBefore(1)'
    BY <2>4, <2>8, <2>10 DEF NamedBefore
  <2>12. 1 \in 1 .. Len(words') + 2
    BY <2>3, <2>4
  <2>13. InFirst'
    BY <1>1, <2>9, <2>11, <2>12 DEF InFirst
  <2> QED
    BY <1>1, <1>5, <2>5, <2>13 DEF ListingAssembled, InSecond, InOpen, InFile, InEnd
<1> QED
  BY <1>2, <1>4, <1>5, <1>6 DEF ToolchainInv

(* From the symbol table's end on, the assembler works on the listing. *)
LEMMA PassesStep ==
  ASSUME ~MaySpoil, ShortArray, SameArray, ListingAssembled, Passes,
         phase # "start", phase # "ended"
  PROVE  ListingAssembled'
<1>1. ok /\ InFirst /\ InSecond /\ InOpen /\ InFile
      /\ (phase \in {"pass1", "pass2", "open", "write"} => OfListing)
  BY DEF ListingAssembled
<1>2. CASE PlaceOrigin \/ Place
  <2>1. phase = "pass1" /\ OfListing
    BY <1>1, <1>2 DEF PlaceOrigin, Place
  <2>2. InFirst' /\ phase' = "pass1" /\ OfListing' /\ ok' = ok
    BY <1>1, <1>2, <2>1, PlaceOriginStep, PlaceStep
  <2> QED
    BY <1>1, <2>2 DEF ListingAssembled, InSecond, InOpen, InFile, InEnd
<1>3. CASE EndPass1
  <2>1. phase = "pass1" /\ OfListing
    BY <1>1, <1>3 DEF EndPass1
  <2>2. InSecond' /\ phase' = "pass2" /\ OfListing' /\ ok' = ok
    BY <1>1, <1>3, <2>1, EndPass1Step
  <2> QED
    BY <1>1, <2>2 DEF ListingAssembled, InFirst, InOpen, InFile, InEnd
<1>4. CASE EmitLine
  <2>1. phase = "pass2" /\ OfListing
    BY <1>1, <1>4 DEF EmitLine
  <2>2. InSecond' /\ phase' = "pass2" /\ OfListing' /\ ok' = ok
    BY <1>1, <1>4, <2>1, EmitLineStep
  <2> QED
    BY <1>1, <2>2 DEF ListingAssembled, InFirst, InOpen, InFile, InEnd
<1>5. CASE RejectLine \/ CrashOnLine
  <2>1. phase = "pass2" /\ OfListing /\ More /\ (Fails \/ Dies)
    BY <1>1, <1>5 DEF RejectLine, CrashOnLine
  <2> QED
    BY <1>1, <2>1, NoneFails
<1>6. CASE EndPass2
  <2>1. phase = "pass2" /\ OfListing
    BY <1>1, <1>6 DEF EndPass2
  <2>2. InOpen' /\ phase' = "open" /\ OfListing' /\ ok' = ok
    BY <1>1, <1>6, <2>1, EndPass2Step
  <2> QED
    BY <1>1, <2>2 DEF ListingAssembled, InFirst, InSecond, InFile, InEnd
<1>7. CASE OpenFails
  <2>1. InEnd' /\ phase' = "ended" /\ ok' = ok
    BY <1>7, OpenFailsStep
  <2> QED
    BY <1>1, <2>1 DEF ListingAssembled, InFirst, InSecond, InOpen, InFile
<1>8. CASE OpenObject
  <2>1. phase = "open" /\ OfListing
    BY <1>1, <1>8 DEF OpenObject
  <2>2. InFile' /\ phase' = "write" /\ OfListing' /\ ok' = ok
    BY <1>1, <1>8, <2>1, OpenObjectStep
  <2> QED
    BY <1>1, <2>2 DEF ListingAssembled, InFirst, InSecond, InOpen, InEnd
<1>9. CASE WriteLine
  <2>1. phase = "write" /\ OfListing
    BY <1>1, <1>9 DEF WriteLine
  <2>2. InFile' /\ phase' = "write" /\ OfListing' /\ ok' = ok
    BY <1>1, <1>9, <2>1, WriteLineStep
  <2> QED
    BY <1>1, <2>2 DEF ListingAssembled, InFirst, InSecond, InOpen, InEnd
<1>10. CASE CloseObject
  <2>1. phase = "write" /\ OfListing
    BY <1>1, <1>10 DEF CloseObject
  <2>2. InEnd' /\ phase' = "ended" /\ ok' = ok
    BY <1>1, <1>10, <2>1, CloseObjectStep
  <2> QED
    BY <1>1, <2>2 DEF ListingAssembled, InFirst, InSecond, InOpen, InFile
<1> QED
  BY <1>2, <1>3, <1>4, <1>5, <1>6, <1>7, <1>8, <1>9, <1>10 DEF Passes

(* The passes and the writing come after the reading. *)
LEMMA PassesPhases ==
  ASSUME Passes
  PROVE  /\ phase \in {"pass1", "pass2", "open", "write"}
         /\ phase' # "start"
         /\ phase' # "ended" => status' = status
BY DEF Passes, PlaceOrigin, Place, EndPass1, EmitLine, RejectLine, CrashOnLine,
   EndPass2, OpenFails, OpenObject, WriteLine, CloseObject, Exit

(* They leave the disassembler and the driver alone. *)
LEMMA RunPassesStep ==
  ASSUME ~MaySpoil, ToolchainInv, RunPasses PROVE ToolchainInv'
<1>1. /\ Passes /\ UNCHANGED disassemblerVars
      /\ UNCHANGED <<opened, source, parsed>>
  BY DEF RunPasses, driverVars
<1>2. /\ phase \in {"pass1", "pass2", "open", "write"} /\ phase' # "start"
      /\ phase' # "ended" => status' = status
  BY <1>1, PassesPhases
<1>3. /\ ListingSide' /\ SameArray /\ UNCHANGED <<stage, result, listing>>
      /\ ShorterThanOffsets' <=> ShorterThanOffsets
  BY <1>1, ListingSideFrame DEF ToolchainInv
<1>4. stage = "done" /\ opened
  BY <1>2 DEF ToolchainInv, DriverSide
<1>5. DriverSide'
  <2>1. Reading' <=> Reading
    BY <1>1, <1>3, ReadingFrame
  <2> QED
    BY <1>1, <1>3, <1>4, <2>1 DEF ToolchainInv, DriverSide
<1>6. Idle'
  BY <1>2 DEF ToolchainInv, Idle
<1>7. ASSUME result = "0", ShorterThanOffsets PROVE ListingAssembled'
  <2>1. ShortArray /\ ListingAssembled
    BY <1>7, ShortListing DEF ToolchainInv
  <2> QED
    BY <1>1, <1>2, <1>3, <2>1, PassesStep
<1> QED
  BY <1>3, <1>5, <1>6, <1>7 DEF ToolchainInv

(* Nothing happens. *)
LEMMA ToolchainStutter ==
  ASSUME ToolchainInv, UNCHANGED toolchainVars PROVE ToolchainInv'
<1>1. /\ UNCHANGED disassemblerVars /\ UNCHANGED driverVars /\ UNCHANGED vars
  BY DEF toolchainVars
<1>2. /\ UNCHANGED <<opened, source, parsed, phase, program, next, lc, origin>>
      /\ UNCHANGED <<have_origin, table, address, codes, ok, written, object, status>>
  BY <1>1 DEF driverVars, vars, layoutVars, fileVars
<1>3. /\ ListingSide' /\ SameArray /\ UNCHANGED <<stage, result, listing>>
      /\ ShorterThanOffsets' <=> ShorterThanOffsets
  BY <1>1, ListingSideFrame DEF ToolchainInv
<1>4. DriverSide' /\ Idle'
  <2>1. Reading' <=> Reading
    BY <1>2, <1>3, ReadingFrame
  <2> QED
    BY <1>2, <1>3, <2>1 DEF ToolchainInv, DriverSide, Idle
<1>5. ListingAssembled => ListingAssembled'
  <2>1. words' = words /\ base' = base /\ decoded' = decoded
    BY <1>3 DEF SameArray
  <2>2. OfListing' <=> OfListing
    BY <1>2, <1>3, PassFrame
  <2>3. /\ InFirst' <=> InFirst
        /\ InSecond' <=> InSecond
    BY <1>2, <2>1 DEF InFirst, InSecond, PlacedBefore, NamedBefore, CodesBefore
  <2>4. /\ InOpen' <=> InOpen
        /\ InFile' <=> InFile
        /\ InEnd' <=> InEnd
    BY <1>2, <2>1 DEF InOpen, InFile, InEnd, CodesBefore, Image, WrittenBefore
  <2> QED
    BY <1>2, <2>2, <2>3, <2>4 DEF ListingAssembled
<1> QED
  BY <1>3, <1>4, <1>5 DEF ToolchainInv

(* No step breaks the invariant. *)
LEMMA ToolchainInvNext ==
  ASSUME ~MaySpoil, ToolchainInv, [ToolchainNext]_toolchainVars
  PROVE  ToolchainInv'
BY DisassembleStep, DriverStep, AssembleStep, RefuseStep, RunPassesStep,
   ToolchainStutter DEF ToolchainNext, ToolchainSteps

(* The words of an object file, as bytes again. *)
LEMMA WholeWords ==
  ASSUME NEW bytes \in Seq(Byte)
  PROVE  ToBytes(WordsOf(bytes)) = SubSeq(bytes, 1, 2 * (Len(bytes) \div 2))
<1> DEFINE size == Len(bytes) \div 2
           ws == WordsOf(bytes)
           front == SubSeq(bytes, 1, 2 * size)
<1>1. size \in Nat /\ 2 * size <= Len(bytes) /\ 2 * size \in Nat /\ Len(bytes) \in Nat
  OBVIOUS
<1>2. /\ ws \in Seq(Word) /\ Len(ws) = size
      /\ \A k \in 1 .. size : ws[k] = bytes[2 * k - 1] * 256 + bytes[2 * k]
  BY WordsOfType, <1>1 DEF WordsOf
<1>3. /\ front \in Seq(Byte) /\ Len(front) = 2 * size
      /\ \A i \in 1 .. 2 * size : front[i] = bytes[i]
  BY <1>1
<1>4. ToBytes(ws) \in Seq(Byte) /\ Len(ToBytes(ws)) = 2 * size
  BY <1>2, ToBytesType
<1>5. \A k \in 1 .. size :
        /\ ToBytes(ws)[2 * k - 1] = ws[k] \div 256
        /\ ToBytes(ws)[2 * k] = ws[k] % 256
  BY <1>2, ToBytesOf
<1> HIDE DEF size, ws, front
<1>6. ASSUME NEW k \in 1 .. size
      PROVE  /\ ToBytes(ws)[2 * k - 1] = front[2 * k - 1]
             /\ ToBytes(ws)[2 * k] = front[2 * k]
  <2>1. /\ 2 * k - 1 \in 1 .. 2 * size /\ 2 * k \in 1 .. 2 * size
        /\ 2 * k - 1 \in 1 .. Len(bytes) /\ 2 * k \in 1 .. Len(bytes)
    BY <1>1
  <2>2. bytes[2 * k - 1] \in Byte /\ bytes[2 * k] \in Byte
    BY <2>1
  <2>3. \A x, y \in Byte : (x * 256 + y) \div 256 = x /\ (x * 256 + y) % 256 = y
    BY DEF Byte
  <2>4. ToBytes(ws)[2 * k - 1] = bytes[2 * k - 1] /\ ToBytes(ws)[2 * k] = bytes[2 * k]
    BY <1>2, <1>5, <2>2, <2>3
  <2> QED
    BY <1>3, <2>1, <2>4
<1>7. ASSUME NEW i \in 1 .. 2 * size PROVE ToBytes(ws)[i] = front[i]
  <2>1. PICK k \in 1 .. size : i = 2 * k - 1 \/ i = 2 * k
    <3>1. (i + 1) \div 2 \in 1 .. size
      BY <1>1
    <3>2. i = 2 * ((i + 1) \div 2) - 1 \/ i = 2 * ((i + 1) \div 2)
      BY <1>1
    <3> QED
      BY <3>1, <3>2
  <2> QED
    BY <1>6, <2>1
<1>8. ToBytes(ws) = front
  BY <1>3, <1>4, <1>7, SeqEqual
<1> QED
  BY <1>8 DEF ws, front, size

(* The image of a listing is that of the object file it was made from. *)
LEMMA ImageBack ==
  ASSUME ShortArray, FromImage, image \in Seq(Byte)
  PROVE  ToBytes(Image(Len(words))) = SubSeq(image, 1, 2 * (Len(image) \div 2))
<1> DEFINE ws == WordsOf(image)
           m == Len(words)
<1>1. ws \in Seq(Word) /\ Len(ws) > 1 /\ base = ws[1] /\ words = Tail(ws)
  BY WordsOfType DEF FromImage
<1>2. m \in Nat /\ m \in 0 .. m
  BY ShortArrayIs
<1>3. /\ Image(m) \in Seq(Word) /\ Len(Image(m)) = m + 1
      /\ Image(m)[1] = base /\ \A n \in 1 .. m : Image(m)[n + 1] = words[n]
  BY <1>2, ImageType
<1> HIDE DEF ws
<1>4. Len(ws) = m + 1 /\ \A n \in 1 .. m : words[n] = ws[n + 1]
  BY <1>1
<1> HIDE DEF m
<1>5. ASSUME NEW i \in 1 .. m + 1 PROVE Image(m)[i] = ws[i]
  <2>1. CASE i = 1
    BY <1>1, <1>3, <2>1
  <2>2. CASE i # 1
    <3>1. i - 1 \in 1 .. m /\ (i - 1) + 1 = i
      BY <1>2, <2>2
    <3> QED
      BY <1>3, <1>4, <3>1
  <2> QED
    BY <2>1, <2>2
<1>6. Image(m) = ws
  BY <1>1, <1>3, <1>4, <1>5, SeqEqual
<1> QED
  BY <1>6, WholeWords DEF ws, m

(* The invariant is more than what is promised. *)
LEMMA RoundTripInv == ToolchainInv => RoundTrip
<1> SUFFICES ASSUME ToolchainInv, Disassembled, ShorterThanOffsets
             PROVE  /\ ok /\ status # "crash"
                    /\ phase = "ended" /\ status = "0" =>
                         object = SubSeq(image, 1, 2 * (Len(image) \div 2))
  BY DEF RoundTrip
<1>1. result = "0" /\ ListingAssembled /\ ShortArray
  BY ShortListing DEF Disassembled, ToolchainInv
<1>2. ok /\ status # "crash"
  BY <1>1 DEF ToolchainInv, Idle, ListingAssembled, InEnd
<1>3. FromImage /\ image \in Seq(Byte)
  BY <1>1 DEF ToolchainInv, ListingSide, DisassemblerInv, FilesOK
<1>4. ASSUME phase = "ended", status = "0"
      PROVE  object = SubSeq(image, 1, 2 * (Len(image) \div 2))
  BY <1>1, <1>3, <1>4, ImageBack DEF ListingAssembled, InEnd
<1> QED
  BY <1>2, <1>4

(* ToolchainRoundTrip: the listing of an object file, shorter than the longest
   offset leaves room for, is read line by line, laid out and encoded without
   an error, and on a disk that does not fill up the new object file has the
   bytes of the old one, but for an odd byte at its end. *)
THEOREM ToolchainRoundTrip ==
  ASSUME ~MaySpoil PROVE ToolchainSpec => []RoundTrip
<1>1. ToolchainInv /\ [ToolchainNext]_toolchainVars => ToolchainInv'
  BY ToolchainInvNext
<1> QED
  BY <1>1, ToolchainInvInit, RoundTripInv, PTL DEF ToolchainSpec

-----------------------------------------------------------------------------
(* The type of what is parsed, for every text. *)

(* The least and the greatest element of a set of places. *)
LEMMA MinIn ==
  ASSUME NEW S, S \subseteq Nat, S # {}
  PROVE  Min(S) \in S /\ \A i \in S : Min(S) <= i
<1>1. \E x \in S : \A y \in S : x <= y
  BY LeastElement
<1> QED
  BY <1>1 DEF Min

LEMMA MaxIn ==
  ASSUME NEW m \in Nat, NEW S, S \subseteq 0 .. m, S # {}
  PROVE  Max(S) \in S /\ \A i \in S : i <= Max(S)
<1> DEFINE T == {n \in Nat : n <= m /\ m - n \in S}
<1>1. T \subseteq Nat /\ T # {}
  <2>1. PICK x \in S : TRUE
    OBVIOUS
  <2>2. m - x \in Nat /\ m - x <= m /\ m - (m - x) = x
    BY <2>1
  <2>3. m - x \in T
    BY <2>1, <2>2
  <2> QED
    BY <2>3
<1>2. PICK n \in T : \A k \in T : n <= k
  BY <1>1, LeastElement
<1>3. ASSUME NEW i \in S PROVE m - n >= i
  <2>1. i \in 0 .. m /\ m - i \in Nat /\ m - i <= m /\ m - (m - i) = i
    OBVIOUS
  <2>2. m - i \in T
    BY <2>1
  <2>3. n <= m - i /\ n \in Nat
    BY <1>2, <2>2
  <2> QED
    BY <2>1, <2>3
<1>4. m - n \in S
  OBVIOUS
<1>5. Max(S) \in S /\ \A i \in S : Max(S) >= i
  <2> HIDE DEF T
  <2>1. \E x \in S : \A y \in S : x >= y
    BY <1>3, <1>4
  <2> QED
    BY <2>1 DEF Max
<1>6. \A i \in S : i \in Nat
  OBVIOUS
<1>7. Max(S) \in Nat
  BY <1>5, <1>6
<1> QED
  BY <1>5, <1>6, <1>7

(* The elements of a set of numbers that are below some number: one more   *)
(* at most at each step, and then it is the number passed.                 *)
LEMMA CountedBelow ==
  ASSUME NEW m \in Nat, NEW S, S \subseteq 0 .. m
  PROVE  /\ Cardinality(S) \in Nat
         /\ Below(S, 0, 0) /\ Below(S, m + 1, Cardinality(S))
         /\ \A t \in Nat :
              /\ Cardinality({i \in S : i < t}) \in Nat
              /\ Cardinality({i \in S : i < t + 1})
                   = Cardinality({i \in S : i < t}) + (IF t \in S THEN 1 ELSE 0)
<1>1. IsFiniteSet(S)
  <2>1. IsFiniteSet(0 .. m)
    BY FS_Interval
  <2> QED
    BY <2>1, FS_Subset
<1>2. Cardinality(S) \in Nat
  BY <1>1, FS_CardinalityType
<1>3. {i \in S : i < 0} = {} /\ {i \in S : i < m + 1} = S
  <2>1. \A i \in S : i \in Int /\ ~(i < 0) /\ i < m + 1
    OBVIOUS
  <2> QED
    BY <2>1, Zenon
<1>4. Below(S, 0, 0) /\ Below(S, m + 1, Cardinality(S))
  BY <1>3, FS_EmptySet DEF Below
<1>5. ASSUME NEW t \in Nat
      PROVE  /\ Cardinality({i \in S : i < t}) \in Nat
             /\ Cardinality({i \in S : i < t + 1})
                   = Cardinality({i \in S : i < t}) + (IF t \in S THEN 1 ELSE 0)
  <2> DEFINE less == {i \in S : i < t}
             more == {i \in S : i < t + 1}
  <2>1. less \in SUBSET S
    OBVIOUS
  <2>2. IsFiniteSet(less)
    BY <1>1, <2>1, FS_Subset
  <2>3. Cardinality(less) \in Nat
    BY <2>2, FS_CardinalityType
  <2> DEFINE before(i) == i < t
             upto(i) == i < t + 1
  <2>4. \A i \in S : upto(i) <=> before(i) \/ i = t
    OBVIOUS
  <2>5. ~before(t)
    OBVIOUS
  <2>6. less = {i \in S : before(i)} /\ more = {i \in S : upto(i)}
    OBVIOUS
  <2> HIDE DEF less, more, before, upto
  <2>7. CASE t \in S
    <3>1. more = less \cup {t} /\ t \notin less
      BY <2>7, <2>4, <2>5, <2>6
    <3> HIDE DEF less, more
    <3>2. Cardinality(less \cup {t}) = Cardinality(less) + 1
      BY <2>2, <3>1, FS_AddElement
    <3>3. Cardinality(more) = Cardinality(less) + 1
      BY <3>1, <3>2
    <3> QED
      BY <2>3, <2>7, <3>3 DEF less, more
  <2>8. CASE t \notin S
    <3>1. more = less
      BY <2>8, <2>4, <2>6
    <3> HIDE DEF less, more
    <3>2. Cardinality(more) = Cardinality(less) + 0
      BY <2>3, <3>1
    <3> QED
      BY <2>3, <2>8, <3>2 DEF less, more
  <2> QED
    BY <2>7, <2>8
<1> QED
  BY <1>2, <1>4, <1>5

(* So every number below the size of the set numbers one of its elements.  *)
LEMMA NthIn ==
  ASSUME NEW m \in Nat, NEW S, S \subseteq 0 .. m,
         NEW n \in Nat, n < Cardinality(S)
  PROVE  Nth(n, S) \in S
<1> DEFINE c(t) == Cardinality({i \in S : i < t})
           T == {t \in Nat : n < c(t)}
<1>1. c(0) = 0 /\ c(m + 1) = Cardinality(S)
  BY CountedBelow DEF Below
<1>2. \A t \in Nat : c(t) \in Nat /\ c(t + 1) = c(t) + (IF t \in S THEN 1 ELSE 0)
  BY CountedBelow
<1> HIDE DEF c
<1>3. m + 1 \in T
  BY <1>1
<1>4. PICK t \in T : \A k \in T : t <= k
  BY <1>3, LeastElement
<1>5. t # 0
  BY <1>1
<1>6. PICK s \in Nat : t = s + 1
  <2>1. t \in Nat /\ t - 1 \in Nat /\ t = (t - 1) + 1
    BY <1>5
  <2> QED
    BY <2>1
<1>7. ~(n < c(s))
  BY <1>4, <1>6
<1>8. s \in S /\ c(s) = n
  BY <1>2, <1>6, <1>7
<1>9. \E j \in S : Cardinality({i \in S : i < j}) = n
  BY <1>8 DEF c
<1> QED
  BY <1>9 DEF Nth


(* A part of a text is a text. *)
LEMMA PartType ==
  ASSUME NEW line \in Tokens, NEW i \in Int, NEW j \in Int,
         i >= 1, j <= Len(line)
  PROVE  SubSeq(line, i, j) \in Tokens
<1>1. \A k \in i .. j : line[k] \in Lexemes
  BY DEF Tokens
<1> QED
  BY <1>1, SubSeqProperties DEF Tokens

LEMMA PlacesType ==
  ASSUME NEW line \in Tokens, NEW S, S \subseteq DOMAIN line
  PROVE  /\ Len(line) \in Nat /\ DOMAIN line = 1 .. Len(line)
         /\ S \subseteq Nat /\ S \subseteq 0 .. Len(line)
         /\ \A i \in S : i \in Nat /\ 1 <= i /\ i <= Len(line)
  BY DEF Tokens

LEMMA PlacesIn ==
  ASSUME NEW line, NEW lexeme
  PROVE  Places(line, lexeme) \subseteq DOMAIN line
  BY DEF Places

(* What is cut off a line leaves a text. *)
LEMMA CutTypes ==
  ASSUME NEW line \in Tokens
  PROVE  /\ Uncommented(line) \in Tokens /\ Trim(line) \in Tokens
         /\ FirstToken(line) \in Tokens
         /\ Len(FirstToken(line)) \in 0 .. Len(line)
<1>1. Len(line) \in Nat /\ DOMAIN line = 1 .. Len(line)
  BY DEF Tokens
<1>2. ASSUME NEW S, S \subseteq DOMAIN line, S # {}
      PROVE  /\ SubSeq(line, 1, Min(S) - 1) \in Tokens
             /\ SubSeq(line, Min(S), Max(S)) \in Tokens
             /\ Min(S) \in 1 .. Len(line)
             /\ Len(SubSeq(line, 1, Min(S) - 1)) \in 0 .. Len(line)
  <2>1. S \subseteq Nat /\ S \subseteq 0 .. Len(line)
    BY <1>2, PlacesType
  <2>2. Min(S) \in S /\ Max(S) \in S
    BY <1>1, <1>2, <2>1, MinIn, MaxIn
  <2>3. /\ Min(S) \in Int /\ 1 <= Min(S) /\ Min(S) <= Len(line)
        /\ Max(S) \in Int /\ 1 <= Max(S) /\ Max(S) <= Len(line)
    BY <1>1, <1>2, <2>2
  <2>4. Min(S) - 1 \in Int /\ Min(S) - 1 <= Len(line) /\ Min(S) - 1 >= 0
    BY <1>1, <2>3
  <2>5. SubSeq(line, 1, Min(S) - 1) \in Tokens
    BY <2>4, PartType
  <2>6. SubSeq(line, Min(S), Max(S)) \in Tokens
    BY <2>3, PartType
  <2>7. Len(SubSeq(line, 1, Min(S) - 1)) = Min(S) - 1
    BY <2>4 DEF Tokens
  <2> QED
    BY <1>1, <2>3, <2>4, <2>5, <2>6, <2>7
<1>3. Uncommented(line) \in Tokens
  <2> DEFINE comments ==
        {i \in Places(line, Semicolon) :
           Cardinality({j \in Places(line, Quote) : j < i}) % 2 = 0}
  <2>1. comments \subseteq DOMAIN line
    BY PlacesIn
  <2>2. Uncommented(line) = IF comments = {} THEN line
                            ELSE SubSeq(line, 1, Min(comments) - 1)
    BY DEF Uncommented
  <2> HIDE DEF comments
  <2> QED
    BY <1>2, <2>1, <2>2
<1>4. Trim(line) \in Tokens
  <2> DEFINE solid == DOMAIN line \ Places(line, Blank)
  <2>1. Trim(line) = IF solid = {} THEN <<>>
                     ELSE SubSeq(line, Min(solid), Max(solid))
    BY DEF Trim
  <2>2. solid \subseteq DOMAIN line /\ <<>> \in Tokens
    BY DEF Tokens
  <2> HIDE DEF solid
  <2> QED
    BY <1>2, <2>1, <2>2
<1>5. FirstToken(line) \in Tokens /\ Len(FirstToken(line)) \in 0 .. Len(line)
  <2>1. FirstToken(line) = IF Places(line, Blank) = {} THEN line
                           ELSE SubSeq(line, 1, Min(Places(line, Blank)) - 1)
    BY DEF FirstToken
  <2>2. Len(line) \in 0 .. Len(line)
    BY <1>1
  <2> QED
    BY <1>2, <2>1, <2>2, PlacesIn
<1> QED
  BY <1>3, <1>4, <1>5


(* Trimming any text leaves a text, also behind the first token. *)
LEMMA TrimType == ASSUME NEW line \in Tokens PROVE Trim(line) \in Tokens
  BY CutTypes

LEMMA BehindType == ASSUME NEW line \in Tokens PROVE Behind(line) \in Tokens
<1>1. /\ Len(FirstToken(line)) \in 0 .. Len(line) /\ Len(line) \in Nat
      /\ Len(FirstToken(line)) + 1 \in Int /\ Len(FirstToken(line)) + 1 >= 1
      /\ Len(line) \in Int /\ Len(line) <= Len(line)
  BY CutTypes DEF Tokens
<1>2. SubSeq(line, Len(FirstToken(line)) + 1, Len(line)) \in Tokens
  BY <1>1, PartType
<1> QED
  BY <1>2, TrimType DEF Behind

(* The pieces between commas are texts. *)
LEMMA SplitType ==
  ASSUME NEW line \in Tokens
  PROVE  Split(line) \in Seq(Tokens)
<1> DEFINE stops == {0, Len(line) + 1} \cup Places(line, Comma)
           m == Len(line) + 1
<1>1. Len(line) \in Nat /\ DOMAIN line = 1 .. Len(line)
  BY DEF Tokens
<1>2. stops \subseteq 0 .. m /\ m \in Nat
  <2>1. Places(line, Comma) \subseteq 1 .. Len(line)
    BY <1>1, PlacesIn
  <2>2. 0 \in 0 .. m /\ m \in 0 .. m /\ 1 .. Len(line) \subseteq 0 .. m
    BY <1>1
  <2> QED
    BY <1>1, <2>1, <2>2
<1>3. Split(line) = [n \in 1 .. Cardinality(stops) - 1 |->
                       Trim(SubSeq(line, Nth(n - 1, stops) + 1,
                                   Nth(n, stops) - 1))]
  BY DEF Split
<1> HIDE DEF stops
<1>4. Cardinality(stops) \in Nat
  BY <1>2, CountedBelow
<1>5. ASSUME NEW n \in 1 .. Cardinality(stops) - 1
      PROVE  Trim(SubSeq(line, Nth(n - 1, stops) + 1, Nth(n, stops) - 1))
               \in Tokens
  <2>1. /\ n \in Nat /\ n < Cardinality(stops)
        /\ n - 1 \in Nat /\ n - 1 < Cardinality(stops)
    BY <1>4
  <2>2. Nth(n - 1, stops) \in 0 .. m /\ Nth(n, stops) \in 0 .. m
    <3> HIDE DEF m
    <3> QED
      BY <1>2, <2>1, NthIn
  <2>3. /\ Nth(n - 1, stops) + 1 \in Int /\ Nth(n - 1, stops) + 1 >= 1
        /\ Nth(n, stops) - 1 \in Int /\ Nth(n, stops) - 1 <= Len(line)
    BY <1>1, <2>2
  <2> QED
    BY <2>3, PartType, TrimType
<1>6. Cardinality(stops) - 1 \in Nat
  <2>1. 0 \in stops
    BY DEF stops
  <2>2. Cardinality(stops) # 0
    <3>1. IsFiniteSet(0 .. m)
      BY <1>2, FS_Interval
    <3>2. IsFiniteSet(stops)
      BY <1>2, <3>1, FS_Subset
    <3> QED
      BY <2>1, <3>2, FS_EmptySet
  <2> QED
    BY <1>4, <2>2
<1>7. PICK k \in Nat : k = Cardinality(stops) - 1
  BY <1>6
<1> QED
  BY <1>3, <1>5, <1>7

-----------------------------------------------------------------------------
(* The operands of any line. *)

(* The characters of a text are bytes. *)
LEMMA CharactersType ==
  ASSUME NEW x \in Lexemes
  PROVE  Characters(x) \in Seq(Byte)
<1> DEFINE d == x.digits
           sign == IF x.minus THEN <<45>> ELSE <<>>
           tail == [n \in DOMAIN d |-> d[n] + (IF d[n] < 10 THEN 48 ELSE 55)]
           head == Spelling(x.text)
<1>1. x.text \in Spellings /\ d \in Seq(Digits)
  BY DEF Lexemes
<1>2. head \in Seq(Byte)
  BY <1>1, SpellingAssumption
<1>3. sign \in Seq(Byte)
  <2>1. <<45>> \in Seq(Byte) /\ <<>> \in Seq(Byte)
    BY DEF Byte
  <2> QED
    BY <2>1, Zenon
<1>4. tail \in Seq(Byte)
  <2>1. \A n \in DOMAIN d : d[n] \in Digits
    BY <1>1
  <2>2. \A n \in DOMAIN d : d[n] + (IF d[n] < 10 THEN 48 ELSE 55) \in Byte
    BY <2>1 DEF Digits, Byte
  <2>3. tail \in [1 .. Len(d) -> Byte] /\ Len(d) \in Nat
    BY <1>1, <2>2
  <2> QED
    BY <2>3
<1>5. Characters(x) = (head \o sign) \o tail
  BY DEF Characters
<1> HIDE DEF head, sign, tail
<1> QED
  BY <1>2, <1>3, <1>4, <1>5

LEMMA TextType ==
  ASSUME NEW token \in Tokens
  PROVE  Text(token) \in Seq(Byte)
<1> DEFINE S == Seq(Byte)
           parts == [n \in DOMAIN token |-> Characters(token[n])]
<1>1. DOMAIN token = 1 .. Len(token) /\ Len(token) \in Nat
      /\ \A n \in DOMAIN token : token[n] \in Lexemes
  BY DEF Tokens
<1>2. \A n \in DOMAIN token : Characters(token[n]) \in S
  BY <1>1, CharactersType
<1>3. parts \in Seq(S)
  <2> HIDE DEF S
  <2> QED
    BY <1>1, <1>2
<1>4. FlattenSeq(parts) \in Seq(Byte)
  BY <1>3, FlattenType
<1> QED
  BY <1>4 DEF Text

(* A numeral has a value. *)
LEMMA ValueType ==
  ASSUME NEW digits \in Seq(Digits), NEW b \in {10, 16}
  PROVE  Value(digits, b) \in Int
<1> DEFINE place(n) == IF n <= Len(digits) THEN digits[Len(digits) - n + 1]
                       ELSE 0
<1>1. ASSUME NEW n \in 1 .. 5 PROVE place(n) \in Int
  <2>1. CASE n <= Len(digits)
    <3>1. Len(digits) - n + 1 \in 1 .. Len(digits)
      BY <2>1
    <3>2. digits[Len(digits) - n + 1] \in Digits
      BY <3>1
    <3> QED
      BY <2>1, <3>2 DEF Digits
  <2>2. CASE ~(n <= Len(digits))
    BY <2>2
  <2> QED
    BY <2>1, <2>2
<1>2. /\ place(1) \in Int /\ place(2) \in Int /\ place(3) \in Int
      /\ place(4) \in Int /\ place(5) \in Int /\ b \in Int
  BY <1>1
<1>3. Value(digits, b) =
        place(1) + b * (place(2) + b * (place(3) + b * (place(4) + b * place(5))))
  BY DEF Value
<1> HIDE DEF place
<1>4. \A i \in Int : b * i \in Int
  BY <1>2
<1>5. \A i, j \in Int : i + j \in Int
  OBVIOUS
<1>6. place(4) + b * place(5) \in Int
  BY <1>2, <1>4, <1>5
<1>7. place(3) + b * (place(4) + b * place(5)) \in Int
  BY <1>2, <1>4, <1>5, <1>6
<1>8. place(2) + b * (place(3) + b * (place(4) + b * place(5))) \in Int
  BY <1>2, <1>4, <1>5, <1>7
<1> QED
  BY <1>2, <1>3, <1>4, <1>5, <1>8

(* The four kinds of operands. *)
LEMMA OperandTypes ==
  /\ \A code \in RegisterCodes, bits \in Int : Register(code, bits) \in Operands
  /\ \A n \in Int : Integer(n) \in Operands
  /\ \A name \in Labels, bits \in Int : Label(name, bits) \in Operands
  /\ \A text \in Seq(Byte) : String(text) \in Operands
<1>1. \A code \in RegisterCodes : code # NoRegister
  BY DEF RegisterCodes, NoRegister
<1>2. <<>> \in Seq(Byte)
  OBVIOUS
<1>3. ASSUME NEW code \in RegisterCodes, NEW bits \in Int
      PROVE  Register(code, bits) \in Operands
  BY <1>1, <1>2 DEF Register, Operands
<1>4. ASSUME NEW n \in Int PROVE Integer(n) \in Operands
  BY <1>2 DEF Integer, Operands
<1>5. ASSUME NEW name \in Labels, NEW bits \in Int
      PROVE  Label(name, bits) \in Operands
  BY <1>2, LabelsAssumption DEF Label, Operands
<1>6. ASSUME NEW text \in Seq(Byte) PROVE String(text) \in Operands
  BY DEF String, Operands
<1> QED
  BY <1>3, <1>4, <1>5, <1>6

\* Every text may be a label.
AnyLabel == Tokens \subseteq Labels

(* What build_operand makes of any text is an operand. *)
LEMMA BuildType ==
  ASSUME AnyLabel, NEW token \in Tokens
  PROVE  BuildOperand(token) \in Operands
<1>1. CASE RegistersNamed(token) # {}
  <2> DEFINE code == CHOOSE c \in RegistersNamed(token) : TRUE
  <2>1. code \in RegistersNamed(token)
    BY <1>1
  <2>2. code \in RegisterCodes
    BY <2>1 DEF RegistersNamed
  <2>3. BuildOperand(token) = Register(code, PointerBits)
    BY <1>1 DEF BuildOperand
  <2> HIDE DEF code
  <2> QED
    BY <2>2, <2>3, OperandTypes, TextAssumption
<1>2. CASE RegistersNamed(token) = {} /\ IsNumeral(token)
  <2> DEFINE value == Value(token[1].digits, Base(token[1].text))
             n == IF token[1].minus THEN -value ELSE value
  <2>1. token[1] \in Lexemes
    <3>1. Len(token) = 1
      BY <1>2 DEF IsNumeral
    <3> QED
      BY <3>1 DEF Tokens
  <2>2. token[1].digits \in Seq(Digits) /\ Base(token[1].text) \in {10, 16}
    BY <2>1 DEF Lexemes, Base
  <2>3. value \in Int
    BY <2>2, ValueType
  <2>4. n \in Int
    <3> HIDE DEF value
    <3> QED
      BY <2>3
  <2>5. BuildOperand(token) = Integer(n)
    BY <1>2 DEF BuildOperand
  <2> HIDE DEF n
  <2> QED
    BY <2>4, <2>5, OperandTypes
<1>3. CASE RegistersNamed(token) = {} /\ ~IsNumeral(token)
  <2>1. BuildOperand(token) = Label(token, PointerBits)
    BY <1>3 DEF BuildOperand
  <2>2. token \in Labels
    BY DEF AnyLabel
  <2> QED
    BY <2>1, <2>2, OperandTypes, TextAssumption
<1> QED
  BY <1>1, <1>2, <1>3

\* At most as many operands as an AssemblyInstruction holds.
FewOperands(operands) ==
  operands \in Seq(Operands) /\ Len(operands) <= MAX_OPERANDS

(* So are the operands of a line. *)
LEMMA NoOperands == FewOperands(<<>>)
  BY DEF FewOperands, MAX_OPERANDS

LEMMA PlainOperandsType ==
  ASSUME AnyLabel, NEW region \in Tokens
  PROVE  FewOperands(PlainOperands(region))
<1>1. CASE region = <<>>
  <2>1. PlainOperands(region) = <<>>
    BY <1>1 DEF PlainOperands
  <2> QED
    BY <2>1, NoOperands
<1>2. CASE region # <<>>
  <2> DEFINE pieces == Split(region)
             k == Min({MAX_OPERANDS, Len(pieces)})
  <2>1. pieces \in Seq(Tokens)
    BY SplitType
  <2>2. PlainOperands(region) = [n \in 1 .. k |-> BuildOperand(pieces[n])]
    BY <1>2 DEF PlainOperands
  <2> HIDE DEF pieces
  <2>3. Len(pieces) \in Nat /\ \A n \in 1 .. Len(pieces) : pieces[n] \in Tokens
    BY <2>1
  <2>4. /\ {MAX_OPERANDS, Len(pieces)} \subseteq Nat
        /\ {MAX_OPERANDS, Len(pieces)} # {}
    BY <2>3 DEF MAX_OPERANDS
  <2>5. k \in Nat /\ k <= MAX_OPERANDS /\ k <= Len(pieces)
    BY <2>4, MinIn
  <2> HIDE DEF k
  <2>6. \A n \in 1 .. k : n \in 1 .. Len(pieces)
    BY <2>3, <2>5
  <2>7. \A n \in 1 .. k : BuildOperand(pieces[n]) \in Operands
    BY <2>3, <2>6, BuildType
  <2>8. /\ [n \in 1 .. k |-> BuildOperand(pieces[n])] \in Seq(Operands)
        /\ Len([n \in 1 .. k |-> BuildOperand(pieces[n])]) = k
    BY <2>5, <2>7
  <2> QED
    BY <2>2, <2>5, <2>8 DEF FewOperands
<1> QED
  BY <1>1, <1>2

(* And the string of a .STRINGZ. *)
LEMMA StringOperandsType ==
  ASSUME NEW region \in Tokens
  PROVE  FewOperands(StringOperands(region))
<1> DEFINE quotes == Places(region, Quote)
           inner == SubSeq(region, Min(quotes) + 1, Max(quotes) - 1)
<1>1. CASE Cardinality(quotes) < 2
  <2>1. StringOperands(region) = <<>>
    BY <1>1 DEF StringOperands
  <2> QED
    BY <2>1, NoOperands
<1>2. CASE ~(Cardinality(quotes) < 2)
  <2>1. quotes \subseteq DOMAIN region
    BY PlacesIn
  <2>2. StringOperands(region) = <<String(Text(inner))>>
    BY <1>2 DEF StringOperands
  <2> HIDE DEF quotes
  <2>3. quotes # {}
    BY <1>2, FS_EmptySet
  <2>4. /\ Len(region) \in Nat /\ quotes \subseteq Nat
        /\ quotes \subseteq 0 .. Len(region)
        /\ \A i \in quotes : i \in Nat /\ 1 <= i /\ i <= Len(region)
    BY <2>1, PlacesType
  <2>5. Min(quotes) \in quotes /\ Max(quotes) \in quotes
    BY <2>3, <2>4, MinIn, MaxIn
  <2>6. /\ Min(quotes) \in Nat /\ 1 <= Min(quotes)
        /\ Max(quotes) \in Nat /\ Max(quotes) <= Len(region)
    BY <2>4, <2>5
  <2>7. /\ Min(quotes) + 1 \in Int /\ Min(quotes) + 1 >= 1
        /\ Max(quotes) - 1 \in Int /\ Max(quotes) - 1 <= Len(region)
    BY <2>4, <2>6
  <2>8. inner \in Tokens
    BY <2>7, PartType
  <2> HIDE DEF inner
  <2>9. String(Text(inner)) \in Operands
    BY <2>8, TextType, OperandTypes
  <2>10. <<String(Text(inner))>> \in Seq(Operands)
         /\ Len(<<String(Text(inner))>>) = 1
    BY <2>9
  <2> QED
    BY <2>2, <2>10 DEF FewOperands, MAX_OPERANDS
<1> HIDE DEF quotes, inner
<1> QED
  BY <1>1, <1>2

-----------------------------------------------------------------------------
(* The parsed line. *)

(* A name is a string, and its conditions are among the three. *)
LEMMA NamesType ==
  /\ OperationNames \subseteq STRING
  /\ \A name \in DOMAIN Branches : Branches[name] \in SUBSET {"N", "Z", "P"}
<1>1. OperationNames \subseteq STRING
  BY ListingAssumption, TextAssumption DEF ListingSpellings
<1>2. ASSUME NEW name \in DOMAIN Branches
      PROVE  Branches[name] \in SUBSET {"N", "Z", "P"}
  <2> DEFINE Known == {{}, {"N"}, {"Z"}, {"P"}, {"N", "Z"}, {"N", "P"},
                       {"Z", "P"}, {"N", "Z", "P"}}
  <2>1. Branches[name] \in Known
    BY DEF Branches
  <2>2. Known \subseteq SUBSET {"N", "Z", "P"}
    OBVIOUS
  <2> QED
    BY <2>1, <2>2
<1> QED
  BY <1>1, <1>2

LEMMA OperationType ==
  ASSUME NEW token
  PROVE  Operation(token) \in STRING /\ Conditions(token) \in SUBSET {"N", "Z", "P"}
<1> DEFINE name == Upper(token[1]).text
<1>1. NULL \in STRING /\ UnknownName \in STRING /\ "BR" \in STRING
  <2>1. "BR" \in OperationNames
    BY DEF OperationNames, Opcodes
  <2> QED
    BY <2>1, NamesType, NamesAssumption
<1>2. IsOperationName(token) => name \in OperationNames
  BY DEF IsOperationName
<1>3. Conditions(token) = IF IsOperationName(token) /\ name \in DOMAIN Branches
                          THEN Branches[name] ELSE {}
  BY DEF Conditions
<1>4. CASE token = <<>>
  <2>1. Operation(token) = NULL
    BY <1>4 DEF Operation
  <2> QED
    BY <1>1, <1>3, <2>1, NamesType
<1>5. CASE token # <<>> /\ ~IsOperationName(token)
  <2>1. Operation(token) = UnknownName
    BY <1>5 DEF Operation
  <2> QED
    BY <1>1, <1>3, <2>1, NamesType
<1>6. CASE token # <<>> /\ IsOperationName(token)
  <2>1. Operation(token) = IF name \in DOMAIN Branches THEN "BR" ELSE name
    BY <1>6 DEF Operation
  <2> HIDE DEF name
  <2> QED
    BY <1>1, <1>2, <1>3, <1>6, <2>1, NamesType
<1> QED
  BY <1>4, <1>5, <1>6

\* What the assembler takes for a line.
ReadableLine(line) == line \in Lines /\ FewOperands(line.operands)

(* Whatever the line, what is parsed of it is one. *)
LEMMA ParseType ==
  ASSUME AnyLabel, NEW line \in Tokens
  PROVE  ReadableLine(Parse(line))
<1> DEFINE body == Trim(Uncommented(line))
           first == FirstToken(body)
           labelled == ~IsOperationName(first)
           name == IF labelled THEN FirstToken(Behind(body)) ELSE first
           region == IF labelled THEN Behind(Behind(body)) ELSE Behind(body)
           label == IF labelled THEN first ELSE NoLabel
           operands == IF Operation(name) = ".STRINGZ" THEN StringOperands(region)
                       ELSE PlainOperands(region)
<1>1. body \in Tokens
  BY CutTypes, TrimType
<1>2. first \in Tokens /\ Behind(body) \in Tokens /\ Behind(Behind(body)) \in Tokens
  BY <1>1, CutTypes, BehindType
<1>3. label \in Labels \cup {NoLabel} /\ region \in Tokens
  BY <1>2 DEF AnyLabel
<1>4. Parse(line) = [label |-> label, operation |-> Operation(name),
                     conditions |-> Conditions(name), operands |-> operands]
  BY DEF Parse
<1> HIDE DEF body, first, labelled, name, region, label
<1>5. FewOperands(operands)
  <2>1. FewOperands(PlainOperands(region))
    BY <1>3, PlainOperandsType
  <2>2. FewOperands(StringOperands(region))
    BY <1>3, StringOperandsType
  <2> QED
    BY <2>1, <2>2
<1>6. Operation(name) \in STRING /\ Conditions(name) \in SUBSET {"N", "Z", "P"}
  BY OperationType
<1> HIDE DEF operands
<1> QED
  BY <1>3, <1>4, <1>5, <1>6 DEF ReadableLine, FewOperands, Lines

-----------------------------------------------------------------------------
(* Every file that main reads. *)

(* What fgets returns of a text is one, and so is what it leaves. *)
LEMMA ChunkType ==
  ASSUME NEW line \in Tokens
  PROVE  Chunk(line) \in Tokens /\ Rest(line) \in Tokens
<1> DEFINE fits == {n \in 0 .. Len(line) : Width(SubSeq(line, 1, n)) < LINE_SIZE}
<1>1. Len(line) \in Nat
  BY DEF Tokens
<1>2. SubSeq(line, 1, 0) = <<>>
  BY DEF Tokens
<1>3. Width(<<>>) < LINE_SIZE
  <2>1. <<>> \in Seq(Tidy) /\ Len(<<>>) = 0
    OBVIOUS
  <2>2. Width(<<>>) \in Nat /\ Width(<<>>) <= 13 * 0
    BY <2>1, TidyLineWidth
  <2> QED
    BY <2>2 DEF LINE_SIZE
<1>4. 0 \in fits
  <2>1. Width(SubSeq(line, 1, 0)) < LINE_SIZE
    BY <1>2, <1>3, Zenon
  <2>2. 0 \in 0 .. Len(line)
    BY <1>1
  <2> QED
    BY <2>1, <2>2, Zenon
<1>5. fits \subseteq 0 .. Len(line) /\ fits # {}
  BY <1>4
<1>6. ChunkLength(line) = Max(fits)
  BY DEF ChunkLength
<1> HIDE DEF fits
<1>7. Max(fits) \in fits
  BY <1>1, <1>5, MaxIn
<1>8. ChunkLength(line) \in 0 .. Len(line)
  BY <1>5, <1>6, <1>7
<1>9. /\ ChunkLength(line) \in Int /\ ChunkLength(line) <= Len(line)
      /\ ChunkLength(line) + 1 \in Int /\ ChunkLength(line) + 1 >= 1
      /\ Len(line) \in Int /\ Len(line) <= Len(line)
  BY <1>1, <1>8
<1> QED
  BY <1>9, PartType DEF Chunk, Rest

(* A listing is made of texts. *)
LEMMA TidyTexts ==
  ASSUME NEW s \in Seq(Seq(Tidy)) PROVE s \in Seq(Tokens)
<1>1. Tidy \subseteq Lexemes
  BY TidySpelled
<1>2. Seq(Tidy) \subseteq Tokens
  BY <1>1 DEF Tokens
<1> DEFINE T == Seq(Tidy)
<1> HIDE DEF T
<1>3. s \in Seq(T) /\ T \subseteq Tokens
  BY <1>2 DEF T
<1> QED
  BY <1>3

\* The invariant.
TypedInv == ListingSide /\ ParsedTypeOK

(* It holds at the start, for a manuscript too. *)
LEMMA TypedInvInit == ToolchainInit => TypedInv
<1> SUFFICES ASSUME ToolchainInit PROVE TypedInv
  OBVIOUS
<1>1. ListingSide
  BY ToolchainInvInit DEF ToolchainInv
<1>2. source = <<>> /\ parsed = <<>>
  BY DEF ToolchainInit
<1>3. listing \in Seq(Tokens)
  <2>1. CASE DisassemblerInit
    BY <2>1 DEF DisassemblerInit
  <2>2. ASSUME NEW manuscript \in Manuscripts, Written(manuscript)
        PROVE  listing \in Seq(Tokens)
    BY <2>2, ManuscriptsAssumption DEF Written
  <2> QED
    BY <2>1, <2>2 DEF ToolchainInit
<1> QED
  BY <1>1, <1>2, <1>3 DEF TypedInv, ParsedTypeOK

(* The disassembler leaves a listing or none. *)
LEMMA TypedDisassemble ==
  ASSUME TypedInv, Disassemble PROVE TypedInv'
<1>1. DisassemblerNext /\ UNCHANGED <<source, parsed>>
  BY DEF Disassemble, driverVars
<1>2. ListingSide'
  BY <1>1, ListingSideNext DEF TypedInv
<1>3. listing' \in Seq(Tokens)
  <2>1. CASE Render
    <3>1. result' = "0"
      BY <2>1 DEF Render, Finish
    <3>2. Listed'
      BY <1>2, <3>1 DEF ListingSide
    <3> QED
      BY <3>2, TidyTexts DEF Listed
  <2>2. CASE ~Render
    <3>1. listing' = listing
      BY <1>1, <2>2 DEF DisassemblerNext, DisassemblerUsage, ObjectMissing,
         ObjectTooShort, ObjectEmpty, ReadObject, DecodeWord, EndDecode, SkipLine,
         LabelTarget, DemoteLine, EndLabel, OpenListingFails
    <3> QED
      BY <3>1 DEF TypedInv, ParsedTypeOK
  <2> QED
    BY <2>1, <2>2
<1> QED
  BY <1>1, <1>2, <1>3 DEF TypedInv, ParsedTypeOK

(* A line is read and parsed. *)
LEMMA TypedReadLine ==
  ASSUME AnyLabel, TypedInv, ReadLine PROVE ParsedTypeOK'
<1> DEFINE line == Chunk(Head(source))
           rest == Rest(Head(source))
           before == IF rest = <<>> THEN <<>> ELSE <<rest>>
<1>1. /\ source # <<>> /\ listing' = listing
      /\ parsed' = IF IsBlankLine(line) THEN parsed
                   ELSE Append(parsed, Parse(line))
      /\ source' = before \o Tail(source)
  BY DEF ReadLine, disassemblerVars
<1>2. /\ source \in Seq(Tokens) /\ listing \in Seq(Tokens)
      /\ parsed \in Seq(Lines)
      /\ \A n \in DOMAIN parsed : Len(parsed[n].operands) <= MAX_OPERANDS
  BY DEF TypedInv, ParsedTypeOK
<1>3. Head(source) \in Tokens /\ Tail(source) \in Seq(Tokens)
  BY <1>1, <1>2
<1>4. line \in Tokens /\ rest \in Tokens
  BY <1>3, ChunkType
<1>5. ReadableLine(Parse(line))
  BY <1>4, ParseType
<1> HIDE DEF line, rest
<1>6. source' \in Seq(Tokens)
  <2>1. before \in Seq(Tokens)
    BY <1>4
  <2> HIDE DEF before
  <2> QED
    BY <1>1, <1>3, <2>1
<1>7. /\ parsed' \in Seq(Lines)
      /\ \A n \in DOMAIN parsed' : Len(parsed'[n].operands) <= MAX_OPERANDS
  <2>1. CASE IsBlankLine(line)
    BY <1>1, <1>2, <2>1
  <2>2. CASE ~IsBlankLine(line)
    <3>1. PICK p : p = Parse(line)
      OBVIOUS
    <3>2. p \in Lines /\ Len(p.operands) <= MAX_OPERANDS
      BY <1>5, <3>1 DEF ReadableLine, FewOperands
    <3>3. parsed' = Append(parsed, p)
      BY <1>1, <2>2, <3>1
    <3>4. /\ parsed' \in Seq(Lines) /\ DOMAIN parsed' = 1 .. Len(parsed) + 1
          /\ parsed'[Len(parsed) + 1] = p
          /\ \A n \in 1 .. Len(parsed) : parsed'[n] = parsed[n]
      BY <1>2, <3>2, <3>3
    <3> QED
      BY <1>2, <3>2, <3>4
  <2> QED
    BY <2>1, <2>2
<1> QED
  BY <1>1, <1>2, <1>6, <1>7 DEF ParsedTypeOK

(* No step leaves the types. *)
LEMMA TypedInvNext ==
  ASSUME AnyLabel, TypedInv, [ToolchainNext]_toolchainVars
  PROVE  TypedInv'
<1>1. CASE Disassemble
  BY <1>1, TypedDisassemble
<1>2. CASE UNCHANGED disassemblerVars
  <2>1. ListingSide' /\ listing' = listing
    BY <1>2, ListingSideFrame DEF TypedInv
  <2>2. CASE OpenSource
    <3>1. source' = listing /\ parsed' = parsed
      BY <2>2 DEF OpenSource
    <3> QED
      BY <2>1, <3>1 DEF TypedInv, ParsedTypeOK
  <2>3. CASE ReadLine
    BY <2>1, <2>3, TypedReadLine DEF TypedInv
  <2>4. CASE UNCHANGED driverVars
    <3>1. source' = source /\ parsed' = parsed
      BY <2>4 DEF driverVars
    <3> QED
      BY <2>1, <3>1 DEF TypedInv, ParsedTypeOK
  <2>5. OpenSource \/ ReadLine \/ UNCHANGED driverVars \/ Disassemble
    BY DEF ToolchainNext, ToolchainSteps, Assemble, Refuse, RunPasses, toolchainVars
  <2> QED
    BY <1>1, <2>2, <2>3, <2>4, <2>5
<1>3. Disassemble \/ UNCHANGED disassemblerVars
  BY DEF ToolchainNext, ToolchainSteps, OpenSource, ReadLine, Assemble, Refuse,
     RunPasses, toolchainVars
<1> QED
  BY <1>1, <1>2, <1>3

(* ParsedTypeCorrect: whatever is in an assembly file, fgets and
   parse_assembly_line (assembler/assembler.c) make of it nothing but the lines
   that the assembler is modelled on, with three operands at most, if every
   text may be a label. *)
THEOREM ParsedTypeCorrect ==
  ASSUME Tokens \subseteq Labels PROVE ToolchainSpec => []ParsedTypeOK
<1>1. AnyLabel
  BY DEF AnyLabel
<1>2. TypedInv /\ [ToolchainNext]_toolchainVars => TypedInv'
  BY <1>1, TypedInvNext
<1>3. TypedInv => ParsedTypeOK
  BY DEF TypedInv
<1> QED
  BY <1>2, <1>3, TypedInvInit, PTL DEF ToolchainSpec

-----------------------------------------------------------------------------
(* Every word at every address, by itself. *)

TrialTyped == trial \in Word /\ site \in Word

(* The enumeration stays within the words. *)
LEMMA TrialTypeCorrect == TrialSpec => []TrialTyped
<1>1. TrialInit => TrialTyped
  BY AddressesAssumption, BoundedIsWord DEF TrialInit, TrialTyped
<1>2. TrialTyped /\ [TrialNext]_trialVars => TrialTyped'
  <2> SUFFICES ASSUME TrialTyped, [TrialNext]_trialVars PROVE TrialTyped'
    OBVIOUS
  <2>1. CASE TrialNext
    <3>1. /\ trial \in Int /\ 0 <= trial
          /\ WORD_MAX \in Int /\ 65535 < WORD_MAX /\ WORD_MAX < 65537
      BY WordBounds, WordMax DEF TrialTyped
    <3>2. trial + 1 \in Int /\ 0 <= trial + 1 /\ trial + 1 <= 65535
      BY <2>1, <3>1 DEF TrialNext
    <3>3. trial + 1 \in Word
      BY <3>2, BoundedIsWord
    <3> QED
      BY <2>1, <3>3 DEF TrialNext, TrialTyped
  <2>2. CASE UNCHANGED trialVars
    BY <2>2 DEF trialVars, TrialTyped
  <2> QED
    BY <2>1, <2>2
<1> QED
  BY <1>1, <1>2, PTL DEF TrialSpec

(* sign_extend (core/util.c) recovers the two's-complement value of each of
   the four field widths, for every word. *)
THEOREM EveryFieldIsExtended == TrialSpec => []SignExtendIsTwosComplement
<1>1. TrialTyped => SignExtendIsTwosComplement
  BY SignExtendValue DEF TrialTyped, SignExtendIsTwosComplement
<1> QED
  BY <1>1, TrialTypeCorrect, PTL

(* A table of one symbol has it. *)
LEMMA OneSymbol ==
  ASSUME NEW name, NEW value, NEW entry, entry = [label |-> name, address |-> value]
  PROVE  Resolves(<<entry>>, name, value)
<1>1. entry.label = name /\ entry.address = value
  OBVIOUS
<1>2. <<entry>> # <<>> /\ DOMAIN <<entry>> = {1} /\ <<entry>>[1] = entry
  OBVIOUS
<1> DEFINE symbols == <<entry>>
<1>3. Rows(symbols, name) = {1}
  <2>1. DOMAIN symbols = {1} /\ symbols[1].label = name
    BY <1>1, <1>2
  <2> HIDE DEF symbols
  <2>2. {i \in DOMAIN symbols : symbols[i].label = name} = {1}
    BY <2>1
  <2> QED
    BY <2>2 DEF Rows
<1>4. AddressOf(symbols, name) = value
  <2>1. symbols[1].address = value
    BY <1>1, <1>2
  <2> HIDE DEF symbols
  <2>2. (CHOOSE i \in {1} : \A j \in {1} : i <= j) = 1
    OBVIOUS
  <2>3. (CHOOSE i \in Rows(symbols, name) : \A j \in Rows(symbols, name) : i <= j) = 1
    BY <1>3, <2>2
  <2> QED
    BY <2>1, <2>3 DEF AddressOf
<1> QED
  BY <1>2, <1>3, <1>4 DEF Resolves, symbols

(* What the listing line of one word is assembled as. *)
LEMMA WordComesBack ==
  ASSUME NEW word \in Word, NEW spot \in Word, NEW d,
         d = Decode(Undecoded(word, spot)),
         NEW symbols, Resolves(symbols, Mint(d.target), d.target),
         NEW offset, offset = (IF d.operation = "JSR" THEN SignedField(word, 2048)
                               ELSE SignedField(word, 512))
  PROVE  MachineCodes(Parse(ListingLine(PutReference(d, Mint(d.target)))),
                      symbols, spot)
           = IF d.has_target /\ d.target # d.address + 1 + offset
             THEN <<Error>> ELSE <<word>>
<1> DEFINE line == PutReference(d, Mint(d.target))
<1>1. Opened(d, word, spot) /\ WellDecoded(d)
  BY FreshOpened, WellFresh
<1>2. /\ IsLine(d) /\ d.address = spot /\ d.label = NoLabel
      /\ d.has_target => d.target \in Word
  BY <1>1 DEF Opened
<1>3. Same(line, d) /\ line.reference_label = Mint(d.target) /\ line.label = NoLabel
  BY <1>2, ReferencePut
<1> HIDE DEF line
<1>4. Shows(line, d)
  BY <1>3 DEF Shows, Same
<1>5. Parse(ListingLine(line)) = Reread(line)
  BY <1>1, <1>2, <1>3, <1>4, ShowsPrintable, ListingLegible
<1>6. TargetKnown(d, spot, symbols) => MachineCodes(Reread(line), symbols, spot) = <<word>>
  BY <1>4, WordsReassemble
<1>7. CASE d.has_target
  <2>1. PICK code \in Nat, a \in Nat, span \in {512, 2048} :
          Returns(line, d, word, spot, symbols, code, a, span)
    BY <1>4, <1>7, TargetReturns
  <2>2. offset = SignedField(word, span)
    BY <2>1 DEF Returns
  <2>3. CASE d.target = d.address + 1 + offset
    <3>1. offset \in Int /\ -1024 <= offset /\ offset <= 1023 /\ spot \in Int
      BY <2>2, SignedFieldBounds, WordBounds
    <3>2. Reaches(spot, d.target)
      BY <1>2, <2>3, <3>1 DEF Reaches
    <3> QED
      BY <1>5, <1>6, <2>3, <3>2 DEF TargetKnown, line
  <2>4. CASE d.target # d.address + 1 + offset
    <3>1. code \in Int /\ 0 <= code /\ a \in Int /\ 0 <= a
      OBVIOUS
    <3>2. d.target # spot + 1 + SignedField(word, span)
      BY <1>2, <2>2, <2>4
    <3>3. MachineCodes(Reread(line), symbols, spot) = <<Error>>
      BY <2>1, <3>1, <3>2, ReturnsError
    <3> QED
      BY <1>5, <1>7, <2>4, <3>3 DEF line
  <2> QED
    BY <2>3, <2>4
<1>8. CASE ~d.has_target
  BY <1>5, <1>6, <1>8 DEF TargetKnown, line
<1> QED
  BY <1>7, <1>8

(* The decoders (disassembler/operation.c) and the encoders
   (assembler/operation.c) are inverse on every word at every address, with
   the text of the listing in between; except that the assembler refuses a
   label on the other side of the end of memory. *)
THEOREM EveryWordComesBack == TrialSpec => []WordRoundTrip
<1>1. TrialTyped => WordRoundTrip
  <2> SUFFICES ASSUME TrialTyped PROVE WordRoundTrip
    OBVIOUS
  <2> DEFINE d == Decode(Undecoded(trial, site))
             label == Mint(d.target)
             symbols == <<[label |-> label, address |-> d.target]>>
             offset == IF d.operation = "JSR" THEN SignedField(trial, 2048)
                       ELSE SignedField(trial, 512)
  <2>1. Resolves(symbols, label, d.target)
    BY OneSymbol
  <2>2. MachineCodes(Parse(ListingLine(PutReference(d, label))), symbols, site)
          = IF d.has_target /\ d.target # d.address + 1 + offset
            THEN <<Error>> ELSE <<trial>>
    <3> HIDE DEF symbols
    <3> QED
      BY <2>1, WordComesBack DEF TrialTyped
  <2>3. Wraps(d) <=> d.has_target /\ d.target # d.address + 1 + offset
    BY DEF Wraps, SignedField, PcOffset9, PcOffset11
  <2> QED
    BY <2>2, <2>3 DEF WordRoundTrip, PutReference
<1> QED
  BY <1>1, TrialTypeCorrect, PTL
===============================================================================
