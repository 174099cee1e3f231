--------------------------- MODULE LC3WordsProofs ---------------------------
(***************************************************************************)
(* What the other proofs rest on: lemmas about the word operators, for     *)
(* every word, cited by name so that no division or remainder appears      *)
(* there; induction over the natural numbers; and the recursive function   *)
(* that flattens a sequence of sequences.                                  *)
(*                                                                         *)
(* WORD_MAX is bounded by WordMax and not expanded next to Word: the SMT   *)
(* backend writes an interval with literal ends out element by element.    *)
(***************************************************************************)
EXTENDS LC3Words, SequencesExt, WellFoundedInduction, TLAPS

(* The size of the word space, as the bounds the other lemmas use. *)
LEMMA WordMax == WORD_MAX \in Int /\ 65535 < WORD_MAX /\ WORD_MAX < 65537
  BY DEF WORD_MAX

(* A word is an integer a uint16_t can hold. *)
LEMMA WordBounds ==
  ASSUME NEW x \in Word PROVE x \in Int /\ 0 <= x /\ x <= 65535
  BY WordMax DEF Word

(* An integer a uint16_t can hold is a word. *)
LEMMA BoundedIsWord ==
  ASSUME NEW x \in Int, 0 <= x, x <= 65535 PROVE x \in Word
  BY WordMax DEF Word

(* Storing any int in a uint16_t yields a word. *)
LEMMA WrapType == ASSUME NEW x \in Int PROVE Wrap(x) \in Word
<1>1. x % 65536 \in Int /\ 0 <= x % 65536 /\ x % 65536 <= 65535
  OBVIOUS
<1>2. Wrap(x) = x % 65536
  BY DEF Wrap, WORD_MAX
<1> QED
  BY <1>1, <1>2, BoundedIsWord

(* A word is stored as it is. *)
LEMMA WrapWord == ASSUME NEW w \in Word PROVE Wrap(w) = w /\ Wrap(w + 0) = w
<1>1. w \in Int /\ 0 <= w /\ w <= 65535 /\ w + 0 = w
  BY WordBounds
<1> QED
  BY <1>1 DEF Wrap, WORD_MAX

(* Decoding (lc_3.c, operation.c): the opcode indexes a table of 16
   entries, a register field one of the 8 general registers. *)
LEMMA FieldTypes ==
  ASSUME NEW i \in Word
  PROVE  /\ Opcode(i) \in 0..15
         /\ FieldDR(i) \in 0..7
         /\ FieldSR1(i) \in 0..7
         /\ FieldSR2(i) \in 0..7
<1>1. i \in Int /\ 0 <= i /\ i <= 65535
  BY WordBounds
<1>2. i \div 4096 \in 0..15 /\ i \div 512 \in Int /\ i \div 64 \in Int
  BY <1>1, SMT
<1>3. ASSUME NEW n \in Int PROVE n % 8 \in 0..7
  OBVIOUS
<1> QED
  BY <1>1, <1>2, <1>3 DEF Opcode, FieldDR, FieldSR1, FieldSR2

(* sign_extend of a masked field is a word, for the four field widths. *)
LEMMA SignExtendType ==
  ASSUME NEW i \in Word
  PROVE  /\ Imm5(i) \in Word
         /\ Offset6(i) \in Word
         /\ PcOffset9(i) \in Word
         /\ PcOffset11(i) \in Word
<1>1. i \in Int
  BY WordBounds
<1>2. ASSUME NEW f \in Int, 0 <= f, NEW span \in {32, 64, 512, 2048}, f < span
      PROVE  SignExtend(f, span) \in Word
  <2>1. f % span = f /\ span <= 2048 /\ span \in Int
    BY <1>2
  <2>2. f + (65536 - span) \in Word /\ f \in Word
    BY <1>2, <2>1, BoundedIsWord
  <2> QED
    BY <2>1, <2>2 DEF SignExtend, WORD_MAX
<1>3. /\ i % 32 \in Int /\ 0 <= i % 32 /\ i % 32 < 32
      /\ i % 64 \in Int /\ 0 <= i % 64 /\ i % 64 < 64
      /\ i % 512 \in Int /\ 0 <= i % 512 /\ i % 512 < 512
      /\ i % 2048 \in Int /\ 0 <= i % 2048 /\ i % 2048 < 2048
  BY <1>1
<1>4. Imm5(i) \in Word
  BY <1>2, <1>3 DEF Imm5
<1>5. Offset6(i) \in Word
  BY <1>2, <1>3 DEF Offset6
<1>6. PcOffset9(i) \in Word
  BY <1>2, <1>3 DEF PcOffset9
<1>7. PcOffset11(i) \in Word
  BY <1>2, <1>3 DEF PcOffset11
<1> QED
  BY <1>4, <1>5, <1>6, <1>7

(* sign_extend recovers the signed value of the field, for the widths of
   imm5, offset6, PCoffset9 and PCoffset11 and for every instruction. *)
THEOREM SignExtendValue ==
  ASSUME NEW x \in Word, NEW span \in {32, 64, 512, 2048}
  PROVE  LET field == x % span IN
           Signed(SignExtend(field, span))
             = IF field < span \div 2 THEN field ELSE field - span
<1> DEFINE f == x % span
           h == span \div 2
<1>1. x \in Int /\ span \in Int /\ span > 0
  BY WordBounds
<1>2. f \in Int /\ 0 <= f /\ f < span
  BY <1>1
<1>3. h \in Int /\ h > 0 /\ span = 2 * h /\ span <= 2048
  OBVIOUS
<1> HIDE DEF f, h
<1>4. f % span = f
  BY <1>1, <1>2
<1>5. (f \div h) % 2 = 1 <=> f >= h
  <2>1. CASE f < h
    <3>1. f \div h = 0
      BY <1>2, <1>3, <2>1
    <3> QED
      BY <3>1, <2>1, <1>2, <1>3
  <2>2. CASE f >= h
    <3>1. f \div h = 1
      BY <1>2, <1>3, <2>2
    <3> QED
      BY <3>1, <2>2, <1>2, <1>3
  <2> QED
    BY <2>1, <2>2, <1>2, <1>3
<1>6. Signed(SignExtend(f, span)) = IF f < h THEN f ELSE f - span
  BY <1>1, <1>2, <1>3, <1>4, <1>5 DEF SignExtend, Signed, WORD_MAX, h
<1> QED
  BY <1>6 DEF f, h

(* Adding a sign-extended field to a word and storing the sum in a uint16_t
   is signed arithmetic modulo 2^16: how every address is computed. *)
THEOREM OffsetIsSigned ==
  ASSUME NEW base \in Word, NEW x \in Word, NEW span \in {32, 64, 512, 2048}
  PROVE  Wrap(base + SignExtend(x % span, span))
           = (base + (IF x % span < span \div 2 THEN x % span
                      ELSE (x % span) - span)) % WORD_MAX
<1> DEFINE f == x % span
           h == span \div 2
           word == SignExtend(f, span)
           signed == IF f < h THEN f ELSE f - span
<1>1. Signed(word) = signed
  BY SignExtendValue
<1>2. base \in Int /\ signed \in Int /\ x \in Int /\ f \in Int
  BY WordBounds
<1>3. f < span /\ 0 <= f
  BY <1>2
<1>4. word \in Int
  BY <1>2 DEF SignExtend, WORD_MAX
<1> HIDE DEF f, h, word, signed
<1>5. word = signed \/ word = signed + 65536
  BY <1>1, <1>2, <1>4 DEF Signed, WORD_MAX
<1>6. ASSUME NEW a \in Int PROVE (a + 65536) % 65536 = a % 65536
  OBVIOUS
<1>7. (base + word) % 65536 = (base + signed) % 65536
  BY <1>2, <1>4, <1>5, <1>6
<1> QED
  BY <1>7 DEF Wrap, WORD_MAX, f, h, word, signed

(* The one-bit and is a bit. *)
LEMMA And1Type == ASSUME NEW a \in 0..1, NEW b \in 0..1 PROVE And1(a, b) \in 0..1
<1>1. a = 0 \/ a = 1
  OBVIOUS
<1> QED
  BY <1>1 DEF And1

(* Splitting a number of N bits into its two halves. *)
LEMMA Halves ==
  ASSUME NEW x \in Int, 0 <= x
  PROVE  /\ x <= 3 => x \div 2 \in 0..1 /\ x % 2 \in 0..1
         /\ x <= 15 => x \div 4 \in 0..3 /\ x % 4 \in 0..3
         /\ x <= 255 => x \div 16 \in 0..15 /\ x % 16 \in 0..15
         /\ x <= 65535 => x \div 256 \in 0..255 /\ x % 256 \in 0..255
<1>1. x <= 3 => x \div 2 \in 0..1 /\ x % 2 \in 0..1
  OBVIOUS
<1>2. x <= 15 => x \div 4 \in 0..3 /\ x % 4 \in 0..3
  OBVIOUS
<1>3. x <= 255 => x \div 16 \in 0..15 /\ x % 16 \in 0..15
  OBVIOUS
<1>4. x <= 65535 => x \div 256 \in 0..255 /\ x % 256 \in 0..255
  OBVIOUS
<1> QED
  BY <1>1, <1>2, <1>3, <1>4

(* The and of two 2-bit numbers has 2 bits. *)
LEMMA And2Type ==
  ASSUME NEW x \in 0..3, NEW y \in 0..3 PROVE And2(x, y) \in 0..3
<1>1. And1(x % 2, y % 2) \in 0..1 /\ And1(x \div 2, y \div 2) \in 0..1
  BY Halves, And1Type
<1> QED
  BY <1>1 DEF And2

(* The and of two 4-bit numbers has 4 bits. *)
LEMMA And4Type ==
  ASSUME NEW x \in 0..15, NEW y \in 0..15 PROVE And4(x, y) \in 0..15
<1>1. And2(x % 4, y % 4) \in 0..3 /\ And2(x \div 4, y \div 4) \in 0..3
  BY Halves, And2Type
<1> QED
  BY <1>1 DEF And4

(* The and of two bytes is a byte. *)
LEMMA And8Type ==
  ASSUME NEW x \in 0..255, NEW y \in 0..255 PROVE And8(x, y) \in 0..255
<1>1. /\ And4(x % 16, y % 16) \in 0..15
      /\ And4(x \div 16, y \div 16) \in 0..15
  BY Halves, And4Type
<1> QED
  BY <1>1 DEF And8

(* x & y of two words is a word: operation_and stores no wider value. *)
LEMMA BitAndType ==
  ASSUME NEW x \in Word, NEW y \in Word PROVE BitAnd(x, y) \in Word
<1> DEFINE lo == And8(x % 256, y % 256)
           hi == And8(x \div 256, y \div 256)
<1>1. /\ x % 256 \in 0..255 /\ x \div 256 \in 0..255
      /\ y % 256 \in 0..255 /\ y \div 256 \in 0..255
  BY Halves, WordBounds
<1>2. lo \in 0..255 /\ hi \in 0..255
  BY <1>1, And8Type
<1>3. BitAnd(x, y) = lo + 256 * hi
  BY DEF BitAnd
<1> HIDE DEF lo, hi
<1>4. lo + 256 * hi \in Word
  BY <1>2, BoundedIsWord
<1> QED
  BY <1>3, <1>4

(* The and of two N-bit numbers keeps at most the bits of the first, and
   loses at most the bits one of them lacks. *)
LEMMA And8Bounds ==
  ASSUME NEW x \in 0..255, NEW y \in 0..255
  PROVE  And8(x, y) <= x /\ And8(x, y) >= x + y - 255
<1>1. ASSUME NEW a \in 0..1, NEW b \in 0..1
      PROVE  And1(a, b) \in Int /\ And1(a, b) <= a /\ And1(a, b) >= a + b - 1
  <2>1. (a = 0 \/ a = 1) /\ (b = 0 \/ b = 1)
    OBVIOUS
  <2> QED
    BY <2>1 DEF And1
<1>2. ASSUME NEW a \in 0..3, NEW b \in 0..3
      PROVE  And2(a, b) \in Int /\ And2(a, b) <= a /\ And2(a, b) >= a + b - 3
  <2>1. /\ a % 2 \in 0..1 /\ a \div 2 \in 0..1 /\ a = (a % 2) + 2 * (a \div 2)
        /\ b % 2 \in 0..1 /\ b \div 2 \in 0..1 /\ b = (b % 2) + 2 * (b \div 2)
    OBVIOUS
  <2> QED
    BY <2>1, <1>1 DEF And2
<1>3. ASSUME NEW a \in 0..15, NEW b \in 0..15
      PROVE  And4(a, b) \in Int /\ And4(a, b) <= a /\ And4(a, b) >= a + b - 15
  <2>1. /\ a % 4 \in 0..3 /\ a \div 4 \in 0..3 /\ a = (a % 4) + 4 * (a \div 4)
        /\ b % 4 \in 0..3 /\ b \div 4 \in 0..3 /\ b = (b % 4) + 4 * (b \div 4)
    OBVIOUS
  <2> QED
    BY <2>1, <1>2 DEF And4
<1>4. /\ x % 16 \in 0..15 /\ x \div 16 \in 0..15 /\ x = (x % 16) + 16 * (x \div 16)
      /\ y % 16 \in 0..15 /\ y \div 16 \in 0..15 /\ y = (y % 16) + 16 * (y \div 16)
  OBVIOUS
<1> DEFINE lo == And4(x % 16, y % 16)
           hi == And4(x \div 16, y \div 16)
<1>5. /\ lo \in Int /\ lo <= x % 16 /\ lo >= (x % 16) + (y % 16) - 15
      /\ hi \in Int /\ hi <= x \div 16 /\ hi >= x \div 16 + y \div 16 - 15
  BY <1>3, <1>4
<1>6. And8(x, y) = lo + 16 * hi
  BY DEF And8
<1>7. x \in Int /\ y \in Int
  OBVIOUS
<1> HIDE DEF lo, hi
<1> QED
  BY <1>4, <1>5, <1>6, <1>7

(* x | y of two words is a word: no encoder of the assembler widens one. *)
LEMMA BitOrType ==
  ASSUME NEW x \in Word, NEW y \in Word PROVE BitOr(x, y) \in Word
<1> DEFINE a == x % 256
           b == x \div 256
           c == y % 256
           d == y \div 256
           lo == And8(a, c)
           hi == And8(b, d)
<1>1. a \in 0..255 /\ b \in 0..255 /\ c \in 0..255 /\ d \in 0..255
  BY Halves, WordBounds
<1>2. x = a + 256 * b /\ y = c + 256 * d
  BY WordBounds
<1>3. BitAnd(x, y) = lo + 256 * hi
  BY DEF BitAnd
<1> HIDE DEF a, b, c, d
<1>4. /\ lo \in Int /\ 0 <= lo /\ lo <= a /\ lo >= a + c - 255
      /\ hi \in Int /\ 0 <= hi /\ hi <= b /\ hi >= b + d - 255
  <2>1. lo \in 0..255 /\ hi \in 0..255
    BY <1>1, And8Type
  <2>2. lo <= a /\ lo >= a + c - 255
    BY <1>1, And8Bounds
  <2>3. hi <= b /\ hi >= b + d - 255
    BY <1>1, And8Bounds
  <2> HIDE DEF lo, hi
  <2>4. lo \in Int /\ 0 <= lo /\ hi \in Int /\ 0 <= hi
    BY <2>1
  <2> QED
    BY <2>2, <2>3, <2>4
<1> HIDE DEF lo, hi
<1>5. x + y - (lo + 256 * hi) \in Word
  BY <1>1, <1>2, <1>4, BoundedIsWord
<1> QED
  BY <1>3, <1>5 DEF BitOr

(* ~x, truncated to 16 bits, is a word: operation_not stores no wider
   value. *)
LEMMA BitNotType == ASSUME NEW x \in Word PROVE BitNot(x) \in Word
  BY WordMax DEF BitNot, Word

(* swap16 exchanges the two bytes of a word. *)
LEMMA Swap16Parts ==
  ASSUME NEW x \in Word
  PROVE  /\ Swap16(x) \in Word
         /\ Swap16(x) % 256 = x \div 256
         /\ Swap16(x) \div 256 = x % 256
<1> DEFINE hi == x \div 256
           lo == x % 256
<1>1. x \div 256 \in 0..255 /\ x % 256 \in 0..255
  BY Halves, WordBounds
<1>2. Swap16(x) = lo * 256 + hi
  BY DEF Swap16
<1>3. hi \in 0..255 /\ lo \in 0..255
  BY <1>1
<1> HIDE DEF hi, lo
<1>4. lo * 256 + hi \in Word
  BY <1>3, BoundedIsWord
<1>5. (lo * 256 + hi) % 256 = hi /\ (lo * 256 + hi) \div 256 = lo
  BY <1>3
<1> QED
  BY <1>2, <1>4, <1>5 DEF hi, lo

(* swap16 undoes itself on every word, so the assembler's big-endian
   output is what the loader reconstructs. *)
THEOREM Swap16Involution == \A x \in Word : Swap16(Swap16(x)) = x
<1> SUFFICES ASSUME NEW x \in Word PROVE Swap16(Swap16(x)) = x
  OBVIOUS
<1>1. Swap16(Swap16(x)) = (Swap16(x) % 256) * 256 + (Swap16(x) \div 256)
  BY DEF Swap16
<1>2. @ = (x \div 256) * 256 + (x % 256)
  BY Swap16Parts
<1>3. @ = x
  BY WordBounds
<1> QED
  BY <1>1, <1>2, <1>3

(* update_register_condition_flags picks exactly one of the three flags,
   whatever was written. *)
LEMMA ConditionFlagType ==
  ASSUME NEW x \in Word PROVE ConditionFlag(x) \in ConditionFlags
  BY DEF ConditionFlag, ConditionFlags

(* Every condition flag fits the status register. *)
LEMMA ConditionFlagsAreWords == ConditionFlags \subseteq Word
  BY BoundedIsWord DEF ConditionFlags, CONDITION_FLAG_NEGATIVE,
                       CONDITION_FLAG_ZERO, CONDITION_FLAG_POSITIVE

(* The flag chosen for a value is the sign of its two's-complement reading. *)
THEOREM FlagIsSignOfWord ==
  ASSUME NEW x \in Word
  PROVE  /\ ConditionFlag(x) = CONDITION_FLAG_NEGATIVE <=> Signed(x) < 0
         /\ ConditionFlag(x) = CONDITION_FLAG_ZERO <=> Signed(x) = 0
<1>1. x \in Int /\ 0 <= x /\ x <= 65535
  BY WordBounds
<1>2. x \div 32768 # 0 <=> x >= 32768
  BY <1>1
<1> QED
  BY <1>1, <1>2 DEF ConditionFlag, Signed, WORD_MAX, CONDITION_FLAG_NEGATIVE,
                    CONDITION_FLAG_ZERO, CONDITION_FLAG_POSITIVE
-----------------------------------------------------------------------------
(* The bits of x & y.                                                      *)

\* Of these weights.
AndBits(z, x, y, weights) ==
  \A w \in weights : Bit(z, w) = Bit(x, w) * Bit(y, w)

(* The bits of a number are those of its two halves.                       *)
LEMMA Bits4 ==
  ASSUME NEW l \in 0 .. 3, NEW h \in 0 .. 3, NEW x, x = l + 4 * h
  PROVE  /\ x % 4 = l /\ x \div 4 = h
         /\ Bit(x, 1) = Bit(l, 1) /\ Bit(x, 2) = Bit(l, 2)
         /\ Bit(x, 4) = Bit(h, 1) /\ Bit(x, 8) = Bit(h, 2)
  BY DEF Bit

LEMMA Bits8 ==
  ASSUME NEW l \in 0 .. 15, NEW h \in 0 .. 15, NEW x, x = l + 16 * h
  PROVE  /\ x % 16 = l /\ x \div 16 = h
         /\ Bit(x, 1) = Bit(l, 1) /\ Bit(x, 2) = Bit(l, 2)
         /\ Bit(x, 4) = Bit(l, 4) /\ Bit(x, 8) = Bit(l, 8)
         /\ Bit(x, 16) = Bit(h, 1) /\ Bit(x, 32) = Bit(h, 2)
         /\ Bit(x, 64) = Bit(h, 4) /\ Bit(x, 128) = Bit(h, 8)
  BY DEF Bit

\* The bits of a word are those of its two bytes.
LowByteBits(x, l) ==
  /\ Bit(x, 1) = Bit(l, 1) /\ Bit(x, 2) = Bit(l, 2)
  /\ Bit(x, 4) = Bit(l, 4) /\ Bit(x, 8) = Bit(l, 8)
  /\ Bit(x, 16) = Bit(l, 16) /\ Bit(x, 32) = Bit(l, 32)
  /\ Bit(x, 64) = Bit(l, 64) /\ Bit(x, 128) = Bit(l, 128)
HighByteBits(x, h) ==
  /\ Bit(x, 256) = Bit(h, 1) /\ Bit(x, 512) = Bit(h, 2)
  /\ Bit(x, 1024) = Bit(h, 4) /\ Bit(x, 2048) = Bit(h, 8)
  /\ Bit(x, 4096) = Bit(h, 16) /\ Bit(x, 8192) = Bit(h, 32)
  /\ Bit(x, 16384) = Bit(h, 64) /\ Bit(x, 32768) = Bit(h, 128)

LEMMA Bits16 ==
  ASSUME NEW l \in Int, 0 <= l, l <= 255, NEW h \in Int, 0 <= h, h <= 255,
         NEW x, x = l + 256 * h
  PROVE  LowByteBits(x, l) /\ HighByteBits(x, h)
<1>1. x \in Int /\ 0 <= x /\ x <= 65535 /\ x % 256 = l /\ x \div 256 = h
  OBVIOUS
<1>2. /\ x \div 2 = (l \div 2) + 128 * h /\ x \div 4 = (l \div 4) + 64 * h
      /\ x \div 8 = (l \div 8) + 32 * h /\ x \div 16 = (l \div 16) + 16 * h
      /\ x \div 32 = (l \div 32) + 8 * h /\ x \div 64 = (l \div 64) + 4 * h
      /\ x \div 128 = (l \div 128) + 2 * h
  OBVIOUS
<1>3. /\ x \div 512 = h \div 2 /\ x \div 1024 = h \div 4
      /\ x \div 2048 = h \div 8 /\ x \div 4096 = h \div 16
      /\ x \div 8192 = h \div 32 /\ x \div 16384 = h \div 64
      /\ x \div 32768 = h \div 128
  OBVIOUS
<1>4. /\ Bit(x, 2) = Bit(l, 2) /\ Bit(x, 4) = Bit(l, 4) /\ Bit(x, 8) = Bit(l, 8)
      /\ Bit(x, 16) = Bit(l, 16) /\ Bit(x, 32) = Bit(l, 32)
      /\ Bit(x, 64) = Bit(l, 64) /\ Bit(x, 128) = Bit(l, 128)
  BY <1>2 DEF Bit
<1>5. Bit(x, 1) = Bit(l, 1) /\ Bit(x, 256) = Bit(h, 1)
  BY <1>1 DEF Bit
<1> QED
  BY <1>1, <1>3, <1>4, <1>5 DEF Bit, LowByteBits, HighByteBits

(* So the and of two halves, bit by bit, is the and.                       *)
LEMMA And2Bits ==
  ASSUME NEW x \in 0 .. 3, NEW y \in 0 .. 3
  PROVE  AndBits(And2(x, y), x, y, {1, 2})
<1>1. x \in {0, 1, 2, 3} /\ y \in {0, 1, 2, 3}
  OBVIOUS
<1> QED
  BY <1>1 DEF AndBits, Bit, And2, And1

LEMMA And4Bits ==
  ASSUME NEW x \in 0 .. 15, NEW y \in 0 .. 15
  PROVE  AndBits(And4(x, y), x, y, {1, 2, 4, 8})
<1> DEFINE a == x % 4  b == x \div 4  c == y % 4  d == y \div 4
           l == And2(a, c)  h == And2(b, d)
<1>1. /\ a \in 0 .. 3 /\ b \in 0 .. 3 /\ c \in 0 .. 3 /\ d \in 0 .. 3
      /\ x = a + 4 * b /\ y = c + 4 * d
  OBVIOUS
<1>2. And4(x, y) = l + 4 * h
  BY DEF And4
<1> HIDE DEF a, b, c, d
<1>3. /\ l \in 0 .. 3 /\ h \in 0 .. 3
      /\ AndBits(l, a, c, {1, 2}) /\ AndBits(h, b, d, {1, 2})
  BY <1>1, And2Type, And2Bits
<1> HIDE DEF l, h
<1>4. /\ Bit(l, 1) = Bit(a, 1) * Bit(c, 1) /\ Bit(l, 2) = Bit(a, 2) * Bit(c, 2)
      /\ Bit(h, 1) = Bit(b, 1) * Bit(d, 1) /\ Bit(h, 2) = Bit(b, 2) * Bit(d, 2)
  BY <1>3 DEF AndBits
<1>5. PICK z : z = And4(x, y)
  OBVIOUS
<1>6. /\ Bit(z, 1) = Bit(l, 1) /\ Bit(z, 2) = Bit(l, 2)
      /\ Bit(z, 4) = Bit(h, 1) /\ Bit(z, 8) = Bit(h, 2)
  BY <1>2, <1>3, <1>5, Bits4
<1>7. /\ Bit(x, 1) = Bit(a, 1) /\ Bit(x, 2) = Bit(a, 2)
      /\ Bit(x, 4) = Bit(b, 1) /\ Bit(x, 8) = Bit(b, 2)
      /\ Bit(y, 1) = Bit(c, 1) /\ Bit(y, 2) = Bit(c, 2)
      /\ Bit(y, 4) = Bit(d, 1) /\ Bit(y, 8) = Bit(d, 2)
  BY <1>1, Bits4
<1>8. AndBits(z, x, y, {1, 2, 4, 8})
  BY <1>4, <1>6, <1>7, Zenon DEF AndBits
<1> QED
  BY <1>5, <1>8

LEMMA And8Bits ==
  ASSUME NEW x \in 0 .. 255, NEW y \in 0 .. 255
  PROVE  AndBits(And8(x, y), x, y, {1, 2, 4, 8, 16, 32, 64, 128})
<1> DEFINE a == x % 16  b == x \div 16  c == y % 16  d == y \div 16
           l == And4(a, c)  h == And4(b, d)
<1>1. /\ a \in 0 .. 15 /\ b \in 0 .. 15 /\ c \in 0 .. 15 /\ d \in 0 .. 15
      /\ x = a + 16 * b /\ y = c + 16 * d
  OBVIOUS
<1>2. And8(x, y) = l + 16 * h
  BY DEF And8
<1> HIDE DEF a, b, c, d
<1>3. /\ l \in 0 .. 15 /\ h \in 0 .. 15
      /\ AndBits(l, a, c, {1, 2, 4, 8}) /\ AndBits(h, b, d, {1, 2, 4, 8})
  BY <1>1, And4Type, And4Bits
<1> HIDE DEF l, h
<1>4. /\ Bit(l, 1) = Bit(a, 1) * Bit(c, 1) /\ Bit(l, 2) = Bit(a, 2) * Bit(c, 2)
      /\ Bit(l, 4) = Bit(a, 4) * Bit(c, 4) /\ Bit(l, 8) = Bit(a, 8) * Bit(c, 8)
      /\ Bit(h, 1) = Bit(b, 1) * Bit(d, 1) /\ Bit(h, 2) = Bit(b, 2) * Bit(d, 2)
      /\ Bit(h, 4) = Bit(b, 4) * Bit(d, 4) /\ Bit(h, 8) = Bit(b, 8) * Bit(d, 8)
  BY <1>3 DEF AndBits
<1>5. PICK z : z = And8(x, y)
  OBVIOUS
<1>6. /\ Bit(z, 1) = Bit(l, 1) /\ Bit(z, 2) = Bit(l, 2)
      /\ Bit(z, 4) = Bit(l, 4) /\ Bit(z, 8) = Bit(l, 8)
      /\ Bit(z, 16) = Bit(h, 1) /\ Bit(z, 32) = Bit(h, 2)
      /\ Bit(z, 64) = Bit(h, 4) /\ Bit(z, 128) = Bit(h, 8)
  BY <1>2, <1>3, <1>5, Bits8
<1>7. /\ Bit(x, 1) = Bit(a, 1) /\ Bit(x, 2) = Bit(a, 2)
      /\ Bit(x, 4) = Bit(a, 4) /\ Bit(x, 8) = Bit(a, 8)
      /\ Bit(x, 16) = Bit(b, 1) /\ Bit(x, 32) = Bit(b, 2)
      /\ Bit(x, 64) = Bit(b, 4) /\ Bit(x, 128) = Bit(b, 8)
  BY <1>1, Bits8
<1>8. /\ Bit(y, 1) = Bit(c, 1) /\ Bit(y, 2) = Bit(c, 2)
      /\ Bit(y, 4) = Bit(c, 4) /\ Bit(y, 8) = Bit(c, 8)
      /\ Bit(y, 16) = Bit(d, 1) /\ Bit(y, 32) = Bit(d, 2)
      /\ Bit(y, 64) = Bit(d, 4) /\ Bit(y, 128) = Bit(d, 8)
  BY <1>1, Bits8
<1>9. AndBits(z, x, y, {1, 2, 4, 8, 16, 32, 64, 128})
  BY <1>4, <1>6, <1>7, <1>8, Zenon DEF AndBits
<1> QED
  BY <1>5, <1>9

LEMMA LowByteAnd ==
  ASSUME NEW z, NEW x, NEW y, NEW l, NEW a, NEW c,
         LowByteBits(z, l), LowByteBits(x, a), LowByteBits(y, c),
         AndBits(l, a, c, {1, 2, 4, 8, 16, 32, 64, 128})
  PROVE  AndBits(z, x, y, {1, 2, 4, 8, 16, 32, 64, 128})
<1>1. ASSUME NEW w \in {1, 2, 4, 8, 16, 32, 64, 128}
      PROVE  /\ Bit(z, w) = Bit(l, w) /\ Bit(x, w) = Bit(a, w)
             /\ Bit(y, w) = Bit(c, w)
  BY DEF LowByteBits
<1> QED
  BY <1>1 DEF AndBits

LEMMA HighByteAnd ==
  ASSUME NEW z, NEW x, NEW y, NEW h, NEW b, NEW d,
         HighByteBits(z, h), HighByteBits(x, b), HighByteBits(y, d),
         AndBits(h, b, d, {1, 2, 4, 8, 16, 32, 64, 128})
  PROVE  AndBits(z, x, y, {256, 512, 1024, 2048, 4096, 8192, 16384, 32768})
<1>1. /\ Bit(h, 1) = Bit(b, 1) * Bit(d, 1) /\ Bit(h, 2) = Bit(b, 2) * Bit(d, 2)
      /\ Bit(h, 4) = Bit(b, 4) * Bit(d, 4) /\ Bit(h, 8) = Bit(b, 8) * Bit(d, 8)
      /\ Bit(h, 16) = Bit(b, 16) * Bit(d, 16)
      /\ Bit(h, 32) = Bit(b, 32) * Bit(d, 32)
      /\ Bit(h, 64) = Bit(b, 64) * Bit(d, 64)
      /\ Bit(h, 128) = Bit(b, 128) * Bit(d, 128)
  BY DEF AndBits
<1>2. /\ Bit(z, 256) = Bit(x, 256) * Bit(y, 256)
      /\ Bit(z, 512) = Bit(x, 512) * Bit(y, 512)
      /\ Bit(z, 1024) = Bit(x, 1024) * Bit(y, 1024)
      /\ Bit(z, 2048) = Bit(x, 2048) * Bit(y, 2048)
  BY <1>1 DEF HighByteBits
<1>3. /\ Bit(z, 4096) = Bit(x, 4096) * Bit(y, 4096)
      /\ Bit(z, 8192) = Bit(x, 8192) * Bit(y, 8192)
      /\ Bit(z, 16384) = Bit(x, 16384) * Bit(y, 16384)
      /\ Bit(z, 32768) = Bit(x, 32768) * Bit(y, 32768)
  BY <1>1 DEF HighByteBits
<1> QED
  BY <1>2, <1>3 DEF AndBits

(* BitAnd is the bit-by-bit and of two words.                              *)
LEMMA AndIsBitByBit ==
  ASSUME NEW x \in Word, NEW y \in Word
  PROVE  IsAnd(BitAnd(x, y), x, y)
<1> DEFINE a == x % 256  b == x \div 256  c == y % 256  d == y \div 256
           l == And8(a, c)  h == And8(b, d)
<1>1. /\ a \in 0 .. 255 /\ b \in 0 .. 255 /\ c \in 0 .. 255 /\ d \in 0 .. 255
      /\ x = a + 256 * b /\ y = c + 256 * d
  <2>1. x \in Int /\ 0 <= x /\ x <= 65535 /\ y \in Int /\ 0 <= y /\ y <= 65535
    BY WordBounds
  <2>2. x = a + 256 * b /\ y = c + 256 * d
    BY <2>1
  <2> QED
    BY <2>1, <2>2, Halves
<1>2. BitAnd(x, y) = l + 256 * h
  BY DEF BitAnd
<1> HIDE DEF a, b, c, d
<1>3. /\ l \in 0 .. 255 /\ h \in 0 .. 255
      /\ AndBits(l, a, c, {1, 2, 4, 8, 16, 32, 64, 128})
      /\ AndBits(h, b, d, {1, 2, 4, 8, 16, 32, 64, 128})
  BY <1>1, And8Type, And8Bits
<1> HIDE DEF l, h
<1>4. PICK z : z = BitAnd(x, y)
  OBVIOUS
<1>5. ASSUME NEW r \in 0 .. 255
      PROVE  r \in Int /\ 0 <= r /\ r <= 255
  OBVIOUS
<1>6. LowByteBits(x, a) /\ HighByteBits(x, b)
  BY <1>1, <1>5, Bits16
<1>7. LowByteBits(y, c) /\ HighByteBits(y, d)
  BY <1>1, <1>5, Bits16
<1>8. LowByteBits(z, l) /\ HighByteBits(z, h)
  BY <1>2, <1>3, <1>4, <1>5, Bits16
<1>9. AndBits(z, x, y, {1, 2, 4, 8, 16, 32, 64, 128})
  BY <1>3, <1>6, <1>7, <1>8, LowByteAnd
<1>10. AndBits(z, x, y, {256, 512, 1024, 2048, 4096, 8192, 16384, 32768})
  BY <1>3, <1>6, <1>7, <1>8, HighByteAnd
<1>11. ASSUME NEW weight \in Weights
       PROVE  Bit(z, weight) = Bit(x, weight) * Bit(y, weight)
  <2>1. \/ weight \in {1, 2, 4, 8, 16, 32, 64, 128}
        \/ weight \in {256, 512, 1024, 2048, 4096, 8192, 16384, 32768}
    BY DEF Weights
  <2> QED
    BY <1>9, <1>10, <2>1 DEF AndBits
<1>12. z \in Word
  BY <1>4, BitAndType
<1> QED
  BY <1>4, <1>11, <1>12, Zenon DEF IsAnd

-----------------------------------------------------------------------------
(* Induction.  The theorems of the library on induction take a predicate as *)
(* a parameter; stated with the set of the numbers a fact holds of, the     *)
(* same principles can be cited.                                            *)

(* A set of natural numbers that is not empty has a least element.          *)
LEMMA LeastElement ==
  ASSUME NEW T, T \subseteq Nat, T # {}
  PROVE  \E x \in T : \A y \in T : x <= y
<1>1. PICK x \in T : \A y \in T : ~(<<y, x>> \in OpToRel(<, Nat))
  BY NatLessThanWellFounded, WFMin
<1>2. ASSUME NEW y \in T PROVE x <= y
  <2>1. x \in Nat /\ y \in Nat
    OBVIOUS
  <2>2. ~(y < x)
    BY <1>1, <2>1 DEF OpToRel
  <2> QED
    BY <2>1, <2>2
<1> QED
  BY <1>2

(* What holds of 0, and of n + 1 whenever it holds of n, holds of every     *)
(* natural number.                                                          *)
LEMMA Induction ==
  ASSUME NEW T, 0 \in T, \A n \in Nat : n \in T => n + 1 \in T
  PROVE  \A n \in Nat : n \in T
<1> SUFFICES ASSUME Nat \ T # {} PROVE FALSE
  OBVIOUS
<1>1. PICK x \in Nat \ T : \A y \in Nat \ T : x <= y
  BY LeastElement
<1>2. x # 0 /\ x - 1 \in Nat
  BY <1>1
<1>3. x - 1 \in T
  BY <1>1, <1>2
<1> QED
  BY <1>2, <1>3

-----------------------------------------------------------------------------
(* FlattenSeq, the concatenation of a sequence of sequences.               *)

\* f is the recursive function FlattenSeq defines, up to the nth part.
Flattens(f, seqs, n) ==
  f = [i \in 1 .. n |-> IF i = 1 THEN seqs[i] ELSE f[i - 1] \o seqs[i]]

(* Its equations. *)
LEMMA FlattensAt ==
  ASSUME NEW f, NEW seqs, NEW n \in Nat, Flattens(f, seqs, n), NEW i \in 1 .. n
  PROVE  f[i] = IF i = 1 THEN seqs[i] ELSE f[i - 1] \o seqs[i]
  BY DEF Flattens

(* There is such a function, however many parts there are.                 *)
LEMMA FlattensExists ==
  ASSUME NEW seqs PROVE \A n \in Nat : \E f : Flattens(f, seqs, n)
<1> DEFINE T == {n \in Nat : \E f : Flattens(f, seqs, n)}
<1>1. 0 \in T
  <2>1. Flattens([i \in 1 .. 0 |-> 0], seqs, 0)
    BY DEF Flattens
  <2> QED
    BY <2>1
<1>2. ASSUME NEW n \in Nat, n \in T PROVE n + 1 \in T
  <2>1. PICK f : Flattens(f, seqs, n)
    BY <1>2
  <2> DEFINE last == IF n = 0 THEN seqs[1] ELSE f[n] \o seqs[n + 1]
             g == [i \in 1 .. n + 1 |-> IF i = n + 1 THEN last ELSE f[i]]
  <2>2. ASSUME NEW i \in 1 .. n + 1
        PROVE  g[i] = IF i = 1 THEN seqs[i] ELSE g[i - 1] \o seqs[i]
    <3>1. CASE i = n + 1
      <4>1. n # 0 => n \in 1 .. n + 1 /\ n # n + 1
        OBVIOUS
      <4>2. (n # 0 => g[n] = f[n]) /\ g[i] = last
        BY <3>1, <4>1
      <4> HIDE DEF g
      <4> QED
        BY <3>1, <4>2
    <3>2. CASE i # n + 1
      <4>1. i \in 1 .. n
        BY <3>2
      <4>2. g[i] = f[i] /\ (i # 1 => g[i - 1] = f[i - 1])
        BY <4>1, <3>2
      <4>3. f[i] = IF i = 1 THEN seqs[i] ELSE f[i - 1] \o seqs[i]
        BY <2>1, <4>1, FlattensAt
      <4> HIDE DEF g
      <4> QED
        BY <4>2, <4>3
    <3> QED
      BY <3>1, <3>2
  <2>3. g = [i \in 1 .. n + 1 |-> g[i]]
    OBVIOUS
  <2> HIDE DEF g
  <2>4. Flattens(g, seqs, n + 1)
    BY <2>2, <2>3 DEF Flattens
  <2> QED
    BY <2>4
<1> HIDE DEF T
<1>3. \A n \in Nat : n \in T
  BY <1>1, <1>2, Induction
<1> QED
  BY <1>3 DEF T

(* FlattenSeq is its last value.                                           *)
LEMMA FlattenSeqIs ==
  ASSUME NEW seqs, Len(seqs) \in Nat, Len(seqs) # 0
  PROVE  \E f : /\ Flattens(f, seqs, Len(seqs))
                /\ FlattenSeq(seqs) = f[Len(seqs)]
<1> DEFINE f == CHOOSE g : Flattens(g, seqs, Len(seqs))
<1>1. Flattens(f, seqs, Len(seqs))
  BY FlattensExists
<1>2. FlattenSeq(seqs) = f[Len(seqs)]
  BY DEF FlattenSeq, Flattens
<1> QED
  BY <1>1, <1>2

\* Two functions agree on the numbers up to n.
AgreeUpTo(s, t, n) == \A i \in 1 .. n : s[i] = t[i]

(* On the parts two sequences have in common the functions agree.          *)
LEMMA FlattensAgree ==
  ASSUME NEW s, NEW t, NEW n \in Nat, NEW m \in Nat, n <= m,
         AgreeUpTo(s, t, n),
         NEW f, Flattens(f, s, n), NEW g, Flattens(g, t, m)
  PROVE  AgreeUpTo(f, g, n)
<1> USE DEF AgreeUpTo
<1> DEFINE T == {k \in Nat : k \in 1 .. n => f[k] = g[k]}
<1>1. 0 \in T
  OBVIOUS
<1>2. ASSUME NEW k \in Nat, k \in T PROVE k + 1 \in T
  <2> SUFFICES ASSUME k + 1 \in 1 .. n PROVE f[k + 1] = g[k + 1]
    OBVIOUS
  <2>1. k + 1 \in 1 .. m /\ (k + 1) - 1 = k
    OBVIOUS
  <2>2. f[k + 1] = IF k + 1 = 1 THEN s[k + 1] ELSE f[k] \o s[k + 1]
    BY <2>1, FlattensAt
  <2>3. g[k + 1] = IF k + 1 = 1 THEN t[k + 1] ELSE g[k] \o t[k + 1]
    BY <2>1, FlattensAt
  <2>4. k + 1 # 1 => f[k] = g[k]
    BY <1>2
  <2> QED
    BY <2>2, <2>3, <2>4
<1> HIDE DEF T
<1>3. \A k \in Nat : k \in T
  BY <1>1, <1>2, Induction
<1> QED
  BY <1>3 DEF T

(* A flattened sequence holds elements of the parts.                       *)
LEMMA FlattenType ==
  ASSUME NEW S, NEW seqs \in Seq(Seq(S)) PROVE FlattenSeq(seqs) \in Seq(S)
<1>1. CASE Len(seqs) = 0
  BY <1>1 DEF FlattenSeq
<1>2. CASE Len(seqs) # 0
  <2>1. PICK f : /\ Flattens(f, seqs, Len(seqs))
                 /\ FlattenSeq(seqs) = f[Len(seqs)]
    BY <1>2, FlattenSeqIs
  <2> DEFINE T == {k \in Nat : k \in 1 .. Len(seqs) => f[k] \in Seq(S)}
  <2>2. 0 \in T
    OBVIOUS
  <2>3. ASSUME NEW k \in Nat, k \in T PROVE k + 1 \in T
    <3> SUFFICES ASSUME k + 1 \in 1 .. Len(seqs) PROVE f[k + 1] \in Seq(S)
      OBVIOUS
    <3>1. f[k + 1] = IF k + 1 = 1 THEN seqs[k + 1] ELSE f[k] \o seqs[k + 1]
      BY <2>1, FlattensAt
    <3>2. seqs[k + 1] \in Seq(S) /\ (k + 1 # 1 => f[k] \in Seq(S))
      BY <2>3
    <3> QED
      BY <3>1, <3>2
  <2> HIDE DEF T
  <2>4. \A k \in Nat : k \in T
    BY <2>2, <2>3, Induction
  <2>5. Len(seqs) \in T
    BY <2>4
  <2> QED
    BY <1>2, <2>1, <2>5 DEF T
<1> QED
  BY <1>1, <1>2

(* Nothing flattens to nothing, and one more part comes at the end.        *)
LEMMA FlattenEmpty == FlattenSeq(<<>>) = <<>>
  BY DEF FlattenSeq

LEMMA FlattenAppend ==
  ASSUME NEW S, NEW seqs \in Seq(Seq(S)), NEW last \in Seq(S)
  PROVE  FlattenSeq(Append(seqs, last)) = FlattenSeq(seqs) \o last
<1> DEFINE more == Append(seqs, last)
           n == Len(seqs)
<1>1. /\ Len(more) = n + 1 /\ n \in Nat /\ more[n + 1] = last
      /\ AgreeUpTo(seqs, more, n)
  BY DEF AgreeUpTo
<1> HIDE DEF more
<1>2. PICK g : Flattens(g, more, n + 1) /\ FlattenSeq(more) = g[n + 1]
  <2>1. Len(more) # 0 /\ Len(more) \in Nat
    BY <1>1
  <2> QED
    BY <1>1, <2>1, FlattenSeqIs
<1>3. FlattenSeq(more) = IF n + 1 = 1 THEN last ELSE g[n] \o last
  <2>1. n + 1 \in 1 .. n + 1 /\ (n + 1) - 1 = n
    BY <1>1
  <2> QED
    BY <1>1, <1>2, <2>1, FlattensAt
<1>4. CASE n = 0
  <2>1. seqs = <<>> /\ <<>> \o last = last
    BY <1>4
  <2> QED
    BY <1>3, <1>4, <2>1, FlattenEmpty DEF more
<1>5. CASE n # 0
  <2>1. PICK f : Flattens(f, seqs, n) /\ FlattenSeq(seqs) = f[n]
    BY <1>1, <1>5, FlattenSeqIs
  <2>2. AgreeUpTo(f, g, n)
    <3>1. n + 1 \in Nat /\ n <= n + 1
      BY <1>1
    <3> HIDE DEF n
    <3> QED
      BY <1>1, <1>2, <2>1, <3>1, FlattensAgree
  <2>3. n \in 1 .. n /\ n + 1 # 1
    BY <1>1, <1>5
  <2> QED
    BY <1>3, <2>1, <2>2, <2>3 DEF more, AgreeUpTo
<1> QED
  BY <1>4, <1>5
=============================================================================
