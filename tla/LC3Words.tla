------------------------------ MODULE LC3Words ------------------------------
(***************************************************************************)
(* The 16-bit words of the LC-3 and the arithmetic the C code performs on  *)
(* them.  A word is the natural number a uint16_t holds; an assignment to  *)
(* a uint16_t is reduced modulo 2^16 (Wrap).                               *)
(*                                                                         *)
(* Shifts and masks are written with \div and % and the bitwise and is     *)
(* built by doubling, so that every definition is within reach of the      *)
(* provers; LC3EveryWord compares them with bit-level definitions.         *)
(***************************************************************************)
EXTENDS Integers

WORD_MAX == 65536
Word == 0 .. WORD_MAX - 1
Byte == 0 .. 255

\* What a C expression of type int becomes when stored in a uint16_t.
Wrap(x) == x % WORD_MAX

-----------------------------------------------------------------------------
(* Instruction fields. *)

Opcode(instruction) == instruction \div 4096
FieldDR(instruction) == (instruction \div 512) % 8       \* bits 11-9
FieldSR1(instruction) == (instruction \div 64) % 8       \* bits 8-6, also BaseR
FieldSR2(instruction) == instruction % 8                 \* bits 2-0
ImmediateMode(instruction) == (instruction \div 32) % 2 = 1
OffsetMode(instruction) == (instruction \div 2048) % 2 = 1

-----------------------------------------------------------------------------
(* sign_extend(x, bit_count), with span = 2^bit_count: when the sign bit   *)
(* of the field is set every bit above the field becomes 1, and otherwise  *)
(* x is returned as it is, whatever its high bits hold.                    *)

\* A plausible slip: testing the bit above the sign bit.
SignExtendMutant(x, span) ==
  IF (x \div span) % 2 = 1 THEN (x % span) + (WORD_MAX - span) ELSE x

SignExtend(x, span) ==
  IF (x \div (span \div 2)) % 2 = 1 THEN (x % span) + (WORD_MAX - span) ELSE x

Imm5(instruction) == SignExtend(instruction % 32, 32)
Offset6(instruction) == SignExtend(instruction % 64, 64)
PcOffset9(instruction) == SignExtend(instruction % 512, 512)
PcOffset11(instruction) == SignExtend(instruction % 2048, 2048)

-----------------------------------------------------------------------------
(* x & y and ~x on words.  AndN is the bitwise and of two N-bit numbers,   *)
(* put together from its two halves.                                       *)

And1(x, y) == x * y
And2(x, y) == And1(x % 2, y % 2) + 2 * And1(x \div 2, y \div 2)
And4(x, y) == And2(x % 4, y % 4) + 4 * And2(x \div 4, y \div 4)
And8(x, y) == And4(x % 16, y % 16) + 16 * And4(x \div 16, y \div 16)

BitAnd(x, y) == And8(x % 256, y % 256) + 256 * And8(x \div 256, y \div 256)

BitNot(x) == WORD_MAX - 1 - x

BitOr(x, y) == x + y - BitAnd(x, y)

-----------------------------------------------------------------------------
(* swap16: object files are big-endian, the host is little-endian.         *)

Swap16(x) == (x % 256) * 256 + x \div 256

-----------------------------------------------------------------------------
(* The condition flags and the flag update_register_condition_flags        *)
(* computes for the value just written.                                    *)

CONDITION_FLAG_POSITIVE == 1
CONDITION_FLAG_ZERO == 2
CONDITION_FLAG_NEGATIVE == 4
ConditionFlags ==
  {CONDITION_FLAG_POSITIVE, CONDITION_FLAG_ZERO, CONDITION_FLAG_NEGATIVE}

\* A plausible slip: the negative test looks at bit 14.
ConditionFlagMutant(value) ==
  IF value = 0 THEN CONDITION_FLAG_ZERO
  ELSE IF value \div 16384 = 1 THEN CONDITION_FLAG_NEGATIVE
  ELSE CONDITION_FLAG_POSITIVE

ConditionFlag(value) ==
  IF value = 0 THEN CONDITION_FLAG_ZERO
  ELSE IF value \div 32768 # 0 THEN CONDITION_FLAG_NEGATIVE
  ELSE CONDITION_FLAG_POSITIVE

-----------------------------------------------------------------------------
(* What the program means by a word: its two's-complement reading, and its *)
(* bits.  Reference operators of the properties, no definitions of the     *)
(* code.                                                                   *)

Signed(word) == IF word < 32768 THEN word ELSE word - WORD_MAX

Weights == {1, 2, 4, 8, 16, 32, 64, 128, 256, 512, 1024, 2048, 4096, 8192,
            16384, 32768}
Bit(word, weight) == (word \div weight) % 2

\* z has the bits that both x and y have.
IsAnd(z, x, y) ==
  z \in Word /\ \A weight \in Weights :
                  Bit(z, weight) = Bit(x, weight) * Bit(y, weight)
=============================================================================
