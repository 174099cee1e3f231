------------------------- MODULE LC3EncodingProofs --------------------------
(***************************************************************************)
(* Lemmas about LC3Encoding for every line the parser can return: an       *)
(* encoder's result is a 16-bit word or one of the three failures; it is a *)
(* word exactly when the operands fit; an instruction is the sum of its    *)
(* fields, so the machine finds in each field what the operand said; and a *)
(* line that succeeds has exactly the words pass 1 counted for it.         *)
(***************************************************************************)
EXTENDS LC3Encoding, LC3WordsProofs, SequenceTheorems, WellFoundedInduction

Failures == {Error, Undefined, Crash}
Results == Failures \cup Word

Symbols == [label : Labels, address : Word]

\* The fields of an operand, whether or not one was written.
Records ==
  [type : {"register", "integer", "label", "string"},
   register : RegisterCodes \cup {NoRegister}, integer : Int,
   label : Labels \cup {NoLabel}, string : Seq(Byte)]

(* A word is never mistaken for a failure. *)
LEMMA ResultSign ==
  ASSUME NEW x \in Results
  PROVE  x \in Int /\ (x >= 0 <=> x \in Word) /\ (x < 0 <=> x \in Failures)
<1>1. CASE x \in Failures
  BY <1>1, WordBounds DEF Failures, Error, Undefined, Crash
<1>2. CASE x \in Word
  BY <1>2, WordBounds DEF Failures, Error, Undefined, Crash
<1> QED
  BY <1>1, <1>2 DEF Results

(* symbol_table_get finds the first row of a label it holds. *)
LEMMA AddressOfFirst ==
  ASSUME NEW table \in Seq(Symbols), NEW label, Rows(table, label) # {}
  PROVE  \E i \in Rows(table, label) :
           /\ \A j \in Rows(table, label) : i <= j
           /\ AddressOf(table, label) = table[i].address
           /\ AddressOf(table, label) \in Word
<1>1. Rows(table, label) \in SUBSET Nat
  BY DEF Rows
<1>2. \E i \in Rows(table, label) : \A j \in Rows(table, label) : i <= j
  BY <1>1, LeastElement
<1> DEFINE first == CHOOSE i \in Rows(table, label) :
                      \A j \in Rows(table, label) : i <= j
<1>3. first \in Rows(table, label) /\ \A j \in Rows(table, label) : first <= j
  BY <1>2
<1>4. AddressOf(table, label) = table[first].address
  BY DEF AddressOf
<1>5. first \in DOMAIN table
  BY <1>3 DEF Rows
<1> HIDE DEF first
<1>6. table[first] \in Symbols
  BY <1>5
<1>7. table[first].address \in Word
  BY <1>6 DEF Symbols
<1> QED
  BY <1>3, <1>4, <1>7

(* What a label operand stands for is a word or a failure. *)
LEMMA SymbolOfType ==
  ASSUME NEW table \in Seq(Symbols), NEW operand
  PROVE  SymbolOf(table, operand) \in Results
<1>1. Rows(table, operand.label) # {} => AddressOf(table, operand.label) \in Word
  BY AddressOfFirst
<1>2. SymbolOf(table, operand)
        \in {Undefined, Crash, Error, IF Rows(table, operand.label) # {}
                                      THEN AddressOf(table, operand.label)
                                      ELSE Error}
  BY Zenon DEF SymbolOf
<1> QED
  BY <1>1, <1>2 DEF Results, Failures

(* A missing operand has the fields of an operand. *)
LEMMA OperandType ==
  ASSUME NEW line \in Lines, NEW n \in Nat \ {0}
  PROVE  Operand(line, n) \in Records
<1>1. line.operands \in Seq(Operands)
  BY DEF Lines
<1>2. Missing \in Records
  <2>1. <<>> \in Seq(Byte)
    OBVIOUS
  <2> QED
    BY <2>1 DEF Missing, Register, Records
<1>3. n <= Len(line.operands) => line.operands[n] \in Operands
  BY <1>1, ElementOfSeq
<1>4. Operands \subseteq Records
  BY DEF Operands, Records
<1> QED
  BY <1>2, <1>3, <1>4 DEF Operand

(* A register operand is a code of the register table or a crash. *)
LEMMA RegisterCodeType ==
  ASSUME NEW operand \in Records
  PROVE  RegisterCode(operand) \in {Crash} \cup 0 .. 9
  BY DEF Records, RegisterCode, RegisterCodes, NoRegister

\* field stands for value.
Recovers(field, span, value) ==
  field \in 0 .. span - 1 /\ Signed(SignExtend(field, span)) = value

LEMMA ImmediateField ==
  ASSUME NEW value \in Int, NEW span \in {32, 64, 512, 2048},
         ImmediateBits(value, span) # Error
  PROVE  Recovers(ImmediateBits(value, span), span, value)
<1> DEFINE field == ImmediateBits(value, span)
           h == span \div 2
<1>1. span \in Int /\ h \in Int /\ h > 0 /\ span = 2 * h /\ span <= 2048
  OBVIOUS
<1>2. field = value % span /\ -h <= value /\ value <= h - 1
  BY DEF ImmediateBits
<1> HIDE DEF field, h
<1>3. field = IF value >= 0 THEN value ELSE value + span
  BY <1>1, <1>2
<1>4. field \in Int /\ 0 <= field /\ field < span
  BY <1>1, <1>3, <1>2
<1>5. field \in Word
  BY <1>1, <1>4, BoundedIsWord
<1>6. field % span = field
  BY <1>1, <1>4
<1>7. Signed(SignExtend(field, span)) = IF field < h THEN field ELSE field - span
  BY <1>5, <1>6, SignExtendValue DEF h
<1>8. Signed(SignExtend(field, span)) = value
  BY <1>7, <1>3, <1>2, <1>1
<1> QED
  BY <1>4, <1>8, <1>1 DEF field, Recovers

(* The mask is two's complement: the sign extension of the machine recovers
   every immediate the assembler accepts. *)
THEOREM ImmediateReadsBack ==
  ASSUME NEW value \in Int, NEW span \in {32, 64, 512, 2048},
         ImmediateBits(value, span) # Error
  PROVE  LET field == ImmediateBits(value, span)
         IN  /\ field \in 0 .. span - 1
             /\ Signed(SignExtend(field, span)) = value
<1>1. Recovers(ImmediateBits(value, span), span, value)
  BY ImmediateField
<1> QED
  BY <1>1 DEF Recovers

(* An or of two results is a word, or the worse failure of the two. *)
LEMMA WithType ==
  ASSUME NEW x \in Results, NEW y \in Int, NEW factor \in Int,
         y < 0 => y \in Failures, y >= 0 => y * factor \in Word
  PROVE  With(x, y, factor) \in Results
<1>1. x \in Int /\ (x >= 0 => x \in Word) /\ (x < 0 => x \in Failures)
  BY ResultSign
<1>2. CASE x < 0 \/ y < 0
  <2>1. Worse(x, y) < 0 /\ (Worse(x, y) = x \/ Worse(x, y) = y)
    BY <1>1, <1>2 DEF Worse
  <2>2. Worse(x, y) \in Failures
    BY <2>1, <1>1
  <2> QED
    BY <2>2, <1>2 DEF With, Results
<1>3. CASE x >= 0 /\ y >= 0
  <2>1. BitOr(x, y * factor) \in Word
    BY <1>1, <1>3, BitOrType
  <2>2. ~(x < 0 \/ y < 0)
    BY <1>1, <1>3
  <2> QED
    BY <2>1, <2>2 DEF With, Results
<1> QED
  BY <1>1, <1>2, <1>3

(* The four fields of an instruction make a word, or fail as one of them
   does. *)
LEMMA InstructionType ==
  ASSUME NEW opcode \in 0 .. 15, NEW high \in {Crash} \cup 0 .. 9,
         NEW middle \in {Crash} \cup 0 .. 9, NEW low \in Results
  PROVE  Instruction(opcode, high, middle, low) \in Results
<1>1. ASSUME NEW n \in {Crash} \cup 0 .. 9
      PROVE  /\ n \in Int /\ (n < 0 => n \in Failures)
             /\ n >= 0 => n * 64 \in Word /\ n * 512 \in Word
  <2>1. CASE n = Crash
    BY <2>1 DEF Crash, Failures
  <2>2. CASE n \in 0 .. 9
    BY <2>2, BoundedIsWord
  <2> QED
    BY <2>1, <2>2
<1>2. opcode \in Int /\ opcode >= 0 /\ opcode * 4096 \in Word
  BY BoundedIsWord
<1>3. With(low, middle, 64) \in Results
  BY <1>1, WithType
<1>4. With(With(low, middle, 64), high, 512) \in Results
  BY <1>1, <1>3, WithType
<1> QED
  BY <1>2, <1>4, WithType DEF Instruction

(* A field that is an integer from 0, or an error, is a result. *)
LEMMA SmallResult ==
  ASSUME NEW n \in Int, n <= 65535, n < 0 => n \in Failures
  PROVE  n \in Results
  BY BoundedIsWord DEF Results

(* An immediate is masked to its field or refused. *)
LEMMA ImmediateBitsResult ==
  ASSUME NEW value \in Int, NEW span \in Int, 0 < span, span <= 2048
  PROVE  ImmediateBits(value, span) \in Results
<1>1. value % span \in Int /\ 0 <= value % span /\ value % span <= 65535
  BY SMT
<1>2. value % span \in Word
  BY <1>1, BoundedIsWord
<1> QED
  BY <1>2 DEF ImmediateBits, Results, Failures

(* An offset to a label is a field or a failure. *)
LEMMA PcOffsetType ==
  ASSUME NEW table \in Seq(Symbols), NEW operand, NEW at \in Word,
         NEW span \in Int, 0 < span, span <= 2048
  PROVE  PcOffset(table, operand, at, span) \in Results
<1> DEFINE target == SymbolOf(table, operand)
<1>1. target \in Results /\ target \in Int
  BY SymbolOfType, ResultSign
<1>2. at \in Int
  BY WordBounds
<1> HIDE DEF target
<1>3. target - (at + 1) \in Int
  BY <1>1, <1>2
<1>4. ImmediateBits(target - (at + 1), span) \in Results
  BY <1>3, ImmediateBitsResult
<1> QED
  BY <1>1, <1>4 DEF PcOffset, target

(* The last field of ADD and AND. *)
LEMMA SecondSourceType ==
  ASSUME NEW operand \in Records PROVE SecondSource(operand) \in Results
<1>1. RegisterCode(operand) \in {Crash} \cup 0 .. 9
  BY RegisterCodeType
<1>2. RegisterCode(operand) \in Results
  BY <1>1, SmallResult DEF Failures, Crash
<1>3. operand.integer \in Int
  BY DEF Records
<1>4. ImmediateBits(operand.integer, 32) \in Results
  <2>1. 0 < 32 /\ 32 <= 2048 /\ 32 \in Int
    OBVIOUS
  <2> QED
    BY <1>3, <2>1, ImmediateBitsResult
<1>5. 1 * 32 \in Word
  BY BoundedIsWord
<1>6. With(ImmediateBits(operand.integer, 32), 1, 32) \in Results
  BY <1>4, <1>5, WithType
<1> QED
  BY <1>2, <1>6 DEF SecondSource

(* The condition bits of a branch. *)
LEMMA BranchMaskType ==
  ASSUME NEW letters PROVE BranchMask(letters) \in 0 .. 7
  BY DEF BranchMask, CONDITION_FLAG_NEGATIVE, CONDITION_FLAG_ZERO,
         CONDITION_FLAG_POSITIVE

(* A trap vector is a byte or refused. *)
LEMMA VectorType ==
  ASSUME NEW n \in Int
  PROVE  (IF n \in 0 .. 255 THEN n ELSE Error) \in Results
<1>1. CASE 0 <= n /\ n <= 255
  <2>1. n \in Results
    BY <1>1, SmallResult
  <2> QED
    BY <1>1, <2>1
<1>2. CASE ~(0 <= n /\ n <= 255)
  <2>1. Error \in Results
    BY DEF Results, Failures
  <2> QED
    BY <1>2, <2>1
<1> QED
  BY <1>1, <1>2

(* operation.c: whatever the operands are, and whether or not they are there,
   an encoder yields a 16-bit word or fails. *)
THEOREM EncodeType ==
  ASSUME NEW line \in Lines, NEW table \in Seq(Symbols), NEW at \in Word
  PROVE  Encode(line, table, at) \in Results
<1> DEFINE o1 == Operand(line, 1)
           o2 == Operand(line, 2)
           o3 == Operand(line, 3)
           name == line.operation
<1>1. o1 \in Records /\ o2 \in Records /\ o3 \in Records
  BY OperandType
<1>2. /\ RegisterCode(o1) \in {Crash} \cup 0 .. 9
      /\ RegisterCode(o2) \in {Crash} \cup 0 .. 9
  BY <1>1, RegisterCodeType
<1>3. o1.integer \in Int /\ o3.integer \in Int
  BY <1>1 DEF Records
<1>4. 0 \in Results /\ 63 \in Results /\ OP_RTI * 4096 \in Results
  BY SmallResult DEF OP_RTI
<1>5. /\ PcOffset(table, o1, at, 512) \in Results
      /\ PcOffset(table, o2, at, 512) \in Results
      /\ PcOffset(table, o1, at, 2048) \in Results
  <2>1. /\ 512 \in Int /\ 0 < 512 /\ 512 <= 2048
        /\ 2048 \in Int /\ 0 < 2048 /\ 2048 <= 2048
    OBVIOUS
  <2> QED
    BY <2>1, PcOffsetType
<1>6. ImmediateBits(o3.integer, 64) \in Results
  <2>1. 64 \in Int /\ 0 < 64 /\ 64 <= 2048
    OBVIOUS
  <2> QED
    BY <1>3, <2>1, ImmediateBitsResult
<1>7. SecondSource(o3) \in Results
  BY <1>1, SecondSourceType
<1>8. /\ 0 \in {Crash} \cup 0 .. 9 /\ 4 \in {Crash} \cup 0 .. 9
      /\ R7 \in {Crash} \cup 0 .. 9
      /\ BranchMask(line.conditions) \in {Crash} \cup 0 .. 9
  BY BranchMaskType DEF R7
<1>9. /\ OP_NOT \in 0 .. 15 /\ OP_BR \in 0 .. 15 /\ OP_JMP \in 0 .. 15
      /\ OP_JSR \in 0 .. 15 /\ OP_TRAP \in 0 .. 15
  BY DEF OP_NOT, OP_BR, OP_JMP, OP_JSR, OP_TRAP
<1>10. \A n \in {"ADD", "AND", "LD", "LDI", "LEA", "ST", "STI", "LDR", "STR"} :
         Opcodes[n] \in 0 .. 15
  BY DEF Opcodes, OP_ADD, OP_AND, OP_LD, OP_LDI, OP_LEA, OP_ST, OP_STI, OP_LDR,
         OP_STR
<1>11. (IF o1.integer \in 0 .. 255 THEN o1.integer ELSE Error) \in Results
  BY <1>3, VectorType
<1>12. \A n \in TrapNames : TrapCode(n) \in Results
  <2>1. /\ TRAP_GETC \in Results /\ TRAP_OUT \in Results
        /\ TRAP_PUTS \in Results /\ TRAP_IN \in Results
        /\ TRAP_PUTSP \in Results /\ TRAP_HALT \in Results
    BY SmallResult DEF TRAP_GETC, TRAP_OUT, TRAP_PUTS, TRAP_IN, TRAP_PUTSP,
                       TRAP_HALT
  <2> QED
    BY <2>1 DEF TrapNames, TrapCode
<1> HIDE DEF o1, o2, o3
<1>13. name \in {"ADD", "AND"}
         => EncodeArithmetic(line, Opcodes[name]) \in Results
  <2>1. \A opcode \in 0 .. 15 :
          Instruction(opcode, RegisterCode(o1), RegisterCode(o2),
                      SecondSource(o3)) \in Results
    BY <1>2, <1>7, InstructionType
  <2> QED
    BY <2>1, <1>10 DEF EncodeArithmetic, o1, o2, o3
<1>14. EncodeNot(line) \in Results
  <2>1. 63 \in Results /\ OP_NOT \in 0 .. 15
    BY <1>4, <1>9
  <2>2. \A low \in Results :
          Instruction(OP_NOT, RegisterCode(o1), RegisterCode(o2), low)
            \in Results
    BY <1>2, <2>1, InstructionType
  <2> QED
    BY <2>1, <2>2 DEF EncodeNot, o1, o2
<1>15. EncodeBr(line, table, at) \in Results
  <2>1. Instruction(OP_BR, BranchMask(line.conditions), 0,
                    PcOffset(table, o1, at, 512)) \in Results
    BY <1>5, <1>8, <1>9, InstructionType
  <2> QED
    BY <2>1 DEF EncodeBr, o1
<1>16. EncodeJmp(line) \in Results
  <2>1. (IF Len(line.operands) = 0 THEN R7 ELSE RegisterCode(o1))
          \in {Crash} \cup 0 .. 9
    BY <1>2, <1>8
  <2> QED
    BY <2>1, <1>4, <1>8, <1>9, InstructionType DEF EncodeJmp, o1
<1>17. EncodeJsr(line, table, at) \in Results
  <2>1. Instruction(OP_JSR, 0, RegisterCode(o1), 0) \in Results
    BY <1>2, <1>4, <1>8, <1>9, InstructionType
  <2>2. Instruction(OP_JSR, 4, 0, PcOffset(table, o1, at, 2048)) \in Results
    BY <1>5, <1>8, <1>9, InstructionType
  <2> QED
    BY <2>1, <2>2 DEF EncodeJsr, o1
<1>18. name \in {"LD", "LDI", "LEA", "ST", "STI"}
         => EncodePcRelative(line, Opcodes[name], table, at) \in Results
  <2>1. \A opcode \in 0 .. 15 :
          Instruction(opcode, RegisterCode(o1), 0, PcOffset(table, o2, at, 512))
            \in Results
    BY <1>2, <1>5, <1>8, InstructionType
  <2> QED
    BY <2>1, <1>10 DEF EncodePcRelative, o1, o2
<1>19. name \in {"LDR", "STR"}
         => EncodeBaseOffset(line, Opcodes[name]) \in Results
  <2>1. \A opcode \in 0 .. 15 :
          Instruction(opcode, RegisterCode(o1), RegisterCode(o2),
                      ImmediateBits(o3.integer, 64)) \in Results
    BY <1>2, <1>6, InstructionType
  <2> QED
    BY <2>1, <1>10 DEF EncodeBaseOffset, o1, o2, o3
<1>20. EncodeTrap(line) \in Results
  BY <1>8, <1>9, <1>11, InstructionType DEF EncodeTrap, o1
<1>21. name \in TrapNames
         => Instruction(OP_TRAP, 0, 0, TrapCode(name)) \in Results
  BY <1>8, <1>9, <1>12, InstructionType
<1>22. Error \in Results
  BY DEF Results, Failures
<1> QED
  BY <1>4, <1>13, <1>14, <1>15, <1>16, <1>17, <1>18, <1>19, <1>20, <1>21,
     <1>22 DEF Encode

(* The zeroes of a .BLKW; none when its operand is negative. *)
LEMMA ZeroesType ==
  ASSUME NEW n \in Int
  PROVE  /\ [i \in 1 .. n |-> 0] \in Seq(Results)
         /\ n >= 0 => Len([i \in 1 .. n |-> 0]) = n
<1>1. 0 \in Results
  BY SmallResult
<1>2. CASE n >= 0
  BY <1>1, <1>2
<1>3. CASE n < 0
  <2>1. 1 .. n = 1 .. 0
    BY <1>3
  <2>2. [i \in 1 .. n |-> 0] = [i \in 1 .. 0 |-> 0]
    BY <2>1
  <2>3. [i \in 1 .. 0 |-> 0] \in Seq(Results)
    BY <1>1
  <2> QED
    BY <2>2, <2>3, <1>3
<1> QED
  BY <1>2, <1>3

(* The characters of a string are words. *)
LEMMA StringType ==
  ASSUME NEW text \in Seq(Byte)
  PROVE  /\ Append(text, 0) \in Seq(Results)
         /\ Len(Append(text, 0)) = Len(text) + 1
<1>1. Byte \subseteq Results
  <2> SUFFICES ASSUME NEW b \in Byte PROVE b \in Results
    OBVIOUS
  <2>1. b \in Int /\ 0 <= b /\ b <= 65535
    BY DEF Byte
  <2> QED
    BY <2>1, SmallResult
<1>2. text \in Seq(Results)
  BY <1>1, SeqMonotonic
<1>3. 0 \in Results
  BY SmallResult
<1> QED
  BY <1>2, <1>3, AppendProperties

(* .FILL stores a word or fails. *)
LEMMA FillValueType ==
  ASSUME NEW line \in Lines, NEW table \in Seq(Symbols)
  PROVE  FillValue(line, table) \in Results
<1>1. Operand(line, 1) \in Records
  BY OperandType
<1>2. Operand(line, 1).integer \in Int
  BY <1>1 DEF Records
<1>3. Wrap(Operand(line, 1).integer) \in Results
  BY <1>2, WrapType DEF Results
<1>4. SymbolOf(table, Operand(line, 1)) \in Results
  BY SymbolOfType
<1> QED
  BY <1>3, <1>4 DEF FillValue

(* Every word pass 2 puts on a line is a 16-bit word or a failure. *)
THEOREM MachineCodesType ==
  ASSUME NEW line \in Lines, NEW table \in Seq(Symbols), NEW at \in Word
  PROVE  MachineCodes(line, table, at) \in Seq(Results)
<1> DEFINE o1 == Operand(line, 1)
<1>1. o1 \in Records
  BY OperandType
<1>2. o1.integer \in Int /\ o1.string \in Seq(Byte)
  BY <1>1 DEF Records
<1> HIDE DEF o1
<1>3. [i \in 1 .. o1.integer |-> 0] \in Seq(Results)
  BY <1>2, ZeroesType
<1>4. Append(o1.string, 0) \in Seq(Results)
  BY <1>2, StringType
<1>5. ASSUME NEW x \in Results PROVE <<x>> \in Seq(Results)
  OBVIOUS
<1>6. /\ <<FillValue(line, table)>> \in Seq(Results)
      /\ <<Encode(line, table, at)>> \in Seq(Results)
      /\ <<Crash>> \in Seq(Results)
  <2>1. Crash \in Results
    BY DEF Results, Failures
  <2> QED
    BY <2>1, <1>5, FillValueType, EncodeType
<1>7. <<>> \in Seq(Results)
  OBVIOUS
<1> QED
  BY <1>3, <1>4, <1>6, <1>7 DEF MachineCodes, o1

(* directive.c: the size functions and the encode functions agree.  A line
   that assembles has as many words as pass 1 moved the location counter by,
   for every operation, every directive and every operand but a negative
   .BLKW. *)
THEOREM SizesAgree ==
  ASSUME NEW line \in Lines, NEW table, NEW at,
         Size(line) >= 0,
         \A i \in DOMAIN MachineCodes(line, table, at) :
           MachineCodes(line, table, at)[i] >= 0
  PROVE  Len(MachineCodes(line, table, at)) = Size(line)
<1> DEFINE o1 == Operand(line, 1)
           name == line.operation
<1>1. o1 \in Records
  BY OperandType
<1>2. o1.integer \in Int /\ o1.string \in Seq(Byte)
  BY <1>1 DEF Records
<1> HIDE DEF o1
<1>3. CASE name \in {NULL, ".ORIG", ".END"}
  BY <1>3 DEF MachineCodes, Size, NULL
<1>4. CASE name = ".FILL"
  BY <1>4 DEF MachineCodes, Size, NULL
<1>5. CASE name = ".BLKW"
  <2>1. /\ MachineCodes(line, table, at) = [i \in 1 .. o1.integer |-> 0]
        /\ Size(line) = o1.integer
    BY <1>5 DEF MachineCodes, Size, NULL, o1
  <2> QED
    BY <2>1, <1>2, ZeroesType
<1>6. CASE name = ".STRINGZ"
  <2>1. CASE Len(line.operands) = 0
    <3>1. MachineCodes(line, table, at) = <<Crash>>
      BY <1>6, <2>1 DEF MachineCodes, NULL
    <3>2. 1 \in DOMAIN <<Crash>> /\ <<Crash>>[1] = Crash
      OBVIOUS
    <3>3. Crash >= 0
      BY <3>1, <3>2
    <3> QED
      BY <3>3 DEF Crash
  <2>2. CASE Len(line.operands) # 0
    <3>1. /\ MachineCodes(line, table, at) = Append(o1.string, 0)
          /\ Size(line) = Len(o1.string) + 1
      BY <1>6, <2>2 DEF MachineCodes, Size, NULL, o1
    <3> QED
      BY <3>1, <1>2, StringType
  <2> QED
    BY <2>1, <2>2
<1>7. CASE name \notin {NULL, ".ORIG", ".END", ".FILL", ".BLKW", ".STRINGZ"}
  <2>1. MachineCodes(line, table, at) = <<Encode(line, table, at)>>
    BY <1>7 DEF MachineCodes
  <2>2. Size(line) = 1
    BY <1>7 DEF Size
  <2> QED
    BY <2>1, <2>2
<1> QED
  BY <1>3, <1>4, <1>5, <1>6, <1>7

-----------------------------------------------------------------------------
(* Fields that do not overlap: their bitwise or is their sum. *)

LEMMA And1Disjoint ==
  \A x \in 0 .. 1 : And1(x, 0) = 0 /\ And1(0, x) = 0
  BY DEF And1

(* In two bits: one number is 0, or one is below 2 and the other even. *)
LEMMA And2Disjoint ==
  ASSUME NEW x \in 0 .. 3, NEW y \in 0 .. 3,
         x = 0 \/ y = 0 \/ (x < 2 /\ y % 2 = 0)
  PROVE  And2(x, y) = 0
<1>1. /\ x % 2 \in 0 .. 1 /\ x \div 2 \in 0 .. 1
      /\ y % 2 \in 0 .. 1 /\ y \div 2 \in 0 .. 1
  BY Halves
<1>2. x % 2 = 0 \/ y % 2 = 0
  OBVIOUS
<1>3. x \div 2 = 0 \/ y \div 2 = 0
  OBVIOUS
<1>4. And1(x % 2, y % 2) = 0 /\ And1(x \div 2, y \div 2) = 0
  BY <1>1, <1>2, <1>3, And1Disjoint
<1> QED
  BY <1>4 DEF And2

LEMMA And4Disjoint ==
  ASSUME NEW x \in 0 .. 15, NEW y \in 0 .. 15,
         \/ x = 0 \/ y = 0
         \/ x < 2 /\ y % 2 = 0
         \/ x < 4 /\ y % 4 = 0
         \/ x < 8 /\ y % 8 = 0
  PROVE  And4(x, y) = 0
<1>1. /\ x % 4 \in 0 .. 3 /\ x \div 4 \in 0 .. 3
      /\ y % 4 \in 0 .. 3 /\ y \div 4 \in 0 .. 3
  BY Halves
<1>2. x % 4 = 0 \/ y % 4 = 0 \/ (x % 4 < 2 /\ (y % 4) % 2 = 0)
  OBVIOUS
<1>3. x \div 4 = 0 \/ y \div 4 = 0 \/ (x \div 4 < 2 /\ (y \div 4) % 2 = 0)
  OBVIOUS
<1>4. And2(x % 4, y % 4) = 0 /\ And2(x \div 4, y \div 4) = 0
  BY <1>1, <1>2, <1>3, And2Disjoint
<1> QED
  BY <1>4 DEF And4

LEMMA And8Disjoint ==
  ASSUME NEW x \in 0 .. 255, NEW y \in 0 .. 255,
         \/ x = 0 \/ y = 0
         \/ x < 2 /\ y % 2 = 0
         \/ x < 8 /\ y % 8 = 0
         \/ x < 16 /\ y % 16 = 0
         \/ x < 32 /\ y % 32 = 0
         \/ x < 64 /\ y % 64 = 0
  PROVE  And8(x, y) = 0
<1>1. /\ x % 16 \in 0 .. 15 /\ x \div 16 \in 0 .. 15
      /\ y % 16 \in 0 .. 15 /\ y \div 16 \in 0 .. 15
  BY Halves
<1>2. \/ x % 16 = 0 \/ y % 16 = 0
      \/ x % 16 < 2 /\ (y % 16) % 2 = 0
      \/ x % 16 < 8 /\ (y % 16) % 8 = 0
  OBVIOUS
<1>3. \/ x \div 16 = 0 \/ y \div 16 = 0
      \/ x \div 16 < 2 /\ (y \div 16) % 2 = 0
      \/ x \div 16 < 4 /\ (y \div 16) % 4 = 0
  OBVIOUS
<1>4. And4(x % 16, y % 16) = 0 /\ And4(x \div 16, y \div 16) = 0
  BY <1>1, <1>2, <1>3, And4Disjoint
<1> QED
  BY <1>4 DEF And8

(* The field boundaries of the instructions: bits 5, 6, 9, 11 and 12. *)
LEMMA BitOrDisjoint ==
  ASSUME NEW x \in Word, NEW y \in Word,
         \/ x = 0 \/ y = 0
         \/ x < 32 /\ y % 32 = 0
         \/ x < 64 /\ y % 64 = 0
         \/ x < 512 /\ y % 512 = 0
         \/ x < 2048 /\ y % 2048 = 0
         \/ x < 4096 /\ y % 4096 = 0
  PROVE  BitOr(x, y) = x + y
<1>1. x \in Int /\ y \in Int /\ 0 <= x /\ 0 <= y /\ x <= 65535 /\ y <= 65535
  BY WordBounds
<1>2. /\ x % 256 \in 0 .. 255 /\ x \div 256 \in 0 .. 255
      /\ y % 256 \in 0 .. 255 /\ y \div 256 \in 0 .. 255
  BY <1>1, Halves
<1>3. \/ x % 256 = 0 \/ y % 256 = 0
      \/ x % 256 < 32 /\ (y % 256) % 32 = 0
      \/ x % 256 < 64 /\ (y % 256) % 64 = 0
  BY <1>1
<1>4. \/ x \div 256 = 0 \/ y \div 256 = 0
      \/ x \div 256 < 2 /\ (y \div 256) % 2 = 0
      \/ x \div 256 < 8 /\ (y \div 256) % 8 = 0
      \/ x \div 256 < 16 /\ (y \div 256) % 16 = 0
  BY <1>1
<1>5. And8(x % 256, y % 256) = 0 /\ And8(x \div 256, y \div 256) = 0
  BY <1>2, <1>3, <1>4, And8Disjoint
<1> QED
  BY <1>1, <1>5 DEF BitOr, BitAnd

(* x | (y << n) for fields that do not overlap. *)
LEMMA WithDisjoint ==
  ASSUME NEW x \in Word, NEW y \in Int, 0 <= y,
         NEW factor \in {32, 64, 512, 4096}, y * factor \in Word,
         \/ y = 0 \/ x < factor
         \/ factor = 512 /\ x < 2048 /\ y = 4
  PROVE  With(x, y, factor) = x + y * factor
<1>1. x \in Int /\ 0 <= x
  BY WordBounds
<1>2. With(x, y, factor) = BitOr(x, y * factor)
  BY <1>1 DEF With
<1>3. CASE y = 0
  <2>1. y * factor = 0
    BY <1>3
  <2> QED
    BY <1>2, <2>1, BitOrDisjoint
<1>4. CASE x < factor
  <2>1. (y * 32) % 32 = 0 /\ (y * 64) % 64 = 0
        /\ (y * 512) % 512 = 0 /\ (y * 4096) % 4096 = 0
    OBVIOUS
  <2> QED
    BY <1>2, <1>4, <2>1, BitOrDisjoint
<1>5. CASE factor = 512 /\ x < 2048 /\ y = 4
  <2>1. (y * factor) % 2048 = 0
    BY <1>5
  <2> QED
    BY <1>2, <1>5, <2>1, BitOrDisjoint
<1> QED
  BY <1>3, <1>4, <1>5

(* An instruction is the sum of its fields. *)
LEMMA InstructionValue ==
  ASSUME NEW opcode \in Int, NEW high \in Int, NEW middle \in Int, NEW low \in Int,
         0 <= opcode, opcode <= 15, 0 <= high, high <= 7,
         0 <= middle, middle <= 7, 0 <= low, low < 2048,
         \/ low < 64
         \/ low < 512 /\ middle = 0
         \/ middle = 0 /\ high \in {0, 4}
  PROVE  Instruction(opcode, high, middle, low)
           = opcode * 4096 + high * 512 + middle * 64 + low
<1>1. low \in Word /\ middle * 64 \in Word /\ high * 512 \in Word
      /\ opcode * 4096 \in Word
  BY BoundedIsWord
<1>2. With(low, middle, 64) = low + middle * 64
  BY <1>1, WithDisjoint
<1>3. low + middle * 64 \in Word /\ low + middle * 64 < 2048
      /\ (high = 0 \/ high = 4 \/ low + middle * 64 < 512)
  BY BoundedIsWord
<1>4. With(low + middle * 64, high, 512) = low + middle * 64 + high * 512
  BY <1>1, <1>3, WithDisjoint
<1>5. low + middle * 64 + high * 512 \in Word
      /\ low + middle * 64 + high * 512 < 4096
  BY BoundedIsWord
<1>6. With(low + middle * 64 + high * 512, opcode, 4096)
        = low + middle * 64 + high * 512 + opcode * 4096
  BY <1>1, <1>5, WithDisjoint
<1> QED
  BY <1>2, <1>4, <1>6 DEF Instruction

(* What the assembler makes of the parts of an instruction, put together. *)
LEMMA SmallInstruction ==
  ASSUME NEW o, NEW h, NEW m, NEW l,
         o \in Int, h \in Int, m \in Int, l \in Int, 0 <= o, o <= 15, 0 <= h, h <= 7, 0 <= m, m <= 7, 0 <= l,
         \/ l < 64
         \/ m = 0 /\ l < 512
         \/ m = 0 /\ (h = 0 \/ h = 4) /\ l < 2048
  PROVE  Instruction(o, h, m, l) = o * 4096 + h * 512 + m * 64 + l
<1>1. l < 2048
  OBVIOUS
<1> QED
  BY <1>1, InstructionValue

(* The encoder of each name. *)
LEMMA EncoderOf ==
  ASSUME NEW line, NEW table, NEW address, NEW name, name = line.operation
  PROVE  /\ name \in {"ADD", "AND"} =>
              Encode(line, table, address) = EncodeArithmetic(line, Opcodes[name])
         /\ name = "NOT" => Encode(line, table, address) = EncodeNot(line)
         /\ name = "BR" =>
              Encode(line, table, address) = EncodeBr(line, table, address)
         /\ name \in {"JMP", "RET"} => Encode(line, table, address) = EncodeJmp(line)
         /\ name \in {"JSR", "JSRR"} =>
              Encode(line, table, address) = EncodeJsr(line, table, address)
         /\ name \in {"LD", "LDI", "LEA", "ST", "STI"} =>
              Encode(line, table, address)
                = EncodePcRelative(line, Opcodes[name], table, address)
         /\ name \in {"LDR", "STR"} =>
              Encode(line, table, address) = EncodeBaseOffset(line, Opcodes[name])
         /\ name = "TRAP" => Encode(line, table, address) = EncodeTrap(line)
         /\ name = "RTI" => Encode(line, table, address) = OP_RTI * 4096
         /\ name \in TrapNames =>
              Encode(line, table, address) = Instruction(OP_TRAP, 0, 0, TrapCode(name))
  BY DEF Encode, TrapNames

LEMMA OneWord ==
  ASSUME NEW line, NEW table, NEW address,
         line.operation \notin {NULL, ".ORIG", ".END", ".FILL", ".BLKW", ".STRINGZ"}
  PROVE  MachineCodes(line, table, address) = <<Encode(line, table, address)>>
  BY DEF MachineCodes

-----------------------------------------------------------------------------
(* When an encoder succeeds: each of its parts does. *)

LEMMA WithSucceeds ==
  ASSUME NEW x \in Results, NEW y \in Int, NEW factor \in Int,
         y >= 0 => y * factor \in Word
  PROVE  With(x, y, factor) >= 0 <=> x >= 0 /\ y >= 0
<1>1. x \in Int /\ (x >= 0 => x \in Word)
  BY ResultSign
<1>2. CASE x < 0 \/ y < 0
  <2>1. Worse(x, y) < 0 /\ Worse(x, y) \in Int
    BY <1>1, <1>2 DEF Worse
  <2>2. With(x, y, factor) = Worse(x, y)
    BY <1>2 DEF With
  <2>3. ~(x >= 0 /\ y >= 0)
    BY <1>1, <1>2
  <2>4. ~(Worse(x, y) >= 0)
    BY <2>1
  <2> QED
    BY <2>2, <2>3, <2>4
<1>3. CASE x >= 0 /\ y >= 0
  <2>1. BitOr(x, y * factor) \in Word
    BY <1>1, <1>3, BitOrType
  <2>2. BitOr(x, y * factor) >= 0
    BY <2>1, WordBounds
  <2>3. ~(x < 0 \/ y < 0)
    BY <1>1, <1>3
  <2> QED
    BY <1>3, <2>2, <2>3 DEF With
<1> QED
  BY <1>1, <1>2, <1>3

LEMMA InstructionSucceeds ==
  ASSUME NEW opcode \in 0 .. 15, NEW high \in {Crash} \cup 0 .. 9,
         NEW middle \in {Crash} \cup 0 .. 9, NEW low \in Results
  PROVE  Instruction(opcode, high, middle, low) >= 0
           <=> high >= 0 /\ middle >= 0 /\ low >= 0
<1>1. ASSUME NEW n \in {Crash} \cup 0 .. 9
      PROVE  /\ n \in Int /\ (n < 0 => n \in Failures)
             /\ n >= 0 => n * 64 \in Word /\ n * 512 \in Word
  <2>1. CASE n = Crash
    BY <2>1 DEF Crash, Failures
  <2>2. CASE n \in 0 .. 9
    BY <2>2, BoundedIsWord
  <2> QED
    BY <2>1, <2>2
<1>2. opcode \in Int /\ opcode >= 0 /\ opcode * 4096 \in Word
  BY BoundedIsWord
<1> DEFINE two == With(low, middle, 64)
           three == With(two, high, 512)
<1>3. two \in Results /\ (two >= 0 <=> low >= 0 /\ middle >= 0)
  BY <1>1, WithType, WithSucceeds
<1> HIDE DEF two
<1>4. three \in Results /\ (three >= 0 <=> two >= 0 /\ high >= 0)
  BY <1>1, <1>3, WithType, WithSucceeds
<1> HIDE DEF three
<1>5. With(three, opcode, 4096) >= 0 <=> three >= 0 /\ opcode >= 0
  BY <1>2, <1>4, WithSucceeds
<1> QED
  BY <1>2, <1>3, <1>4, <1>5 DEF Instruction, two, three

\* value fits a signed field.
Within(value, span) == value \in -(span \div 2) .. span \div 2 - 1

LEMMA ImmediateSucceeds ==
  ASSUME NEW value \in Int, NEW span \in {32, 64, 512, 2048}
  PROVE  /\ ImmediateBits(value, span) \in Results
         /\ ImmediateBits(value, span) >= 0
              <=> Within(value, span)
<1>1. value % span \in Int /\ 0 <= value % span /\ 0 < span /\ span <= 2048
      /\ span \in Int
  OBVIOUS
<1>2. ImmediateBits(value, span) \in Results
  BY <1>1, ImmediateBitsResult
<1> QED
  BY <1>1, <1>2 DEF ImmediateBits, Within, Error

(* An offset fits its field, or fails. *)
LEMMA PcOffsetSucceeds ==
  ASSUME NEW table \in Seq(Symbols), NEW operand, NEW at \in Word,
         NEW span \in {512, 2048}
  PROVE  /\ PcOffset(table, operand, at, span) \in Results
         /\ PcOffset(table, operand, at, span) >= 0
              <=> /\ SymbolOf(table, operand) >= 0
                  /\ Within(SymbolOf(table, operand) - (at + 1), span)
<1> DEFINE target == SymbolOf(table, operand)
<1>1. target \in Results /\ target \in Int
  BY SymbolOfType, ResultSign
<1>2. at \in Int
  BY WordBounds
<1> HIDE DEF target
<1>3. target - (at + 1) \in Int
  BY <1>1, <1>2
<1>4. span \in {32, 64, 512, 2048}
  OBVIOUS
<1>5. /\ ImmediateBits(target - (at + 1), span) \in Results
      /\ ImmediateBits(target - (at + 1), span) >= 0
           <=> Within(target - (at + 1), span)
  BY <1>3, <1>4, ImmediateSucceeds
<1>6. CASE target < 0
  <2>1. ~(target >= 0)
    BY <1>1, <1>6
  <2>2. PcOffset(table, operand, at, span) = target
    BY <1>6 DEF PcOffset, target
  <2> QED
    BY <1>1, <2>1, <2>2 DEF target
<1>7. CASE ~(target < 0)
  <2>1. target >= 0
    BY <1>1, <1>7
  <2>2. PcOffset(table, operand, at, span)
          = ImmediateBits(target - (at + 1), span)
    BY <1>7 DEF PcOffset, target
  <2> QED
    BY <1>5, <2>1, <2>2 DEF target
<1> QED
  BY <1>6, <1>7

-----------------------------------------------------------------------------
(* What the machine reads in an instruction it was put together from.       *)

\* The fields of a word, one by one.
FieldsAre(word, opcode, high, low) ==
  /\ word \in Word
  /\ Opcode(word) = opcode /\ FieldDR(word) = high
  /\ FieldSR1(word) = low \div 64 /\ FieldSR2(word) = low % 8
  /\ word % 512 = low /\ word % 64 = low % 64 /\ word % 32 = low % 32
  /\ word % 4096 = high * 512 + low
  /\ ImmediateMode(word) <=> (low \div 32) % 2 = 1
  /\ OffsetMode(word) <=> high >= 4

LEMMA FieldsBack ==
  ASSUME NEW opcode \in Int, NEW high \in Int, NEW low \in Int,
         0 <= opcode, opcode <= 15, 0 <= high, high <= 7, 0 <= low, low < 512,
         NEW word, word = opcode * 4096 + high * 512 + low
  PROVE  FieldsAre(word, opcode, high, low)
<1>1. word \in Int /\ 0 <= word /\ word <= 65535
  OBVIOUS
<1>2. word \in Word
  BY <1>1, BoundedIsWord
<1>3. Opcode(word) = opcode
  BY DEF Opcode
<1>4. FieldDR(word) = high
  <2>1. word \div 512 = opcode * 8 + high
    OBVIOUS
  <2> QED
    BY <2>1 DEF FieldDR
<1>5. FieldSR1(word) = low \div 64
  <2>1. word \div 64 = (opcode * 8 + high) * 8 + low \div 64
    OBVIOUS
  <2>2. 0 <= low \div 64 /\ low \div 64 <= 7
    OBVIOUS
  <2> QED
    BY <2>1, <2>2 DEF FieldSR1
<1>6. FieldSR2(word) = low % 8
  BY DEF FieldSR2
<1>7. /\ word % 512 = low /\ word % 64 = low % 64 /\ word % 32 = low % 32
  OBVIOUS
<1>8. word % 4096 = high * 512 + low
  OBVIOUS
<1>9. ImmediateMode(word) <=> (low \div 32) % 2 = 1
  <2>1. word \div 32 = (opcode * 128 + high * 16) + low \div 32
    OBVIOUS
  <2>2. ((opcode * 128 + high * 16) + low \div 32) % 2 = (low \div 32) % 2
    OBVIOUS
  <2> QED
    BY <2>1, <2>2 DEF ImmediateMode
<1>10. OffsetMode(word) <=> high >= 4
  <2>1. word \div 2048 = opcode * 2 + (IF high >= 4 THEN 1 ELSE 0)
    OBVIOUS
  <2> QED
    BY <2>1 DEF OffsetMode
<1> QED
  BY <1>2, <1>3, <1>4, <1>5, <1>6, <1>7, <1>8, <1>9, <1>10 DEF FieldsAre

(* Three registers, or two and six bits. *)
ShortFieldsAre(word, opcode, high, middle, low) ==
  /\ word \in Word /\ Opcode(word) = opcode
  /\ FieldDR(word) = high /\ FieldSR1(word) = middle
  /\ FieldSR2(word) = low % 8
  /\ word % 64 = low /\ word % 32 = low % 32
  /\ ImmediateMode(word) <=> low >= 32
  /\ OffsetMode(word) <=> high >= 4

LEMMA ShortReadsBack ==
  ASSUME NEW opcode \in Int, NEW high \in Int, NEW middle \in Int,
         NEW low \in Int, 0 <= opcode, opcode <= 15, 0 <= high, high <= 7,
         0 <= middle, middle <= 7, 0 <= low, low < 64,
         NEW word, word = Instruction(opcode, high, middle, low)
  PROVE  ShortFieldsAre(word, opcode, high, middle, low)
<1> DEFINE r == middle * 64 + low
<1>1. /\ r \in Int /\ 0 <= r /\ r < 512 /\ r \div 64 = middle /\ r % 8 = low % 8
      /\ r % 64 = low /\ r % 32 = low % 32
      /\ (r \div 32) % 2 = 1 <=> low >= 32
  <2>1. r \div 32 = middle * 2 + (IF low >= 32 THEN 1 ELSE 0)
    OBVIOUS
  <2> QED
    BY <2>1
<1>2. word = opcode * 4096 + high * 512 + r
  <2>1. word = opcode * 4096 + high * 512 + middle * 64 + low
    BY SmallInstruction
  <2> QED
    BY <2>1
<1> HIDE DEF r
<1>3. FieldsAre(word, opcode, high, r)
  <2>1. word \in Int
    BY <1>1, <1>2
  <2> QED
    BY <1>1, <1>2, <2>1, FieldsBack
<1> QED
  BY <1>1, <1>3 DEF FieldsAre, ShortFieldsAre

(* One register, or the condition bits, and nine bits. *)
LongFieldsAre(word, opcode, high, low) ==
  /\ word \in Word /\ Opcode(word) = opcode /\ FieldDR(word) = high
  /\ word % 512 = low /\ word % 4096 = high * 512 + low

LEMMA LongReadsBack ==
  ASSUME NEW opcode \in Int, NEW high \in Int, NEW low \in Int,
         0 <= opcode, opcode <= 15, 0 <= high, high <= 7, 0 <= low, low < 512,
         NEW word, word = Instruction(opcode, high, 0, low)
  PROVE  LongFieldsAre(word, opcode, high, low)
<1>1. word = opcode * 4096 + high * 512 + low
  <2>1. word = opcode * 4096 + high * 512 + 0 * 64 + low
    BY SmallInstruction
  <2> QED
    BY <2>1
<1>2. FieldsAre(word, opcode, high, low)
  BY <1>1, FieldsBack
<1> QED
  BY <1>2 DEF FieldsAre, LongFieldsAre

(* Bit 11 and eleven bits. *)
LEMMA FarReadsBack ==
  ASSUME NEW opcode \in Int, 0 <= opcode, opcode <= 15,
         NEW low \in Int, 0 <= low, low < 2048,
         NEW word, word = Instruction(opcode, 4, 0, low)
  PROVE  /\ word \in Word /\ Opcode(word) = opcode
         /\ OffsetMode(word) /\ word % 2048 = low
<1>1. word = opcode * 4096 + 4 * 512 + 0 * 64 + low
  BY SmallInstruction
<1>2. /\ word \in Int /\ 0 <= word /\ word <= 65535
      /\ word \div 4096 = opcode /\ word \div 2048 = opcode * 2 + 1
      /\ word % 2048 = low
  BY <1>1
<1>3. (opcode * 2 + 1) % 2 = 1
  OBVIOUS
<1> QED
  BY <1>2, <1>3, BoundedIsWord DEF Opcode, OffsetMode

\* The offset in the bits leads from the word behind at to the target.
Leads(bits, span, at, target) ==
  /\ bits \in Int /\ 0 <= bits /\ bits < span
  /\ Wrap(at + 1 + SignExtend(bits, span)) = target

LEMMA OffsetLeads ==
  ASSUME NEW target \in Word, NEW at \in Word, NEW span \in {512, 2048},
         NEW bits, bits = ImmediateBits(target - (at + 1), span), bits # Error
  PROVE  Leads(bits, span, at, target)
<1>1. /\ target \in Int /\ 0 <= target /\ target <= 65535
      /\ at \in Int /\ 0 <= at
  BY WordBounds
<1> DEFINE distance == target - (at + 1)
           word == SignExtend(bits, span)
<1>2. distance \in Int /\ span \in {32, 64, 512, 2048}
  BY <1>1
<1>3. bits \in 0 .. span - 1 /\ Signed(word) = distance
  <2> HIDE DEF distance
  <2>1. bits = ImmediateBits(distance, span)
    BY DEF distance
  <2>2. ImmediateBits(distance, span) # Error
    BY <2>1
  <2>3. Recovers(ImmediateBits(distance, span), span, distance)
    BY <1>2, <2>2, ImmediateField
  <2> QED
    BY <2>1, <2>3 DEF Recovers
<1>4. bits \in Word
  BY <1>3, BoundedIsWord
<1>5. word \in Int
  BY <1>4, WordBounds DEF SignExtend, WORD_MAX
<1> HIDE DEF word
<1>6. word = distance \/ word = distance + 65536
  BY <1>3, <1>5, <1>2 DEF Signed, WORD_MAX
<1>7. at + 1 + word = target \/ at + 1 + word = target + 65536
  BY <1>1, <1>5, <1>6
<1>8. (at + 1 + word) % 65536 = target
  BY <1>1, <1>7
<1>9. bits \in Int /\ 0 <= bits /\ bits < span
  BY <1>3
<1> QED
  BY <1>8, <1>9 DEF Wrap, WORD_MAX, word, Leads

(* The machine adds the sign-extended offset to the incremented counter and
   is back at the target. *)
THEOREM OffsetReadsBack ==
  ASSUME NEW target \in Word, NEW at \in Word, NEW span \in {512, 2048},
         NEW bits, bits = ImmediateBits(target - (at + 1), span), bits # Error
  PROVE  /\ bits \in Int /\ 0 <= bits /\ bits < span
         /\ Wrap(at + 1 + SignExtend(bits, span)) = target
<1>1. Leads(bits, span, at, target)
  BY OffsetLeads
<1> QED
  BY <1>1 DEF Leads
=============================================================================
