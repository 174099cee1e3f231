---------------------------- MODULE LC3Decoding ----------------------------
(***************************************************************************)
(* What one word becomes in a listing: the decoders of                     *)
(* disassembler/operation.c, the mirror of the assembler's encoders, and   *)
(* the line disassembler.c prints for it.                                  *)
(*                                                                         *)
(* A decoder fills in a DisassemblyInstruction.  Its operands are the      *)
(* lexemes that stand between the commas; the name of a BR is kept as the  *)
(* operation and its condition letters.                                    *)
(***************************************************************************)
EXTENDS LC3Text, SequencesExt

\* The line of a word before it is decoded.
Undecoded(word, address) ==
  [word |-> word, address |-> address, label |-> NoLabel,
   operation |-> NULL, conditions |-> {}, operands |-> <<>>,
   has_target |-> FALSE, target |-> 0, reference_label |-> NoLabel]

\* make_data
Data(line) ==
  [line EXCEPT !.operation = ".FILL", !.conditions = {},
               !.operands = <<Hexadecimal("x", Hex4(line.word))>>,
               !.has_target = FALSE]

Decoded(line, name, operands) ==
  [line EXCEPT !.operation = name, !.operands = operands]

-----------------------------------------------------------------------------
(* Decoding helpers; span = 2^bits. *)

SignedField(word, span) == Signed(SignExtend(word % span, span))

WithTarget(line, span) ==
  [line EXCEPT !.has_target = TRUE,
               !.target = Wrap(line.address + 1 + SignedField(line.word, span))]

NameOf(line) == OperationName(Opcode(line.word))
FirstRegister(line) == RegisterLexeme(FieldDR(line.word))
SecondRegister(line) == RegisterLexeme(FieldSR1(line.word))

-----------------------------------------------------------------------------
(* The operations.  A word that its own mnemonic would not give back is    *)
(* data.                                                                   *)

\* A plausible slip: bits 4 and 3 of the register form are not looked at.
DecodeArithmeticMutant(line) ==
  Decoded(line, NameOf(line),
          <<FirstRegister(line), SecondRegister(line),
            IF ImmediateMode(line.word)
            THEN Decimal(SignedField(line.word, 32))
            ELSE RegisterLexeme(FieldSR2(line.word))>>)

DecodeArithmetic(line) ==
  LET registers == <<FirstRegister(line), SecondRegister(line)>>
  IN  IF ImmediateMode(line.word)
      THEN Decoded(line, NameOf(line),
                   Append(registers, Decimal(SignedField(line.word, 32))))
      ELSE IF (line.word \div 8) % 4 # 0 THEN Data(line)
      ELSE Decoded(line, NameOf(line),
                   Append(registers, RegisterLexeme(FieldSR2(line.word))))

DecodeNot(line) ==
  IF line.word % 64 # 63 THEN Data(line)
  ELSE Decoded(line, NameOf(line), <<FirstRegister(line), SecondRegister(line)>>)

\* A plausible slip: BR without a condition is taken for a bare BR.
DecodeBrMutant(line) ==
  LET nzp == FieldDR(line.word)
  IN  WithTarget([Decoded(line, NameOf(line), <<>>) EXCEPT
                    !.conditions = {c \in {"N", "Z", "P"} :
                                      BitAnd(nzp, BranchMask({c})) # 0}], 512)

DecodeBr(line) ==
  LET nzp == FieldDR(line.word)
  IN  IF nzp = 0 THEN Data(line)
      ELSE WithTarget([Decoded(line, NameOf(line), <<>>) EXCEPT
                         !.conditions = {c \in {"N", "Z", "P"} :
                                           BitAnd(nzp, BranchMask({c})) # 0}],
                      512)

DecodeJmp(line) ==
  IF FieldDR(line.word) # 0 \/ line.word % 64 # 0 THEN Data(line)
  ELSE IF FieldSR1(line.word) = R7 THEN Decoded(line, "RET", <<>>)
  ELSE Decoded(line, NameOf(line), <<SecondRegister(line)>>)

DecodeJsr(line) ==
  IF OffsetMode(line.word)
  THEN WithTarget(Decoded(line, NameOf(line), <<>>), 2048)
  ELSE IF FieldDR(line.word) # 0 \/ line.word % 64 # 0 THEN Data(line)
  ELSE Decoded(line, "JSRR", <<SecondRegister(line)>>)

DecodePcRelative(line) ==
  WithTarget(Decoded(line, NameOf(line), <<FirstRegister(line)>>), 512)

DecodeBaseOffset(line) ==
  Decoded(line, NameOf(line),
          <<FirstRegister(line), SecondRegister(line),
            Decimal(SignedField(line.word, 64))>>)

DecodeTrap(line) ==
  LET vector == line.word % 256
  IN  IF (line.word \div 256) % 16 # 0 THEN Data(line)
      ELSE IF vector \in Traps THEN Decoded(line, TrapName(vector), <<>>)
      ELSE Decoded(line, NameOf(line), <<Hexadecimal("x", Hex2(vector))>>)

DecodeRti(line) ==
  IF line.word % 4096 # 0 THEN Data(line) ELSE Decoded(line, NameOf(line), <<>>)

\* disassembly_operation_by_code: RES has no decoder.
Decode(line) ==
  LET code == Opcode(line.word) IN
  CASE code \in {OP_ADD, OP_AND} -> DecodeArithmetic(line)
    [] code = OP_NOT -> DecodeNot(line)
    [] code = OP_BR -> DecodeBr(line)
    [] code = OP_JMP -> DecodeJmp(line)
    [] code = OP_JSR -> DecodeJsr(line)
    [] code \in {OP_LD, OP_LDI, OP_LEA, OP_ST, OP_STI} -> DecodePcRelative(line)
    [] code \in {OP_LDR, OP_STR} -> DecodeBaseOffset(line)
    [] code = OP_TRAP -> DecodeTrap(line)
    [] code = OP_RTI -> DecodeRti(line)
    [] code = OP_RES -> Data(line)

-----------------------------------------------------------------------------
(* Labels and text. *)

\* "L_%04X"
Mint(address) == <<Hexadecimal("L_", Hex4(address))>>

\* A null pointer is no label.
ASSUME MintAssumption == \A address \in Word : Mint(address) # NoLabel

LabelText(label) == IF label = NoLabel THEN <<>> ELSE label

\* The operands with the label of a PC-relative one behind them.
PrintedOperands(line) ==
  [n \in DOMAIN line.operands |-> <<line.operands[n]>>]
    \o (IF line.has_target THEN <<LabelText(line.reference_label)>> ELSE <<>>)

\* The names of a BR, with the letters of the conditions it tests.
BranchNames ==
  [BR |-> {}, BRn |-> {"N"}, BRz |-> {"Z"}, BRp |-> {"P"},
   BRnz |-> {"N", "Z"}, BRnp |-> {"N", "P"}, BRzp |-> {"Z", "P"},
   BRnzp |-> {"N", "Z", "P"}]

Mnemonic(line) ==
  Name(IF line.operation # "BR" THEN line.operation
       ELSE CHOOSE name \in DOMAIN BranchNames :
              BranchNames[name] = line.conditions)

\* disassembly_instruction_body
Body(line) ==
  LET operands == PrintedOperands(line)
  IN  <<Mnemonic(line)>> \o FlattenSeq(
        [n \in DOMAIN operands |->
           (IF n = 1 THEN <<Blank>> ELSE <<Comma, Blank>>) \o operands[n]])

\* One line of disassembly_render.
ListingLine(line) ==
  LabelText(line.label) \o <<Blank>> \o Body(line)

-----------------------------------------------------------------------------
(* What the assembler makes of a printed line, its operands read back.     *)

Reread(line) ==
  [label |-> line.label, operation |-> line.operation,
   conditions |-> line.conditions,
   operands |-> [n \in DOMAIN PrintedOperands(line) |->
                   BuildOperand(PrintedOperands(line)[n])]]
=============================================================================
