---------------------------- MODULE LC3Encoding -----------------------------
(***************************************************************************)
(* What one line of assembly becomes: the encoders of the operations       *)
(* (assembler/operation.c) and the sizes and encoders of the directives    *)
(* (assembler/directive.c).                                                *)
(*                                                                         *)
(* A line is what parse_assembly_line returns, with its names in upper     *)
(* case.  An encoder's result is a word or the way it failed: Error clears *)
(* *ok, Crash is a failed assertion or a null pointer, and Undefined reads *)
(* a pointer that no one has set, which may come to either.                *)
(***************************************************************************)
EXTENDS LC3Core, Sequences

CONSTANTS
  Labels,    \* the names a source may use as labels
  NoLabel    \* a null label pointer

NULL == "NULL"        \* no operation name
NoRegister == -1      \* a null register pointer

ASSUME LabelsAssumption == NoLabel \notin Labels

Error == -1
Undefined == -2
Crash == -3

-----------------------------------------------------------------------------
(* Lines and operands (assembler.h).  An operand is a tagged union: the    *)
(* field integer is what as.integer reads as, whatever the tag says.  A    *)
(* string is the operand of a .STRINGZ, and no other kind ever is.         *)

Register(code, bits) ==
  [type |-> "register", register |-> code, integer |-> bits,
   label |-> NoLabel, string |-> <<>>]
Integer(n) ==
  [type |-> "integer", register |-> NoRegister, integer |-> n,
   label |-> NoLabel, string |-> <<>>]
Label(name, bits) ==
  [type |-> "label", register |-> NoRegister, integer |-> bits,
   label |-> name, string |-> <<>>]
String(text) ==
  [type |-> "string", register |-> NoRegister, integer |-> 0,
   label |-> NoLabel, string |-> text]

\* What calloc leaves of an operand that was not written.
Missing == Register(NoRegister, 0)

\* What parse_assembly_line can return: the tag says which field was set.
Operands ==
  {operand \in [type : {"register", "integer", "label", "string"},
                register : RegisterCodes \cup {NoRegister}, integer : Int,
                label : Labels \cup {NoLabel}, string : Seq(Byte)] :
     /\ operand.type = "register" <=> operand.register # NoRegister
     /\ operand.type = "label" <=> operand.label # NoLabel
     /\ operand.type # "string" => operand.string = <<>>}
Lines ==
  [label : Labels \cup {NoLabel}, operation : STRING,
   conditions : SUBSET {"N", "Z", "P"}, operands : Seq(Operands)]

Operand(line, n) ==
  IF n <= Len(line.operands) THEN line.operands[n] ELSE Missing

-----------------------------------------------------------------------------
(* The symbol table: an array searched from its start.                     *)

Rows(table, label) == {i \in DOMAIN table : table[i].label = label}

\* A plausible slip: a search from the end, where the last definition wins.
AddressOfMutant(table, label) ==
  table[CHOOSE i \in Rows(table, label) :
          \A j \in Rows(table, label) : j <= i].address

AddressOf(table, label) ==
  table[CHOOSE i \in Rows(table, label) :
          \A j \in Rows(table, label) : i <= j].address

\* symbol_table_get with an operand's as.label, whatever the tag says: a
\* register's record never spells a label.  The search compares it with the
\* names in the table; the message for a label that is not found prints it,
\* where an integer is no pointer either and a null pointer is "(null)".
SymbolOf(table, operand) ==
  CASE operand.type = "integer" -> Undefined
    [] operand = Missing /\ table # <<>> -> Crash
    [] OTHER -> IF Rows(table, operand.label) # {}
                THEN AddressOf(table, operand.label) ELSE Error

-----------------------------------------------------------------------------
(* Encoding helpers; span = 2^bits. *)

RegisterCode(operand) ==
  IF operand.register # NoRegister THEN operand.register ELSE Crash

\* A plausible slip: the bounds of an unsigned field.
ImmediateBitsMutant(value, span) ==
  IF value \in -span .. span - 1 THEN value % span ELSE Error

\* A plausible slip: the largest value is refused.
ImmediateBitsStrict(value, span) ==
  IF value \in -(span \div 2) .. span \div 2 - 2 THEN value % span ELSE Error

ImmediateBits(value, span) ==
  IF value \in -(span \div 2) .. span \div 2 - 1 THEN value % span ELSE Error

PcOffset(table, operand, address, span) ==
  LET target == SymbolOf(table, operand)
  IN  IF target < 0 THEN target
      ELSE ImmediateBits(target - (address + 1), span)

\* The worse of two results.
Worse(x, y) == IF x <= y THEN x ELSE y

\* x | (y << n), with factor = 2^n.
With(x, y, factor) ==
  IF x < 0 \/ y < 0 THEN Worse(x, y) ELSE BitOr(x, y * factor)

\* (opcode << 12) | (high << 9) | (middle << 6) | low
Instruction(opcode, high, middle, low) ==
  With(With(With(low, middle, 64), high, 512), opcode, 4096)

-----------------------------------------------------------------------------
(* The operations. *)

\* The condition letters behind BR: the set they make up, all for none.
BranchMask(letters) ==
  IF letters = {} THEN 7
  ELSE (IF "N" \in letters THEN CONDITION_FLAG_NEGATIVE ELSE 0)
       + (IF "Z" \in letters THEN CONDITION_FLAG_ZERO ELSE 0)
       + (IF "P" \in letters THEN CONDITION_FLAG_POSITIVE ELSE 0)

\* Bit 5 and the immediate, or the second source register.
SecondSource(operand) ==
  IF operand.type = "register" THEN RegisterCode(operand)
  ELSE With(ImmediateBits(operand.integer, 32), 1, 32)

EncodeArithmetic(line, opcode) ==
  Instruction(opcode, RegisterCode(Operand(line, 1)),
              RegisterCode(Operand(line, 2)), SecondSource(Operand(line, 3)))

EncodeNot(line) ==
  Instruction(OP_NOT, RegisterCode(Operand(line, 1)),
              RegisterCode(Operand(line, 2)), 63)

EncodeBr(line, table, address) ==
  Instruction(OP_BR, BranchMask(line.conditions), 0,
              PcOffset(table, Operand(line, 1), address, 512))

\* JMP BaseR; RET, and JMP without an operand, go through R7.
EncodeJmp(line) ==
  Instruction(OP_JMP, 0, IF Len(line.operands) = 0 THEN R7
                         ELSE RegisterCode(Operand(line, 1)), 0)

\* JSR and JSRR: the operand decides, not the name.
EncodeJsr(line, table, address) ==
  IF Operand(line, 1).type = "register"
  THEN Instruction(OP_JSR, 0, RegisterCode(Operand(line, 1)), 0)
  ELSE Instruction(OP_JSR, 4, 0,
                   PcOffset(table, Operand(line, 1), address, 2048))

EncodePcRelative(line, opcode, table, address) ==
  Instruction(opcode, RegisterCode(Operand(line, 1)), 0,
              PcOffset(table, Operand(line, 2), address, 512))

EncodeBaseOffset(line, opcode) ==
  Instruction(opcode, RegisterCode(Operand(line, 1)),
              RegisterCode(Operand(line, 2)),
              ImmediateBits(Operand(line, 3).integer, 64))

EncodeTrap(line) ==
  LET vector == Operand(line, 1).integer
  IN  Instruction(OP_TRAP, 0, 0, IF vector \in 0 .. 255 THEN vector ELSE Error)

Opcodes ==
  [ADD |-> OP_ADD, AND |-> OP_AND, NOT |-> OP_NOT, BR |-> OP_BR,
   JMP |-> OP_JMP, RET |-> OP_JMP, JSR |-> OP_JSR, JSRR |-> OP_JSR,
   LD |-> OP_LD, LDI |-> OP_LDI, LEA |-> OP_LEA, ST |-> OP_ST,
   STI |-> OP_STI, LDR |-> OP_LDR, STR |-> OP_STR, TRAP |-> OP_TRAP,
   RTI |-> OP_RTI]

TrapNames == {"GETC", "OUT", "PUTS", "IN", "PUTSP", "HALT"}
TrapCode(name) ==
  CASE name = "GETC" -> TRAP_GETC [] name = "OUT" -> TRAP_OUT
    [] name = "PUTS" -> TRAP_PUTS [] name = "IN" -> TRAP_IN
    [] name = "PUTSP" -> TRAP_PUTSP [] name = "HALT" -> TRAP_HALT

\* The word of a line that is not a directive.
Encode(line, table, address) ==
  LET name == line.operation IN
  CASE name \in {"ADD", "AND"} -> EncodeArithmetic(line, Opcodes[name])
    [] name = "NOT" -> EncodeNot(line)
    [] name = "BR" -> EncodeBr(line, table, address)
    [] name \in {"JMP", "RET"} -> EncodeJmp(line)
    [] name \in {"JSR", "JSRR"} -> EncodeJsr(line, table, address)
    [] name \in {"LD", "LDI", "LEA", "ST", "STI"} ->
         EncodePcRelative(line, Opcodes[name], table, address)
    [] name \in {"LDR", "STR"} -> EncodeBaseOffset(line, Opcodes[name])
    [] name = "TRAP" -> EncodeTrap(line)
    [] name = "RTI" -> OP_RTI * 4096
    [] name \in TrapNames -> Instruction(OP_TRAP, 0, 0, TrapCode(name))
    [] OTHER -> Error

-----------------------------------------------------------------------------
(* The directives. *)

Directives == {".ORIG", ".END", ".FILL", ".BLKW", ".STRINGZ"}

\* A plausible slip: the word that ends a string is not counted.
SizeMutant(line) ==
  CASE line.operation \in {NULL, ".ORIG", ".END"} -> 0
    [] line.operation = ".BLKW" -> Operand(line, 1).integer
    [] line.operation = ".STRINGZ" -> Len(Operand(line, 1).string)
    [] OTHER -> 1

\* How many words the line occupies, as pass 1 counts them.
Size(line) ==
  CASE line.operation \in {NULL, ".ORIG", ".END"} -> 0
    [] line.operation = ".BLKW" -> Operand(line, 1).integer
    [] line.operation = ".STRINGZ" ->
         IF Len(line.operands) = 0 THEN 0
         ELSE Len(Operand(line, 1).string) + 1
    [] OTHER -> 1

\* The word of a .FILL: a label's address, or what as.integer holds.
FillValue(line, table) ==
  LET operand == Operand(line, 1)
  IN  IF operand.type = "label" THEN SymbolOf(table, operand)
      ELSE Wrap(operand.integer)

\* The words, or failures in their place, that pass 2 puts on a line.
MachineCodes(line, table, address) ==
  CASE line.operation \in {NULL, ".ORIG", ".END"} -> <<>>
    [] line.operation = ".FILL" -> <<FillValue(line, table)>>
    [] line.operation = ".BLKW" ->
         [i \in 1 .. Operand(line, 1).integer |-> 0]
    [] line.operation = ".STRINGZ" ->
         IF Len(line.operands) = 0 THEN <<Crash>>
         ELSE Append(Operand(line, 1).string, 0)
    [] OTHER -> <<Encode(line, table, address)>>

=============================================================================
