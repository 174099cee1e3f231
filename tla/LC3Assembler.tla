---------------------------- MODULE LC3Assembler ----------------------------
(***************************************************************************)
(* The assembler from its command line to its exit code: the two passes of *)
(* assemble() and write_object_file() in assembler/assembler.c, under      *)
(* main() of assembler.c.  One step handles one line of the program.       *)
(***************************************************************************)
EXTENDS LC3Encoding

CONSTANTS
  Sources,       \* the programs a source file may hold, as parsed lines
  MaySpoil       \* the disk may fill up, and SIGINT may arrive

ASSUME SourcesAssumption == Sources \subseteq Seq(Lines)

ASSUME SpoilAssumption == MaySpoil \in BOOLEAN

VARIABLES
  phase,         \* where main is
  program,       \* the lines
  next,          \* the line the current loop is at
  lc,            \* pass 1's location counter
  origin,
  have_origin,
  table,         \* the symbol table
  address,       \* each line's address
  codes,         \* each line's machine_codes
  ok,            \* pass 2's result
  written,       \* the bytes put into the object file's stream
  object,        \* what the object file holds
  status         \* how the process ended

layoutVars == <<lc, origin, have_origin, table, address>>
fileVars == <<written, object>>
vars == <<phase, program, next, layoutVars, codes, ok, fileVars, status>>

Phases == {"start", "pass1", "pass2", "open", "write", "ended"}
Statuses == {"none", "0", "1", "2", "SIGINT", "crash"}

\* The object file of an earlier run.
OldObject == <<0>>

Line == program[next]

\* The loops of both passes stop at .END.
More == next <= Len(program) /\ Line.operation # ".END"

Exit(code) == phase' = "ended" /\ status' = code

-----------------------------------------------------------------------------
(* Command line and source. *)

Usage ==
  /\ phase = "start"
  /\ Exit("2")
  /\ UNCHANGED <<program, next, layoutVars, codes, ok, fileVars>>

SourceMissing ==
  /\ phase = "start"
  /\ Exit("1")
  /\ UNCHANGED <<program, next, layoutVars, codes, ok, fileVars>>

\* The parsed lines of the whole source.
LoadProgram(lines) ==
  /\ phase = "start"
  /\ phase' = "pass1"
  /\ program' = lines
  /\ address' = [i \in 1 .. Len(program') |-> 0]
  /\ codes' = [i \in 1 .. Len(program') |-> <<>>]
  /\ next' = 1
  /\ UNCHANGED <<lc, origin, have_origin, table, ok, fileVars, status>>

ReadSource == \E lines \in Sources : LoadProgram(lines)

-----------------------------------------------------------------------------
(* Pass 1: addresses and labels. *)

\* A label in front of .ORIG is not recorded.
PlaceOrigin ==
  /\ phase = "pass1" /\ More /\ Line.operation = ".ORIG"
  /\ origin' = Wrap(Operand(Line, 1).integer)
  /\ lc' = origin'
  /\ have_origin' = TRUE
  /\ address' = [address EXCEPT ![next] = origin']
  /\ next' = next + 1
  /\ UNCHANGED <<phase, program, table, codes, ok, fileVars, status>>

\* A plausible slip: the location counter is an int.
PlaceMutant ==
  /\ phase = "pass1" /\ More /\ Line.operation # ".ORIG"
  /\ address' = [address EXCEPT ![next] = lc]
  /\ table' = IF Line.label = NoLabel THEN table
              ELSE Append(table, [label |-> Line.label, address |-> lc])
  /\ lc' = lc + Size(Line)
  /\ next' = next + 1
  /\ UNCHANGED <<phase, program, origin, have_origin, codes, ok, fileVars,
                 status>>

Place ==
  /\ phase = "pass1" /\ More /\ Line.operation # ".ORIG"
  /\ address' = [address EXCEPT ![next] = lc]
  /\ table' = IF Line.label = NoLabel THEN table
              ELSE Append(table, [label |-> Line.label, address |-> lc])
  /\ lc' = Wrap(lc + Size(Line))
  /\ next' = next + 1
  /\ UNCHANGED <<phase, program, origin, have_origin, codes, ok, fileVars,
                 status>>

EndPass1 ==
  /\ phase = "pass1" /\ ~More
  /\ \/ /\ have_origin
        /\ phase' = "pass2" /\ next' = 1 /\ UNCHANGED status
     \/ /\ ~have_origin
        /\ Exit("1") /\ UNCHANGED next
  /\ UNCHANGED <<program, layoutVars, codes, ok, fileVars>>

-----------------------------------------------------------------------------
(* Pass 2: machine codes. *)

LineCodes == MachineCodes(Line, table, address[next])

\* How a line can come out: its own codes, *ok cleared, or the process dead.
Succeeds == \A i \in DOMAIN LineCodes : LineCodes[i] >= 0
Fails == \E i \in DOMAIN LineCodes : LineCodes[i] \in {Error, Undefined}
Dies == \E i \in DOMAIN LineCodes : LineCodes[i] \in {Crash, Undefined}

EmitLine ==
  /\ phase = "pass2" /\ More /\ Succeeds
  /\ codes' = [codes EXCEPT ![next] = LineCodes]
  /\ next' = next + 1
  /\ UNCHANGED <<phase, program, layoutVars, ok, fileVars, status>>

\* A plausible slip: the line is not left behind.
RejectLineRetries ==
  /\ phase = "pass2" /\ More /\ Fails
  /\ ok' = FALSE
  /\ UNCHANGED <<phase, program, next, layoutVars, codes, fileVars, status>>

\* The codes of a line that failed are never looked at.
RejectLine ==
  /\ phase = "pass2" /\ More /\ Fails
  /\ ok' = FALSE
  /\ next' = next + 1
  /\ UNCHANGED <<phase, program, layoutVars, codes, fileVars, status>>

CrashOnLine ==
  /\ phase = "pass2" /\ More /\ Dies
  /\ Exit("crash")
  /\ UNCHANGED <<program, next, layoutVars, codes, ok, fileVars>>

EndPass2 ==
  /\ phase = "pass2" /\ ~More
  /\ \/ ok /\ phase' = "open" /\ UNCHANGED status
     \/ ~ok /\ Exit("1")
  /\ UNCHANGED <<program, next, layoutVars, codes, ok, fileVars>>

-----------------------------------------------------------------------------
(* The object file. *)

\* machine_code_to_bits for each word: the high byte first.
ToBytes(words) ==
  [n \in 1 .. 2 * Len(words) |->
     LET word == words[(n + 1) \div 2]
     IN  IF n % 2 = 1 THEN word \div 256 ELSE word % 256]

OpenFails ==
  /\ phase = "open"
  /\ Exit("1")
  /\ UNCHANGED <<program, next, layoutVars, codes, ok, fileVars>>

\* A plausible slip: the file is opened with "ab", behind what is there.
OpenObjectAppends ==
  /\ phase = "open"
  /\ phase' = "write" /\ next' = 1
  /\ object' = object
  /\ written' = object \o ToBytes(<<origin>>)
  /\ UNCHANGED <<program, layoutVars, codes, ok, status>>

\* fopen(path, "wb") empties the file; the header is the origin.
OpenObject ==
  /\ phase = "open"
  /\ phase' = "write" /\ next' = 1
  /\ object' = <<>>
  /\ written' = ToBytes(<<origin>>)
  /\ UNCHANGED <<program, layoutVars, codes, ok, status>>

WriteLine ==
  /\ phase = "write" /\ next <= Len(program)
  /\ written' = written \o ToBytes(codes[next])
  /\ next' = next + 1
  /\ UNCHANGED <<phase, program, layoutVars, codes, ok, object, status>>

\* What can be in the file: all of the stream, or less when the disk is full.
OnDisk ==
  {written} \cup
    IF MaySpoil THEN {SubSeq(written, 1, n) : n \in 0 .. Len(written)} ELSE {}

\* Neither fputc nor fclose is asked whether it succeeded.
CloseObject ==
  /\ phase = "write" /\ next > Len(program)
  /\ object' \in OnDisk
  /\ Exit("0")
  /\ UNCHANGED <<program, next, layoutVars, codes, ok, written>>

-----------------------------------------------------------------------------

\* SIGINT has its default action.
Interrupt ==
  /\ MaySpoil /\ phase # "ended"
  /\ object' \in IF phase = "write" THEN OnDisk ELSE {object}
  /\ Exit("SIGINT")
  /\ UNCHANGED <<program, next, layoutVars, codes, ok, written>>

Init ==
  /\ phase = "start" /\ status = "none"
  /\ program = <<>> /\ next = 1
  /\ lc = 0 /\ origin = 0 /\ have_origin = FALSE
  /\ table = <<>> /\ address = <<>>
  /\ codes = <<>> /\ ok = TRUE
  /\ written = <<>> /\ object = OldObject

\* Everything behind the reading of the source.
Passes ==
  \/ PlaceOrigin \/ Place \/ EndPass1
  \/ EmitLine \/ RejectLine \/ CrashOnLine \/ EndPass2
  \/ OpenFails \/ OpenObject \/ WriteLine \/ CloseObject

AssemblerNext == Usage \/ SourceMissing \/ ReadSource \/ Passes

\* The process has ended: nothing is left to do.
Ended == phase = "ended" /\ UNCHANGED vars

Next == AssemblerNext \/ Interrupt \/ Ended

\* The process is never denied the processor for ever.
Spec == Init /\ [][Next]_vars /\ WF_vars(AssemblerNext)

-----------------------------------------------------------------------------
(* Properties. *)

\* The lines both passes look at: those in front of the first .END.
LaidOut ==
  {i \in DOMAIN program : \A j \in 1 .. i : program[j].operation # ".END"}

\* Programs that say what they mean: .ORIG is the first line and the only
\* one, and no .BLKW has a negative size.
WellFormed ==
  /\ program # <<>> /\ program[1].operation = ".ORIG"
  /\ \A i \in 2 .. Len(program) : program[i].operation # ".ORIG"
  /\ \A i \in DOMAIN program : Size(program[i]) >= 0

ControlTypeOK ==
  /\ phase \in Phases /\ status \in Statuses
  /\ program \in Seq(Lines)
  /\ next \in 1 .. Len(program) + 1
  /\ ok \in BOOLEAN

LayoutTypeOK ==
  /\ lc \in Word /\ origin \in Word /\ have_origin \in BOOLEAN
  /\ table \in Seq([label : Labels, address : Word])
  /\ address \in Seq(Word) /\ Len(address) = Len(program)

CodesTypeOK == codes \in Seq(Seq(Word)) /\ Len(codes) = Len(program)

FileTypeOK == written \in Seq(Byte) /\ object \in Seq(Byte)

\* TypeOK: every variable has its type; in particular the location counter
\* wraps with the address space and every emitted code is a 16-bit word,
\* whatever the operands were.
TypeOK == ControlTypeOK /\ LayoutTypeOK /\ CodesTypeOK /\ FileTypeOK

\* The words the stream holds behind the header.
WordsWritten == Len(written) \div 2 - 1

\* WordsLieAtTheirAddress: while the object file is written, the next word
\* lands, once the file is loaded at its origin, at the address pass 1 gave
\* to its line: the sizes pass 1 counts (directive.c's size functions) are
\* what pass 2 emits (its encode functions), line by line.
WordsLieAtTheirAddress ==
  phase = "write" /\ WellFormed =>
    Wrap(origin + WordsWritten)
      = IF next \in LaidOut THEN address[next] ELSE lc

\* The word of a whole object file at an address.
Loaded(at) ==
  LET n == Wrap(at - origin)
  IN  object[2 * n + 3] * 256 + object[2 * n + 4]

\* The address of a label: that of the first line that defines it.
Target(label) ==
  LET lines == {i \in LaidOut : program[i].label = label
                                /\ program[i].operation # ".ORIG"}
  IN  address[CHOOSE i \in lines : \A j \in lines : i <= j]

Displaced(at, offset) == Wrap(at + 1 + offset)

\* What the virtual machine reads in word, found at an address, is what the
\* line says.  It uses the machine's own field operators (LC3Words).
Reads(word, at, line) ==
  LET name == line.operation
      operand(n) == line.operands[n]
  IN
  /\ name \in DOMAIN Opcodes => Opcode(word) = Opcodes[name]
  /\ name \in {"ADD", "AND"} =>
       /\ FieldDR(word) = operand(1).register
       /\ FieldSR1(word) = operand(2).register
       /\ ImmediateMode(word) <=> operand(3).type # "register"
       /\ IF ImmediateMode(word)
          THEN Signed(Imm5(word)) = operand(3).integer
          ELSE FieldSR2(word) = operand(3).register
  /\ name = "NOT" => /\ FieldDR(word) = operand(1).register
                     /\ FieldSR1(word) = operand(2).register
  /\ name = "BR" =>
       /\ FieldDR(word) = BranchMask(line.conditions)
       /\ Displaced(at, PcOffset9(word)) = Target(operand(1).label)
  /\ name \in {"JMP", "JSRR"} => FieldSR1(word) = operand(1).register
  /\ name = "RET" => FieldSR1(word) = R7
  /\ name = "JSR" =>
       /\ OffsetMode(word)
       /\ Displaced(at, PcOffset11(word)) = Target(operand(1).label)
  /\ name = "JSRR" => ~OffsetMode(word)
  /\ name \in {"LD", "LDI", "LEA", "ST", "STI"} =>
       /\ FieldDR(word) = operand(1).register
       /\ Displaced(at, PcOffset9(word)) = Target(operand(2).label)
  /\ name \in {"LDR", "STR"} =>
       /\ FieldDR(word) = operand(1).register
       /\ FieldSR1(word) = operand(2).register
       /\ Signed(Offset6(word)) = operand(3).integer
  /\ name = "TRAP" => word % 4096 = operand(1).integer
  /\ name \in TrapNames => word = OP_TRAP * 4096 + TrapCode(name)
  /\ name = ".FILL" => word = IF operand(1).type = "label"
                              THEN Target(operand(1).label)
                              ELSE Wrap(operand(1).integer)

Kinds(line) == [n \in DOMAIN line.operands |-> line.operands[n].type]

\* The operand kinds each operation is written with.
Shapes(name) ==
  LET R == "register" I == "integer" L == "label" IN
  CASE name \in {"ADD", "AND"} -> {<<R, R, R>>, <<R, R, I>>}
    [] name = "NOT" -> {<<R, R>>}
    [] name \in {"BR", "JSR"} -> {<<L>>}
    [] name \in {"JMP", "JSRR"} -> {<<R>>}
    [] name \in {"LD", "LDI", "LEA", "ST", "STI"} -> {<<R, L>>}
    [] name \in {"LDR", "STR"} -> {<<R, R, I>>}
    [] name \in {"TRAP", ".BLKW", ".ORIG"} -> {<<I>>}
    [] name = ".FILL" -> {<<I>>, <<L>>}
    [] name = ".STRINGZ" -> {<<"string">>}
    [] OTHER -> {<<>>}

Names == DOMAIN Opcodes \cup TrapNames \cup Directives \cup {NULL}

WellTyped(line) == Kinds(line) \in Shapes(line.operation)

\* The words of line i, in place in a whole object file.
LoadedAsWritten(i) ==
  LET line == program[i]
      word(n) == Loaded(address[i] + n)
  IN  CASE line.operation \in {NULL, ".ORIG"} -> TRUE
        [] line.operation = ".BLKW" ->
             \A n \in 1 .. line.operands[1].integer : word(n - 1) = 0
        [] line.operation = ".STRINGZ" ->
             LET text == line.operands[1].string
             IN  /\ \A n \in DOMAIN text : word(n - 1) = text[n]
                 /\ word(Len(text)) = 0
        [] OTHER -> Reads(word(0), address[i], line)

GeneralOnly(line) ==
  \A n \in DOMAIN line.operands :
    line.operands[n].register \in GeneralRegisters \cup {NoRegister}

\* AssembledAsWritten: when the assembler exits with 0, each line of a
\* program that says what it means, and that the address space can hold, is
\* in the object file, at the line's address, as words the virtual machine
\* reads as that line: encoders, layout, symbols and byte order together.
AssembledAsWritten ==
  /\ status = "0" /\ WellFormed /\ object = written
  /\ WordsWritten <= WORD_MAX
  =>
    \A i \in LaidOut :
      WellTyped(program[i]) /\ GeneralOnly(program[i]) => LoadedAsWritten(i)

\* What is left of the object file has all words of line i.
Whole(i) ==
  2 * (Wrap(address[i] - origin) + Len(codes[i]) + 1) <= Len(object)

\* RemnantAsWritten: whatever ended the assembler, SIGINT or a full disk
\* included, what it has left in place of the old object file can be trusted
\* as far as it goes: every line written whose words are all there is at its
\* address, as words the virtual machine reads as that line.
RemnantAsWritten ==
  /\ phase = "ended" /\ object # OldObject
  /\ WellFormed /\ WordsWritten <= WORD_MAX
  =>
    \A i \in LaidOut :
      i < next /\ Whole(i) /\ WellTyped(program[i]) /\ GeneralOnly(program[i])
        => LoadedAsWritten(i)

\* A signed field holds value; limit = 2^(bits - 1).
Fits(value, limit) == value \in -limit .. limit - 1

\* A line with no encoding: its label is not defined in front of .END, or
\* too far away, or its integer does not fit.
Defined(label) ==
  \E i \in LaidOut : program[i].label = label
                     /\ program[i].operation # ".ORIG"

Hopeless(i) ==
  LET line == program[i]
      name == line.operation
      last == line.operands[Len(line.operands)]
      distance == Target(last.label) - (address[i] + 1)
  IN  /\ WellTyped(line) /\ line.operands # <<>>
      /\ \/ last.type = "label" /\ ~Defined(last.label)
         \/ name = "JSR" /\ ~Fits(distance, 1024)
         \/ /\ last.type = "label" /\ name \notin {"JSR", ".FILL"}
            /\ ~Fits(distance, 256)
         \/ /\ name \in {"ADD", "AND"} /\ last.type = "integer"
            /\ ~Fits(last.integer, 16)
         \/ name \in {"LDR", "STR"} /\ ~Fits(last.integer, 32)
         \/ name = "TRAP" /\ last.integer \notin Byte

\* ErrorsLeaveTheObject: one line that has no encoding, anywhere in front of
\* .END and whatever the other lines are, keeps an earlier object file as it
\* was: main writes only when assemble() returned 1.
ErrorsLeaveTheObject ==
  (\E i \in LaidOut : Hopeless(i)) => object = OldObject

\* GoodLinesAccepted: an encoder refuses nothing that has an encoding; a
\* program all of whose lines have one never fails and never crashes.
GoodLinesAccepted ==
  WellFormed /\ (\A i \in LaidOut : /\ WellTyped(program[i]) /\ ~Hopeless(i)
                                   /\ program[i].operation \in Names)
    => ok /\ status # "crash"

\* Terminates: the assembler ends on every source.
Terminates == <>(phase = "ended")

\* EmittedAsSized: pass 2 emits the words pass 1 counted: "how many program
\* words does this instruction occupy? (drives the location counter in pass
\* 1 and the emit size in pass 2)".
EmittedAsSized ==
  phase = "write" => \A i \in LaidOut : Len(codes[i]) = Size(program[i])

\* RegistersReadBack: AssembledAsWritten for every register operand the
\* parser accepts, not only for R0 to R7.
RegistersReadBack ==
  /\ status = "0" /\ WellFormed /\ object = written
  /\ WordsWritten <= WORD_MAX
  =>
    \A i \in LaidOut : WellTyped(program[i]) => LoadedAsWritten(i)

\* SuccessMeansWritten: exit code 0 means the object file is complete.
SuccessMeansWritten == status = "0" => object = written
=============================================================================
