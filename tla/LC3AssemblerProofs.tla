------------------------- MODULE LC3AssemblerProofs -------------------------
(***************************************************************************)
(* Theorems of LC3Assembler!Spec: what holds of every source the parser    *)
(* can hand over, however long it is. Each property has its invariant:     *)
(* types, the layout of the program (where each line lies), the symbol     *)
(* table, the outcome (what has failed), the image (what is written), and  *)
(* from all of them that the image is the program.                         *)
(***************************************************************************)
EXTENDS LC3Assembler, LC3EncodingProofs

-----------------------------------------------------------------------------
(* The type invariant.                                                     *)

(* The program is a sequence of lines, and the current line one of them. *)
LEMMA ProgramType ==
  ASSUME ControlTypeOK
  PROVE  /\ program \in Seq(Lines)
         /\ DOMAIN program = 1 .. Len(program) /\ Len(program) \in Nat
         /\ next \in Nat /\ next >= 1 /\ next <= Len(program) + 1
         /\ More => /\ next \in 1 .. Len(program) /\ next \in DOMAIN program
                    /\ Line \in Lines
                    /\ next + 1 \in 1 .. Len(program) + 1
<1>1. program \in Seq(Lines)
  BY DEF ControlTypeOK
<1>2. DOMAIN program = 1 .. Len(program) /\ Len(program) \in Nat
  BY <1>1
<1>3. next \in Nat /\ next >= 1 /\ next <= Len(program) + 1
  BY <1>2 DEF ControlTypeOK
<1>4. ASSUME More
      PROVE  /\ next \in 1 .. Len(program) /\ next \in DOMAIN program
             /\ Line \in Lines
             /\ next + 1 \in 1 .. Len(program) + 1
  <2>1. next \in 1 .. Len(program) /\ next + 1 \in 1 .. Len(program) + 1
    BY <1>2, <1>3, <1>4 DEF More
  <2> QED
    BY <2>1, <1>1, <1>2, ElementOfSeq DEF Line
<1> QED
  BY <1>1, <1>2, <1>3, <1>4

(* The size of a line is an integer. *)
LEMMA SizeType == ASSUME NEW line \in Lines PROVE Size(line) \in Int
<1>1. Operand(line, 1) \in Records
  BY OperandType
<1>2. Operand(line, 1).integer \in Int /\ Operand(line, 1).string \in Seq(Byte)
  BY <1>1 DEF Records
<1>3. Len(Operand(line, 1).string) + 1 \in Int
  BY <1>2
<1> QED
  BY <1>2, <1>3 DEF Size

(* The two bytes of a word. *)
LEMMA HalvesAreBytes ==
  ASSUME NEW word \in Word PROVE word \div 256 \in Byte /\ word % 256 \in Byte
<1>1. word \in Int /\ 0 <= word /\ word <= 65535
  BY WordBounds
<1> QED
  BY <1>1, Halves DEF Byte

(* machine_code_to_bits writes two bytes for each word. *)
LEMMA ToBytesType ==
  ASSUME NEW words \in Seq(Word)
  PROVE  /\ ToBytes(words) \in Seq(Byte)
         /\ Len(ToBytes(words)) = 2 * Len(words)
<1>1. Len(words) \in Nat
  OBVIOUS
<1>2. ASSUME NEW n \in 1 .. 2 * Len(words)
      PROVE  (LET word == words[(n + 1) \div 2]
              IN  IF n % 2 = 1 THEN word \div 256 ELSE word % 256) \in Byte
  <2> DEFINE word == words[(n + 1) \div 2]
  <2>1. (n + 1) \div 2 \in 1 .. Len(words)
    BY <1>1
  <2>2. word \in Word
    BY <2>1, ElementOfSeq
  <2> HIDE DEF word
  <2>3. word \div 256 \in Byte /\ word % 256 \in Byte
    BY <2>2, HalvesAreBytes
  <2> QED
    BY <2>3 DEF word
<1>3. ToBytes(words) \in [1 .. 2 * Len(words) -> Byte]
  BY <1>2 DEF ToBytes
<1>4. 2 * Len(words) \in Nat
  BY <1>1
<1> QED
  BY <1>3, <1>4

(* What the file can be left with is a part of what was written. *)
LEMMA OnDiskType ==
  ASSUME FileTypeOK, NEW bytes \in OnDisk PROVE bytes \in Seq(Byte)
<1>1. written \in Seq(Byte)
  BY DEF FileTypeOK
<1>2. ASSUME NEW n \in 0 .. Len(written)
      PROVE  SubSeq(written, 1, n) \in Seq(Byte)
  BY <1>1
<1> QED
  BY <1>1, <1>2 DEF OnDisk

(* A line's codes are results, words when the line succeeds, and the size
   pass 1 counted when that is not negative. *)
LEMMA LineCodesType ==
  ASSUME TypeOK, More
  PROVE  /\ LineCodes \in Seq(Results)
         /\ Succeeds => /\ LineCodes \in Seq(Word)
                        /\ Size(Line) >= 0 => Len(LineCodes) = Size(Line)
<1>1. Line \in Lines /\ next \in 1 .. Len(program)
  BY ProgramType DEF TypeOK
<1>2. address[next] \in Word
  <2>1. address \in Seq(Word) /\ Len(address) = Len(program)
    BY DEF TypeOK, LayoutTypeOK
  <2> QED
    BY <1>1, <2>1, ElementOfSeq
<1>3. table \in Seq(Symbols)
  BY DEF TypeOK, LayoutTypeOK, Symbols
<1>4. LineCodes \in Seq(Results)
  BY <1>1, <1>2, <1>3, MachineCodesType DEF LineCodes
<1>5. ASSUME Succeeds PROVE LineCodes \in Seq(Word)
  <2>1. DOMAIN LineCodes = 1 .. Len(LineCodes) /\ Len(LineCodes) \in Nat
        /\ LineCodes = [i \in 1 .. Len(LineCodes) |-> LineCodes[i]]
    BY <1>4
  <2>2. \A i \in 1 .. Len(LineCodes) : LineCodes[i] \in Word
    BY <1>4, <1>5, <2>1, ElementOfSeq, ResultSign DEF Succeeds
  <2> HIDE DEF LineCodes
  <2> QED
    BY <2>1, <2>2
<1>6. ASSUME Succeeds, Size(Line) >= 0 PROVE Len(LineCodes) = Size(Line)
  BY <1>1, <1>6, SizesAgree DEF LineCodes, Succeeds
<1> QED
  BY <1>4, <1>5, <1>6

(* The first state has its types. *)
LEMMA InitType == Init => TypeOK
<1> SUFFICES ASSUME Init PROVE TypeOK
  OBVIOUS
<1>1. 0 \in Word /\ 0 \in Byte
  BY BoundedIsWord DEF Byte
<1>2. ControlTypeOK
  BY DEF Init, ControlTypeOK, Phases, Statuses
<1>3. LayoutTypeOK
  <2>1. <<>> \in Seq([label : Labels, address : Word]) /\ <<>> \in Seq(Word)
    OBVIOUS
  <2> QED
    BY <1>1, <2>1 DEF Init, LayoutTypeOK
<1>4. CodesTypeOK
  BY DEF Init, CodesTypeOK
<1>5. FileTypeOK
  BY <1>1 DEF Init, FileTypeOK, OldObject
<1> QED
  BY <1>2, <1>3, <1>4, <1>5 DEF TypeOK

(* A step that leaves the layout, the codes and the files alone, and moves
   on by at most one line. *)
LEMMA ControlType ==
  ASSUME TypeOK, UNCHANGED <<program, layoutVars, codes, fileVars>>,
         phase' \in Phases, status' \in Statuses, ok' \in BOOLEAN,
         next' \in 1 .. Len(program) + 1
  PROVE  TypeOK'
  BY DEF TypeOK, ControlTypeOK, LayoutTypeOK, CodesTypeOK, FileTypeOK,
         layoutVars, fileVars

(* A sequence of one value. *)
LEMMA ConstantSeq ==
  ASSUME NEW S, NEW e \in S, NEW n \in Nat
  PROVE  [i \in 1 .. n |-> e] \in Seq(S) /\ Len([i \in 1 .. n |-> e]) = n
  OBVIOUS

(* A source is read, one of Sources or any other. *)
Loads == \E lines \in Seq(Lines) : LoadProgram(lines)

LEMMA ReadSourceLoads == ReadSource => Loads
  BY SourcesAssumption DEF ReadSource, Loads

(* Reading the source. *)
LEMMA LoadsType == ASSUME TypeOK, Loads PROVE TypeOK'
<1>1. program' \in Seq(Lines)
  BY DEF Loads, LoadProgram
<1>2. Len(program') \in Nat
  BY <1>1
<1>3. 0 \in Word
  BY BoundedIsWord
<1>4. ControlTypeOK'
  <2>1. next' = 1
    BY DEF Loads, LoadProgram
  <2>2. next' \in 1 .. Len(program') + 1
    BY <1>2, <2>1
  <2> QED
    BY <1>1, <2>2 DEF TypeOK, ControlTypeOK, Loads, LoadProgram, Phases
<1>5. LayoutTypeOK'
  <2>1. address' \in Seq(Word) /\ Len(address') = Len(program')
    BY <1>2, <1>3, ConstantSeq DEF Loads, LoadProgram
  <2> QED
    BY <2>1 DEF TypeOK, LayoutTypeOK, Loads, LoadProgram
<1>6. CodesTypeOK'
  <2>1. <<>> \in Seq(Word)
    OBVIOUS
  <2>2. codes' \in Seq(Seq(Word)) /\ Len(codes') = Len(program')
    BY <1>2, <2>1, ConstantSeq DEF Loads, LoadProgram
  <2> QED
    BY <2>2 DEF CodesTypeOK
<1>7. FileTypeOK'
  BY DEF TypeOK, FileTypeOK, Loads, LoadProgram, fileVars
<1> QED
  BY <1>4, <1>5, <1>6, <1>7 DEF TypeOK

(* .ORIG in pass 1. *)
LEMMA PlaceOriginType == ASSUME TypeOK, PlaceOrigin PROVE TypeOK'
<1>1. next \in 1 .. Len(program) /\ next + 1 \in 1 .. Len(program) + 1
      /\ Line \in Lines
  BY ProgramType DEF TypeOK, PlaceOrigin
<1>2. origin' \in Word
  <2>1. Operand(Line, 1) \in Records
    BY <1>1, OperandType
  <2>2. Operand(Line, 1).integer \in Int
    BY <2>1 DEF Records
  <2> QED
    BY <2>2, WrapType DEF PlaceOrigin
<1>3. address' \in Seq(Word) /\ Len(address') = Len(address)
  <2>1. address \in Seq(Word) /\ next \in 1 .. Len(address)
    BY <1>1 DEF TypeOK, LayoutTypeOK
  <2>2. address' = [address EXCEPT ![next] = origin']
    BY DEF PlaceOrigin
  <2> QED
    BY <1>2, <2>1, <2>2, ExceptSeq
<1>4. ControlTypeOK'
  BY <1>1 DEF TypeOK, ControlTypeOK, PlaceOrigin
<1>5. LayoutTypeOK'
  BY <1>2, <1>3 DEF TypeOK, LayoutTypeOK, PlaceOrigin
<1>6. CodesTypeOK' /\ FileTypeOK'
  BY DEF TypeOK, CodesTypeOK, FileTypeOK, PlaceOrigin, fileVars
<1> QED
  BY <1>4, <1>5, <1>6 DEF TypeOK

(* Any other line in pass 1: the location counter wraps. *)
LEMMA PlaceType == ASSUME TypeOK, Place PROVE TypeOK'
<1>1. next \in 1 .. Len(program) /\ next + 1 \in 1 .. Len(program) + 1
      /\ Line \in Lines
  BY ProgramType DEF TypeOK, Place
<1>2. lc \in Word /\ lc \in Int
  BY WordBounds DEF TypeOK, LayoutTypeOK
<1>3. lc' \in Word
  <2>1. lc + Size(Line) \in Int
    BY <1>1, <1>2, SizeType
  <2> QED
    BY <2>1, WrapType DEF Place
<1>4. address' \in Seq(Word) /\ Len(address') = Len(address)
  <2>1. address \in Seq(Word) /\ next \in 1 .. Len(address)
    BY <1>1 DEF TypeOK, LayoutTypeOK
  <2> QED
    BY <1>2, <2>1, ExceptSeq DEF Place
<1>5. table' \in Seq(Symbols)
  <2>1. table \in Seq(Symbols)
    BY DEF TypeOK, LayoutTypeOK, Symbols
  <2>2. CASE Line.label = NoLabel
    BY <2>1, <2>2 DEF Place
  <2>3. CASE Line.label # NoLabel
    <3>1. Line.label \in Labels
      BY <1>1, <2>3 DEF Lines
    <3>2. [label |-> Line.label, address |-> lc] \in Symbols
      BY <1>2, <3>1 DEF Symbols
    <3> QED
      BY <2>1, <2>3, <3>2, AppendProperties DEF Place
  <2> QED
    BY <2>2, <2>3
<1>6. ControlTypeOK'
  BY <1>1 DEF TypeOK, ControlTypeOK, Place
<1>7. LayoutTypeOK'
  BY <1>3, <1>4, <1>5 DEF TypeOK, LayoutTypeOK, Place, Symbols
<1>8. CodesTypeOK' /\ FileTypeOK'
  BY DEF TypeOK, CodesTypeOK, FileTypeOK, Place, fileVars
<1> QED
  BY <1>6, <1>7, <1>8 DEF TypeOK

(* A line that succeeds in pass 2. *)
LEMMA EmitLineType == ASSUME TypeOK, EmitLine PROVE TypeOK'
<1>1. next \in 1 .. Len(program) /\ next + 1 \in 1 .. Len(program) + 1
  BY ProgramType DEF TypeOK, EmitLine
<1>2. LineCodes \in Seq(Word)
  BY LineCodesType DEF EmitLine
<1>3. CodesTypeOK'
  <2>1. codes \in Seq(Seq(Word)) /\ next \in 1 .. Len(codes)
    BY <1>1 DEF TypeOK, CodesTypeOK
  <2>2. codes' = [codes EXCEPT ![next] = LineCodes] /\ program' = program
    BY DEF EmitLine
  <2> HIDE DEF LineCodes
  <2> QED
    BY <1>2, <2>1, <2>2, ExceptSeq DEF TypeOK, CodesTypeOK
<1>4. ControlTypeOK'
  BY <1>1 DEF TypeOK, ControlTypeOK, EmitLine
<1>5. LayoutTypeOK' /\ FileTypeOK'
  BY DEF TypeOK, LayoutTypeOK, FileTypeOK, EmitLine, layoutVars, fileVars
<1> QED
  BY <1>3, <1>4, <1>5 DEF TypeOK

(* The object file's stream. *)
LEMMA FileStepType ==
  ASSUME TypeOK, UNCHANGED <<program, layoutVars, codes, ok>>,
         phase' \in Phases, status' \in Statuses,
         next' \in 1 .. Len(program) + 1,
         written' \in Seq(Byte), object' \in Seq(Byte)
  PROVE  TypeOK'
  BY DEF TypeOK, ControlTypeOK, LayoutTypeOK, CodesTypeOK, FileTypeOK,
         layoutVars

LEMMA OpenObjectType == ASSUME TypeOK, OpenObject PROVE TypeOK'
<1>1. <<origin>> \in Seq(Word)
  BY DEF TypeOK, LayoutTypeOK
<1>2. written' \in Seq(Byte)
  BY <1>1, ToBytesType DEF OpenObject
<1>3. object' \in Seq(Byte)
  BY DEF OpenObject
<1>4. next' \in 1 .. Len(program) + 1 /\ status' \in Statuses
  BY ProgramType DEF TypeOK, ControlTypeOK, OpenObject
<1>5. phase' \in Phases
  BY DEF OpenObject, Phases
<1> QED
  BY <1>2, <1>3, <1>4, <1>5, FileStepType DEF OpenObject

LEMMA WriteLineType == ASSUME TypeOK, WriteLine PROVE TypeOK'
<1>1. next \in 1 .. Len(program) /\ next + 1 \in 1 .. Len(program) + 1
  BY ProgramType DEF TypeOK, WriteLine
<1>2. codes[next] \in Seq(Word)
  <2>1. codes \in Seq(Seq(Word)) /\ next \in 1 .. Len(codes)
    BY <1>1 DEF TypeOK, CodesTypeOK
  <2> QED
    BY <2>1, ElementOfSeq
<1>3. ToBytes(codes[next]) \in Seq(Byte)
  BY <1>2, ToBytesType
<1>4. written' \in Seq(Byte) /\ object' \in Seq(Byte)
  BY <1>3, ConcatProperties DEF WriteLine, TypeOK, FileTypeOK
<1>5. phase' \in Phases /\ status' \in Statuses
  BY DEF WriteLine, TypeOK, ControlTypeOK
<1> QED
  BY <1>1, <1>4, <1>5, FileStepType DEF WriteLine

(* Every step keeps the types. *)
LEMMA NextType == ASSUME TypeOK, Loads \/ [Next]_vars PROVE TypeOK'
<1>1. phase \in Phases /\ status \in Statuses /\ ok \in BOOLEAN
      /\ next \in 1 .. Len(program) + 1 /\ 1 \in 1 .. Len(program) + 1
  BY ProgramType DEF TypeOK, ControlTypeOK
<1>2. /\ "ended" \in Phases /\ "pass2" \in Phases /\ "open" \in Phases
      /\ {"0", "1", "2", "SIGINT", "crash"} \subseteq Statuses
  BY DEF Phases, Statuses
<1>3. CASE Usage
  BY <1>1, <1>2, <1>3, ControlType DEF Usage, Exit
<1>4. CASE SourceMissing
  BY <1>1, <1>2, <1>4, ControlType DEF SourceMissing, Exit
<1>5. CASE Loads
  BY <1>5, LoadsType
<1>6. CASE PlaceOrigin
  BY <1>6, PlaceOriginType
<1>7. CASE Place
  BY <1>7, PlaceType
<1>8. CASE EndPass1
  BY <1>1, <1>2, <1>8, ControlType DEF EndPass1, Exit
<1>9. CASE EmitLine
  BY <1>9, EmitLineType
<1>10. CASE RejectLine
  <2>1. next + 1 \in 1 .. Len(program) + 1
    BY <1>10, ProgramType DEF TypeOK, RejectLine
  <2> QED
    BY <1>1, <1>10, <2>1, ControlType DEF RejectLine
<1>11. CASE CrashOnLine
  BY <1>1, <1>2, <1>11, ControlType DEF CrashOnLine, Exit
<1>12. CASE EndPass2
  BY <1>1, <1>2, <1>12, ControlType DEF EndPass2, Exit
<1>13. CASE OpenFails
  BY <1>1, <1>2, <1>13, ControlType DEF OpenFails, Exit
<1>14. CASE OpenObject
  BY <1>14, OpenObjectType
<1>15. CASE WriteLine
  BY <1>15, WriteLineType
<1>16. CASE CloseObject
  <2>1. object' \in Seq(Byte) /\ written' \in Seq(Byte)
    BY <1>16, OnDiskType DEF CloseObject, TypeOK, FileTypeOK
  <2> QED
    BY <1>1, <1>2, <1>16, <2>1, FileStepType DEF CloseObject, Exit
<1>17. CASE Interrupt
  <2>1. object \in Seq(Byte) /\ written \in Seq(Byte)
    BY DEF TypeOK, FileTypeOK
  <2>2. object' \in Seq(Byte) /\ written' \in Seq(Byte)
    BY <1>17, <2>1, OnDiskType DEF Interrupt, TypeOK
  <2> QED
    BY <1>1, <1>2, <1>17, <2>2, FileStepType DEF Interrupt, Exit
<1>18. CASE UNCHANGED vars
  BY <1>18 DEF vars, TypeOK, ControlTypeOK, LayoutTypeOK, CodesTypeOK,
               FileTypeOK, layoutVars, fileVars
<1> QED
  BY <1>3, <1>4, <1>5, <1>6, <1>7, <1>8, <1>9, <1>10, <1>11, <1>12, <1>13,
     <1>14, <1>15, <1>16, <1>17, <1>18, ReadSourceLoads
     DEF Next, AssemblerNext, Passes, Ended

(* On every source, the location counter, the addresses and the symbols stay
   16-bit words and everything emitted is one. *)
THEOREM AssemblerTypes == Spec => []TypeOK
<1>1. Init => TypeOK
  BY InitType
<1>2. TypeOK /\ [Next]_vars => TypeOK'
  BY NextType
<1> QED
  BY <1>1, <1>2, PTL DEF Spec
-----------------------------------------------------------------------------
(* The layout.  WordsLieAtTheirAddress speaks of the last loop only; what   *)
(* makes it hold is laid down by the two passes before it.                  *)

(* The address behind line i. *)
After(i) == Wrap(address[i] + Size(program[i]))

(* Lines 1 to last follow one another from the origin up to lc. *)
Chained(last) ==
  /\ last >= 1 => address[1] = origin
  /\ \A i \in 1 .. last :
       After(i) = IF i < last THEN address[i + 1] ELSE lc

(* Pass 1 is over, and last is the last line it has placed. *)
PlacedUpTo(last) ==
  /\ last \in 1 .. Len(program) /\ LaidOut = 1 .. last
  /\ WellFormed => Chained(last)

(* Lines 1 to last have the codes pass 1 has counted, and no other has any. *)
EncodedUpTo(last) ==
  \A i \in 1 .. Len(program) :
    IF i <= last THEN Size(program[i]) >= 0 => Len(codes[i]) = Size(program[i])
    ELSE codes[i] = <<>>

AtStart == phase = "start" => ~have_origin

InPass1 ==
  phase = "pass1" =>
    /\ 1 .. next - 1 \subseteq LaidOut
    /\ next = 1 => ~have_origin
    /\ WellFormed => Chained(next - 1)
    /\ EncodedUpTo(0)

InPass2 ==
  phase = "pass2" =>
    \E last \in Nat : /\ PlacedUpTo(last) /\ next <= last + 1
                      /\ ok => EncodedUpTo(next - 1)
                      /\ \A i \in next .. Len(program) : codes[i] = <<>>

AtOpen ==
  phase = "open" => \E last \in Nat : PlacedUpTo(last) /\ EncodedUpTo(last)

InWrite ==
  phase = "write" =>
    \E last \in Nat, n \in Nat :
      /\ PlacedUpTo(last) /\ EncodedUpTo(last)
      /\ Len(written) = 2 * (n + 1)
      /\ WellFormed =>
           Wrap(origin + n) = IF next <= last THEN address[next] ELSE lc

LayoutInvariant ==
  TypeOK /\ AtStart /\ InPass1 /\ InPass2 /\ AtOpen /\ InWrite

(* Addresses modulo 2^16. *)
LEMMA WrapSum ==
  ASSUME NEW a \in Int, NEW b \in Int PROVE Wrap(Wrap(a) + b) = Wrap(a + b)
<1>1. ((a % 65536) + b) % 65536 = (a + b) % 65536
  OBVIOUS
<1> QED
  BY <1>1 DEF Wrap, WORD_MAX

(* A program's lines are laid out up to the first .END. *)
LEMMA LaidOutLine ==
  ASSUME TypeOK, More, 1 .. next - 1 \subseteq LaidOut
  PROVE  1 .. next \subseteq LaidOut
<1>1. next \in Nat /\ next \in DOMAIN program /\ DOMAIN program = 1 .. Len(program)
      /\ Len(program) \in Nat
  BY ProgramType DEF TypeOK
<1>2. \A j \in 1 .. next : program[j].operation # ".END"
  <2> SUFFICES ASSUME NEW j \in 1 .. next PROVE program[j].operation # ".END"
    OBVIOUS
  <2>1. CASE j = next
    BY <2>1 DEF More, Line
  <2>2. CASE j # next
    <3>1. j \in 1 .. next - 1 /\ j \in 1 .. j
      BY <1>1, <2>2
    <3> QED
      BY <3>1 DEF LaidOut
  <2> QED
    BY <2>1, <2>2
<1>3. next \in LaidOut
  BY <1>1, <1>2 DEF LaidOut
<1>4. \A j \in 1 .. next : j = next \/ j \in 1 .. next - 1
  BY <1>1
<1> QED
  BY <1>3, <1>4

LEMMA LaidOutEnd ==
  ASSUME TypeOK, ~More, 1 .. next - 1 \subseteq LaidOut
  PROVE  LaidOut = 1 .. next - 1
<1>1. next \in Nat /\ next >= 1 /\ DOMAIN program = 1 .. Len(program)
      /\ Len(program) \in Nat
  BY ProgramType DEF TypeOK
<1> SUFFICES ASSUME NEW i \in LaidOut, i \notin 1 .. next - 1 PROVE FALSE
  OBVIOUS
<1>2. i \in 1 .. Len(program) /\ \A j \in 1 .. i : program[j].operation # ".END"
  BY <1>1 DEF LaidOut
<1>3. next \in 1 .. i /\ next <= Len(program)
  BY <1>1, <1>2
<1> QED
  BY <1>2, <1>3 DEF More, Line

(* Where a step does not touch the layout, it stays what it was. *)
LEMMA ProgramFrame ==
  ASSUME program' = program
  PROVE  LaidOut' = LaidOut /\ (WellFormed' <=> WellFormed)
  BY DEF LaidOut, WellFormed

LEMMA LayoutFrame ==
  ASSUME UNCHANGED <<program, layoutVars>>, NEW last
  PROVE  PlacedUpTo(last)' <=> PlacedUpTo(last)
  BY ProgramFrame DEF PlacedUpTo, Chained, After, layoutVars

LEMMA EncodedFrame ==
  ASSUME UNCHANGED <<program, codes>>, NEW last
  PROVE  EncodedUpTo(last)' <=> EncodedUpTo(last)
  BY DEF EncodedUpTo

(* Pass 1 begins. *)
LEMMA LoadsLayout ==
  ASSUME LayoutInvariant, Loads PROVE InPass1'
<1>1. next' = 1 /\ ~have_origin'
  BY DEF Loads, LoadProgram, LayoutInvariant, AtStart
<1>2. 1 .. next' - 1 = {}
  BY <1>1
<1>3. Chained(next - 1)'
  BY <1>1 DEF Chained
<1>4. EncodedUpTo(0)'
  <2>1. \A i \in 1 .. Len(program') : codes'[i] = <<>>
    BY DEF Loads, LoadProgram
  <2>2. \A i \in 1 .. Len(program') : ~(i <= 0)
    OBVIOUS
  <2> QED
    BY <2>1, <2>2 DEF EncodedUpTo
<1> QED
  BY <1>1, <1>2, <1>3, <1>4 DEF InPass1

(* .ORIG, which a well-formed program has on its first line only. *)
LEMMA PlaceOriginLayout ==
  ASSUME LayoutInvariant, PlaceOrigin PROVE InPass1'
<1>1. TypeOK /\ TypeOK'
  BY PlaceOriginType DEF LayoutInvariant
<1>2. /\ 1 .. next - 1 \subseteq LaidOut
      /\ EncodedUpTo(0)
  BY DEF LayoutInvariant, InPass1, PlaceOrigin
<1>3. /\ next \in 1 .. Len(program) /\ next \in Nat /\ next >= 1
      /\ Len(program) \in Nat /\ DOMAIN program = 1 .. Len(program)
  BY <1>1, ProgramType DEF TypeOK, PlaceOrigin
<1>4. next' = next + 1 /\ next' - 1 = next /\ next' # 1
  <2>1. next' = next + 1
    BY DEF PlaceOrigin
  <2> QED
    BY <1>3, <2>1
<1>5. program' = program /\ codes' = codes
  BY DEF PlaceOrigin
<1>6. 1 .. next' - 1 \subseteq LaidOut'
  BY <1>1, <1>2, <1>4, <1>5, LaidOutLine, ProgramFrame DEF PlaceOrigin
<1>7. ASSUME WellFormed' PROVE Chained(next - 1)'
  <2>1. WellFormed
    BY <1>5, <1>7, ProgramFrame
  <2>2. next = 1
    <3>1. next \notin 2 .. Len(program)
      BY <2>1 DEF WellFormed, PlaceOrigin, Line
    <3> QED
      BY <1>3, <3>1
  <2>3. address'[1] = origin'
    <3>1. 1 \in DOMAIN address
      BY <1>1, <1>3, <2>2 DEF TypeOK, LayoutTypeOK
    <3> QED
      BY <2>2, <3>1 DEF PlaceOrigin
  <2>4. Size(program'[1]) = 0
    <3>1. program'[1].operation = ".ORIG"
      BY <1>5, <2>1 DEF WellFormed
    <3> QED
      BY <3>1 DEF Size
  <2>5. After(1)' = lc'
    <3>1. origin' \in Word
      BY <1>1 DEF TypeOK, LayoutTypeOK
    <3>2. Wrap(origin' + 0) = origin'
      BY <3>1, WrapWord
    <3> QED
      BY <2>3, <2>4, <3>2 DEF After, PlaceOrigin
  <2>6. \A i \in 1 .. next' - 1 : i = 1 /\ ~(i < next' - 1)
    BY <1>4, <2>2
  <2> QED
    BY <2>3, <2>5, <2>6 DEF Chained
<1>8. EncodedUpTo(0)'
  BY <1>2, <1>5, EncodedFrame
<1> QED
  BY <1>4, <1>6, <1>7, <1>8 DEF InPass1

(* Any other line of pass 1. *)
LEMMA PlaceLayout == ASSUME LayoutInvariant, Place PROVE InPass1'
<1>1. TypeOK /\ TypeOK'
  BY PlaceType DEF LayoutInvariant
<1>2. /\ 1 .. next - 1 \subseteq LaidOut
      /\ WellFormed => Chained(next - 1)
      /\ EncodedUpTo(0)
  BY DEF LayoutInvariant, InPass1, Place
<1>3. /\ next \in 1 .. Len(program) /\ next \in Nat /\ next >= 1
      /\ Len(program) \in Nat /\ DOMAIN program = 1 .. Len(program)
  BY <1>1, ProgramType DEF TypeOK, Place
<1>4. next' = next + 1 /\ next' - 1 = next /\ next' # 1
  <2>1. next' = next + 1
    BY DEF Place
  <2> QED
    BY <1>3, <2>1
<1>5. program' = program /\ codes' = codes /\ origin' = origin
  BY DEF Place
<1>6. 1 .. next' - 1 \subseteq LaidOut'
  BY <1>1, <1>2, <1>4, <1>5, LaidOutLine, ProgramFrame DEF Place
<1>7. ASSUME WellFormed' PROVE Chained(next - 1)'
  <2>1. WellFormed /\ Chained(next - 1)
    BY <1>2, <1>5, <1>7, ProgramFrame
  <2>2. next # 1 /\ next - 1 >= 1
    <3>1. next # 1
      BY <2>1 DEF WellFormed, Place, Line
    <3> QED
      BY <1>3, <3>1
  <2>3. address' = [address EXCEPT ![next] = lc]
        /\ DOMAIN address = 1 .. Len(program)
    <3>1. address \in Seq(Word) /\ Len(address) = Len(program)
      BY <1>1 DEF TypeOK, LayoutTypeOK
    <3> QED
      BY <3>1 DEF Place
  <2>4. address'[next] = lc /\ \A i \in 1 .. next - 1 : address'[i] = address[i]
    BY <1>3, <2>3
  <2>5. address'[1] = origin'
    BY <1>5, <2>1, <2>2, <2>4, <1>3 DEF Chained
  <2>6. PICK n \in Nat : n = next
    BY <1>3
  <2>7. After(n)' = lc'
    <3>1. After(n)' = Wrap(address'[n] + Size(program'[n]))
      BY DEF After
    <3>2. lc' = Wrap(lc + Size(program[next]))
      BY DEF Place, Line
    <3> QED
      BY <1>5, <2>4, <2>6, <3>1, <3>2
  <2>8. \A i \in 1 .. next - 1 : After(i)' = address'[i + 1]
    <3> SUFFICES ASSUME NEW i \in 1 .. next - 1
                 PROVE  After(i)' = address'[i + 1]
      OBVIOUS
    <3>1. After(i)' = After(i)
      BY <1>5, <2>4 DEF After
    <3>2. CASE i = next - 1
      <4>1. After(i) = lc /\ i + 1 = next
        BY <1>3, <2>1, <3>2 DEF Chained
      <4> QED
        BY <2>4, <3>1, <4>1
    <3>3. CASE i # next - 1
      <4>1. i < next - 1 /\ i + 1 \in 1 .. next - 1
        BY <1>3, <3>3
      <4>2. After(i) = address[i + 1]
        BY <2>1, <4>1 DEF Chained
      <4> QED
        BY <2>4, <3>1, <4>1, <4>2
    <3> QED
      BY <3>2, <3>3
  <2>9. \A i \in 1 .. next :
          /\ i < next => i \in 1 .. next - 1
          /\ ~(i < next) => i = next
    BY <1>3
  <2>10. \A i \in 1 .. next :
          After(i)' = IF i < next THEN address'[i + 1] ELSE lc'
    <3> SUFFICES ASSUME NEW i \in 1 .. next
                 PROVE  After(i)' = IF i < next THEN address'[i + 1] ELSE lc'
      OBVIOUS
    <3>1. CASE i < next
      BY <2>8, <2>9, <3>1
    <3>2. CASE ~(i < next)
      <4>1. i = n
        BY <2>6, <2>9, <3>2
      <4> QED
        BY <2>7, <3>2, <4>1
    <3> QED
      BY <3>1, <3>2
  <2> QED
    BY <1>4, <2>5, <2>10 DEF Chained
<1>8. EncodedUpTo(0)'
  BY <1>2, <1>5, EncodedFrame
<1> QED
  BY <1>4, <1>6, <1>7, <1>8 DEF InPass1

(* Pass 1 ends at .END or behind the last line. *)
LEMMA EndPass1Layout ==
  ASSUME LayoutInvariant, EndPass1, phase' = "pass2" PROVE InPass2'
<1>1. TypeOK
  BY DEF LayoutInvariant
<1>2. /\ 1 .. next - 1 \subseteq LaidOut
      /\ next = 1 => ~have_origin
      /\ WellFormed => Chained(next - 1)
      /\ EncodedUpTo(0)
  BY DEF LayoutInvariant, InPass1, EndPass1
<1>3. /\ next \in Nat /\ next >= 1 /\ next <= Len(program) + 1
      /\ Len(program) \in Nat
  BY <1>1, ProgramType DEF TypeOK
<1>4. have_origin /\ next' = 1 /\ UNCHANGED <<program, layoutVars, codes>>
  BY DEF EndPass1, Exit
<1>5. next - 1 \in 1 .. Len(program) /\ next - 1 \in Nat /\ 1 <= (next - 1) + 1
  <2>1. next # 1
    BY <1>2, <1>4
  <2> QED
    BY <1>3, <2>1
<1>6. PlacedUpTo(next - 1)
  BY <1>1, <1>2, <1>5, LaidOutEnd DEF PlacedUpTo, EndPass1
<1> DEFINE last == next - 1
<1>7. PICK n \in Nat : n = last
  BY <1>5
<1>8. PlacedUpTo(n)'
  BY <1>4, <1>6, <1>7, LayoutFrame
<1>9. EncodedUpTo(0)'
  BY <1>2, <1>4, EncodedFrame
<1>10. EncodedUpTo(next - 1)'
  <2>1. next' = 1
    BY <1>4
  <2>2. next' - 1 = 0
    BY <2>1
  <2> QED
    BY <1>9, <2>2 DEF EncodedUpTo
<1>11. \A i \in next' .. Len(program') : codes'[i] = <<>>
  <2>1. \A i \in 1 .. Len(program) : ~(i <= 0)
    BY <1>3
  <2> QED
    BY <1>4, <1>9, <2>1 DEF EncodedUpTo
<1>12. next' <= n + 1
  BY <1>4, <1>5, <1>7
<1> QED
  BY <1>8, <1>10, <1>11, <1>12 DEF InPass2

(* Wherever pass 2 is, the current line is one pass 1 has placed. *)
LEMMA CurrentLinePlaced ==
  ASSUME TypeOK, More, NEW last \in Nat, LaidOut = 1 .. last, next <= last + 1
  PROVE  next <= last
<1>1. next \in Nat /\ next >= 1
  BY ProgramType DEF TypeOK
<1>2. 1 .. next - 1 \subseteq LaidOut
  BY <1>1
<1>3. next \in 1 .. last
  BY <1>1, <1>2, LaidOutLine
<1> QED
  BY <1>3

(* A line that succeeds has the codes pass 1 has counted. *)
LEMMA EmitLineLayout == ASSUME LayoutInvariant, EmitLine PROVE InPass2'
<1>1. TypeOK
  BY DEF LayoutInvariant
<1>2. PICK last \in Nat :
        /\ PlacedUpTo(last) /\ next <= last + 1
        /\ ok => EncodedUpTo(next - 1)
        /\ \A i \in next .. Len(program) : codes[i] = <<>>
  BY DEF LayoutInvariant, InPass2, EmitLine
<1>3. next <= last
  BY <1>1, <1>2, CurrentLinePlaced DEF PlacedUpTo, EmitLine
<1>4. /\ next \in 1 .. Len(program) /\ next \in Nat /\ next >= 1
      /\ Len(program) \in Nat /\ DOMAIN program = 1 .. Len(program)
  BY <1>1, ProgramType DEF TypeOK, EmitLine
<1>5. /\ UNCHANGED <<program, layoutVars, ok>>
      /\ codes' = [codes EXCEPT ![next] = LineCodes]
  BY DEF EmitLine
<1>6. next' = next + 1 /\ next' - 1 = next
  <2>1. next' = next + 1
    BY DEF EmitLine
  <2> QED
    BY <1>4, <2>1
<1>7. Size(Line) >= 0 => Len(LineCodes) = Size(Line)
  BY <1>1, LineCodesType DEF EmitLine
<1>8. /\ codes'[next] = LineCodes
      /\ \A i \in 1 .. Len(program) : i # next => codes'[i] = codes[i]
  <2>1. DOMAIN codes = 1 .. Len(program)
    <3>1. codes \in Seq(Seq(Word)) /\ Len(codes) = Len(program)
      BY <1>1 DEF TypeOK, CodesTypeOK
    <3> QED
      BY <3>1
  <2> HIDE DEF LineCodes
  <2> QED
    BY <1>4, <1>5, <2>1
<1>9. PlacedUpTo(last)'
  BY <1>2, <1>5, LayoutFrame
<1>10. next' <= last + 1
  BY <1>2, <1>3, <1>4, <1>6
<1>11. ASSUME ok' PROVE EncodedUpTo(next - 1)'
  <2>1. EncodedUpTo(next - 1)
    BY <1>2, <1>5, <1>11
  <2> HIDE DEF LineCodes
  <2>2. ASSUME NEW i \in 1 .. Len(program)
        PROVE  IF i <= next
               THEN Size(program[i]) >= 0 => Len(codes'[i]) = Size(program[i])
               ELSE codes'[i] = <<>>
    <3>1. CASE i = next
      BY <1>4, <1>7, <1>8, <3>1 DEF Line
    <3>2. CASE i # next
      <4>1. i <= next <=> i <= next - 1
        BY <1>4, <3>2
      <4>2. codes'[i] = codes[i]
        BY <1>8, <3>2
      <4> QED
        BY <2>1, <4>1, <4>2 DEF EncodedUpTo
    <3> QED
      BY <3>1, <3>2
  <2> QED
    BY <1>5, <1>6, <2>2 DEF EncodedUpTo
<1>12. \A i \in next' .. Len(program') : codes'[i] = <<>>
  <2>1. \A i \in next + 1 .. Len(program) :
          /\ i \in next .. Len(program) /\ i \in 1 .. Len(program) /\ i # next
    BY <1>4
  <2>2. \A i \in next + 1 .. Len(program) : codes'[i] = <<>>
    BY <1>2, <1>8, <2>1
  <2> QED
    BY <1>5, <1>6, <2>2
<1> QED
  BY <1>9, <1>10, <1>11, <1>12 DEF InPass2

(* A line that fails clears ok, and no line behind it has codes yet. *)
LEMMA RejectLineLayout == ASSUME LayoutInvariant, RejectLine PROVE InPass2'
<1>1. TypeOK
  BY DEF LayoutInvariant
<1>2. PICK last \in Nat :
        /\ PlacedUpTo(last) /\ next <= last + 1
        /\ \A i \in next .. Len(program) : codes[i] = <<>>
  BY DEF LayoutInvariant, InPass2, RejectLine
<1>3. next <= last
  BY <1>1, <1>2, CurrentLinePlaced DEF PlacedUpTo, RejectLine
<1>4. next \in Nat /\ Len(program) \in Nat
  BY <1>1, ProgramType DEF TypeOK
<1>5. /\ UNCHANGED <<program, layoutVars, codes>> /\ next' = next + 1
      /\ ok' = FALSE
  BY DEF RejectLine
<1>6. PlacedUpTo(last)'
  BY <1>2, <1>5, LayoutFrame
<1>7. next' <= last + 1
  <2>1. next + 1 <= last + 1
    BY <1>3, <1>4
  <2> QED
    BY <1>5, <2>1
<1>8. \A i \in next' .. Len(program') : codes'[i] = <<>>
  <2>1. \A i \in next + 1 .. Len(program) : i \in next .. Len(program)
    BY <1>4
  <2> QED
    BY <1>2, <1>5, <2>1
<1> QED
  BY <1>5, <1>6, <1>7, <1>8 DEF InPass2

(* Pass 2 ends where pass 1 ended. *)
LEMMA EndPass2Layout ==
  ASSUME LayoutInvariant, EndPass2, phase' = "open" PROVE AtOpen'
<1>1. TypeOK
  BY DEF LayoutInvariant
<1>2. ok /\ UNCHANGED <<program, layoutVars, codes>>
  BY DEF EndPass2, Exit
<1>3. PICK last \in Nat :
        PlacedUpTo(last) /\ next <= last + 1 /\ EncodedUpTo(next - 1)
  BY <1>2 DEF LayoutInvariant, InPass2, EndPass2
<1>4. next \in Nat /\ next >= 1
  BY <1>1, ProgramType DEF TypeOK
<1>5. 1 .. next - 1 \subseteq LaidOut
  BY <1>3, <1>4 DEF PlacedUpTo
<1>6. 1 .. last = 1 .. next - 1 /\ last \in 1 .. last
  BY <1>1, <1>3, <1>5, LaidOutEnd DEF PlacedUpTo, EndPass2
<1>7. last = next - 1
  <2>1. last \in 1 .. next - 1
    BY <1>6
  <2> QED
    BY <1>3, <1>4, <2>1
<1>8. PlacedUpTo(last)' /\ EncodedUpTo(last)'
  BY <1>2, <1>3, <1>7, LayoutFrame, EncodedFrame
<1> QED
  BY <1>8 DEF AtOpen

(* The header is two bytes; the first line is at the origin. *)
LEMMA OpenObjectLayout == ASSUME LayoutInvariant, OpenObject PROVE InWrite'
<1>1. PICK last \in Nat : PlacedUpTo(last) /\ EncodedUpTo(last)
  BY DEF LayoutInvariant, AtOpen, OpenObject
<1>2. UNCHANGED <<program, layoutVars, codes>> /\ next' = 1
  BY DEF OpenObject
<1>3. PlacedUpTo(last)' /\ EncodedUpTo(last)'
  BY <1>1, <1>2, LayoutFrame, EncodedFrame
<1>4. origin \in Word
  BY DEF LayoutInvariant, TypeOK, LayoutTypeOK
<1>5. Len(written') = 2 * (0 + 1)
  <2>1. <<origin>> \in Seq(Word) /\ Len(<<origin>>) = 1
    BY <1>4
  <2>2. Len(ToBytes(<<origin>>)) = 2 * 1
    BY <2>1, ToBytesType
  <2> QED
    BY <2>2 DEF OpenObject
<1>6. next' <= last
  BY <1>1, <1>2 DEF PlacedUpTo
<1>7. ASSUME WellFormed' PROVE Wrap(origin' + 0) = address'[next']
  <2>1. WellFormed /\ last >= 1
    BY <1>1, <1>2, <1>7, ProgramFrame DEF PlacedUpTo
  <2>2. address[1] = origin
    BY <1>1, <2>1 DEF PlacedUpTo, Chained
  <2>3. Wrap(origin + 0) = origin
    BY <1>4, WrapWord
  <2> QED
    BY <1>2, <2>2, <2>3 DEF layoutVars
<1> QED
  BY <1>3, <1>5, <1>6, <1>7 DEF InWrite

(* Writing a line's codes moves as far as pass 1 has moved on it. *)
LEMMA WriteLineLayout == ASSUME LayoutInvariant, WriteLine PROVE InWrite'
<1>1. TypeOK
  BY DEF LayoutInvariant
<1>2. PICK last \in Nat, n \in Nat :
        /\ PlacedUpTo(last) /\ EncodedUpTo(last)
        /\ Len(written) = 2 * (n + 1)
        /\ WellFormed =>
             Wrap(origin + n) = IF next <= last THEN address[next] ELSE lc
  BY DEF LayoutInvariant, InWrite, WriteLine
<1>3. /\ next \in 1 .. Len(program) /\ next \in Nat /\ next >= 1
      /\ Len(program) \in Nat /\ DOMAIN program = 1 .. Len(program)
  BY <1>1, ProgramType DEF TypeOK, WriteLine
<1>4. /\ UNCHANGED <<program, layoutVars, codes>> /\ next' = next + 1
  BY DEF WriteLine
<1>5. PlacedUpTo(last)' /\ EncodedUpTo(last)'
  BY <1>2, <1>4, LayoutFrame, EncodedFrame
<1> DEFINE more == Len(codes[next])
<1>6. more \in Nat /\ Len(written') = 2 * ((n + more) + 1)
  <2>1. codes[next] \in Seq(Word)
    <3>1. codes \in Seq(Seq(Word)) /\ next \in 1 .. Len(codes)
      BY <1>1, <1>3 DEF TypeOK, CodesTypeOK
    <3> QED
      BY <3>1, ElementOfSeq
  <2>2. ToBytes(codes[next]) \in Seq(Byte)
        /\ Len(ToBytes(codes[next])) = 2 * more /\ more \in Nat
    BY <2>1, ToBytesType
  <2>3. written \in Seq(Byte)
    BY <1>1 DEF TypeOK, FileTypeOK
  <2>4. Len(written') = Len(written) + 2 * more
    <3>1. written' = written \o ToBytes(codes[next])
      BY DEF WriteLine
    <3>2. Len(written \o ToBytes(codes[next]))
            = Len(written) + Len(ToBytes(codes[next]))
      BY <2>2, <2>3, ConcatProperties
    <3> QED
      BY <2>2, <3>1, <3>2
  <2> HIDE DEF more
  <2> QED
    BY <1>2, <2>2, <2>4
<1> HIDE DEF more
<1>7. ASSUME WellFormed'
      PROVE  Wrap(origin + (n + more))
               = IF next + 1 <= last THEN address[next + 1] ELSE lc
  <2>1. WellFormed /\ Chained(last)
    BY <1>2, <1>4, <1>7, ProgramFrame DEF PlacedUpTo
  <2>2. origin \in Int
    BY <1>1, WordBounds DEF TypeOK, LayoutTypeOK
  <2>3. CASE next <= last
    <3>1. more = Size(program[next])
      <4>1. Size(program[next]) >= 0
        BY <1>3, <2>1 DEF WellFormed
      <4> QED
        BY <1>2, <1>3, <2>3, <4>1 DEF EncodedUpTo, more
    <3>2. Wrap(origin + n) = address[next]
      BY <1>2, <2>1, <2>3
    <3>3. Wrap(Wrap(origin + n) + more) = Wrap((origin + n) + more)
      BY <1>6, <2>2, WrapSum
    <3>4. (origin + n) + more = origin + (n + more)
      BY <1>6, <2>2
    <3>5. After(next) = Wrap(origin + (n + more))
      BY <3>1, <3>2, <3>3, <3>4 DEF After
    <3>6. /\ next \in 1 .. last
          /\ next < last <=> next + 1 <= last
      BY <1>3, <2>3
    <3> QED
      BY <2>1, <3>5, <3>6 DEF Chained
  <2>4. CASE ~(next <= last)
    <3>1. more = 0 /\ ~(next + 1 <= last)
      <4>1. codes[next] = <<>>
        BY <1>2, <1>3, <2>4 DEF EncodedUpTo
      <4> QED
        BY <1>3, <2>4, <4>1 DEF more
    <3>2. n + more = n
      BY <3>1
    <3> QED
      BY <1>2, <2>1, <2>4, <3>1, <3>2
  <2> QED
    BY <2>3, <2>4
<1>8. WellFormed' =>
        Wrap(origin' + (n + more))
          = IF next' <= last THEN address'[next'] ELSE lc'
  BY <1>4, <1>7 DEF layoutVars
<1>9. n + more \in Nat
  BY <1>6
<1> QED
  BY <1>5, <1>6, <1>8, <1>9 DEF InWrite

(* A step that ends the process has nothing left to show. *)
LEMMA EndLayout ==
  ASSUME phase' = "ended"
  PROVE  AtStart' /\ InPass1' /\ InPass2' /\ AtOpen' /\ InWrite'
  BY DEF AtStart, InPass1, InPass2, AtOpen, InWrite

(* A step that stays in the phase it is in, or enters the next one, has to
   show that phase's part only. *)
LEMMA NextLayout ==
  ASSUME LayoutInvariant, Loads \/ [Next]_vars PROVE LayoutInvariant'
<1>1. TypeOK'
  BY NextType DEF LayoutInvariant
<1>2. ASSUME phase' = "ended" PROVE LayoutInvariant'
  BY <1>1, <1>2, EndLayout DEF LayoutInvariant
<1>3. CASE \/ Usage \/ SourceMissing \/ CrashOnLine \/ OpenFails
           \/ CloseObject \/ Interrupt
  BY <1>2, <1>3 DEF Usage, SourceMissing, CrashOnLine, OpenFails,
                    CloseObject, Interrupt, Exit
<1>4. ASSUME phase' = "pass1", InPass1' PROVE LayoutInvariant'
  BY <1>1, <1>4 DEF LayoutInvariant, AtStart, InPass2, AtOpen, InWrite
<1>5. ASSUME phase' = "pass2", InPass2' PROVE LayoutInvariant'
  BY <1>1, <1>5 DEF LayoutInvariant, AtStart, InPass1, AtOpen, InWrite
<1>6. ASSUME phase' = "open", AtOpen' PROVE LayoutInvariant'
  BY <1>1, <1>6 DEF LayoutInvariant, AtStart, InPass1, InPass2, InWrite
<1>7. ASSUME phase' = "write", InWrite' PROVE LayoutInvariant'
  BY <1>1, <1>7 DEF LayoutInvariant, AtStart, InPass1, InPass2, AtOpen
<1>8. CASE Loads
  BY <1>4, <1>8, LoadsLayout DEF Loads, LoadProgram
<1>9. CASE PlaceOrigin
  BY <1>4, <1>9, PlaceOriginLayout DEF PlaceOrigin
<1>10. CASE Place
  BY <1>4, <1>10, PlaceLayout DEF Place
<1>11. CASE EndPass1
  <2>1. phase' = "pass2" \/ phase' = "ended"
    BY <1>11 DEF EndPass1, Exit
  <2> QED
    BY <1>2, <1>5, <1>11, <2>1, EndPass1Layout
<1>12. CASE EmitLine
  BY <1>5, <1>12, EmitLineLayout DEF EmitLine
<1>13. CASE RejectLine
  BY <1>5, <1>13, RejectLineLayout DEF RejectLine
<1>14. CASE EndPass2
  <2>1. phase' = "open" \/ phase' = "ended"
    BY <1>14 DEF EndPass2, Exit
  <2> QED
    BY <1>2, <1>6, <1>14, <2>1, EndPass2Layout
<1>15. CASE OpenObject
  BY <1>7, <1>15, OpenObjectLayout DEF OpenObject
<1>16. CASE WriteLine
  BY <1>7, <1>16, WriteLineLayout DEF WriteLine
<1>17. CASE UNCHANGED vars
  <2>1. /\ UNCHANGED <<program, layoutVars, codes, ok, written, next, phase>>
        /\ have_origin' = have_origin
    BY <1>17 DEF vars, layoutVars, fileVars
  <2>2. /\ \A last : PlacedUpTo(last)' <=> PlacedUpTo(last)
        /\ \A last : EncodedUpTo(last)' <=> EncodedUpTo(last)
        /\ LaidOut' = LaidOut /\ (WellFormed' <=> WellFormed)
    BY <2>1, LayoutFrame, EncodedFrame, ProgramFrame
  <2>3. AtStart'
    BY <2>1 DEF LayoutInvariant, AtStart
  <2>4. InPass1'
    BY <2>1, <2>2 DEF LayoutInvariant, InPass1, Chained, After, EncodedUpTo,
                      layoutVars
  <2>5. InPass2'
    BY <2>1, <2>2 DEF LayoutInvariant, InPass2, EncodedUpTo
  <2>6. AtOpen'
    BY <2>1, <2>2 DEF LayoutInvariant, AtOpen
  <2>7. InWrite'
    BY <2>1, <2>2 DEF LayoutInvariant, InWrite, layoutVars
  <2> QED
    BY <1>1, <2>3, <2>4, <2>5, <2>6, <2>7 DEF LayoutInvariant
<1> QED
  BY <1>3, <1>8, <1>9, <1>10, <1>11, <1>12, <1>13, <1>14, <1>15, <1>16, <1>17,
     ReadSourceLoads
     DEF Next, AssemblerNext, Passes, Ended

(* What the writing loop needs is what was asked for. *)
LEMMA LayoutIsEnough ==
  ASSUME LayoutInvariant PROVE WordsLieAtTheirAddress
<1> SUFFICES ASSUME phase = "write", WellFormed
             PROVE  Wrap(origin + WordsWritten)
                      = IF next \in LaidOut THEN address[next] ELSE lc
  BY DEF WordsLieAtTheirAddress
<1>1. PICK last \in Nat, n \in Nat :
        /\ LaidOut = 1 .. last
        /\ Len(written) = 2 * (n + 1)
        /\ Wrap(origin + n) = IF next <= last THEN address[next] ELSE lc
  BY DEF LayoutInvariant, InWrite, PlacedUpTo
<1>2. next \in Nat /\ next >= 1
  BY ProgramType DEF LayoutInvariant, TypeOK
<1>3. next \in LaidOut <=> next <= last
  BY <1>1, <1>2
<1>4. WordsWritten = n
  <2>1. (2 * (n + 1)) \div 2 = n + 1
    OBVIOUS
  <2> QED
    BY <1>1, <2>1 DEF WordsWritten
<1> QED
  BY <1>1, <1>3, <1>4

(* The two passes agree, whatever the program: each word of the object file
   of a well-formed program is written where pass 1 has put its line. *)
THEOREM WordsInPlace == Spec => []WordsLieAtTheirAddress
<1>1. Init => LayoutInvariant
  BY InitType DEF Init, LayoutInvariant, AtStart, InPass1, InPass2, AtOpen,
                  InWrite
<1>2. LayoutInvariant /\ [Next]_vars => LayoutInvariant'
  BY NextLayout
<1>3. LayoutInvariant => WordsLieAtTheirAddress
  BY LayoutIsEnough
<1> QED
  BY <1>1, <1>2, <1>3, PTL DEF Spec

-----------------------------------------------------------------------------
(* The symbol table.  Pass 1 binds each label to the first line that        *)
(* carries it, and a search of the table finds that line's address.         *)

(* The lines up to n that define a label. *)
Definers(lines, label, n) ==
  {i \in 1 .. n : lines[i].label = label /\ lines[i].operation # ".ORIG"}

First(i, S) == i \in S /\ \A j \in S : i <= j

(* What the table rows say of a label is what lines 1 to n say. *)
Bound(rows, lines, at, label, n) ==
  /\ Rows(rows, label) = {} <=> Definers(lines, label, n) = {}
  /\ \A i \in Definers(lines, label, n) :
       First(i, Definers(lines, label, n)) => AddressOf(rows, label) = at[i]

(* A row more. *)
LEMMA AppendedRow ==
  ASSUME NEW rows \in Seq(Symbols), NEW row \in Symbols, NEW label
  PROVE  /\ row.label # label =>
              /\ Rows(Append(rows, row), label) = Rows(rows, label)
              /\ Rows(rows, label) # {} =>
                   AddressOf(Append(rows, row), label) = AddressOf(rows, label)
         /\ row.label = label =>
              /\ Rows(Append(rows, row), label) # {}
              /\ AddressOf(Append(rows, row), label)
                   = IF Rows(rows, label) # {} THEN AddressOf(rows, label)
                     ELSE row.address
<1> DEFINE more == Append(rows, row)
           last == Len(rows) + 1
<1>1. /\ Len(rows) \in Nat /\ last \in Nat
      /\ DOMAIN rows = 1 .. Len(rows) /\ DOMAIN more = 1 .. last
      /\ more[last] = row /\ \A i \in 1 .. Len(rows) : more[i] = rows[i]
  BY AppendProperties
<1> HIDE DEF more
<1>2. Rows(more, label)
        = Rows(rows, label) \cup (IF row.label = label THEN {last} ELSE {})
  BY <1>1 DEF Rows
<1>3. \A i \in Rows(rows, label) : i \in Nat /\ i < last /\ more[i] = rows[i]
  BY <1>1 DEF Rows
<1>4. ASSUME Rows(rows, label) # {}
      PROVE  AddressOf(more, label) = AddressOf(rows, label)
  <2>1. PICK i \in Rows(rows, label) : \A j \in Rows(rows, label) : i <= j
    BY <1>4, AddressOfFirst
  <2>2. AddressOf(rows, label) = rows[i].address
    <3>1. (CHOOSE k \in Rows(rows, label) :
             \A j \in Rows(rows, label) : k <= j) = i
      BY <1>3, <2>1
    <3> QED
      BY <3>1 DEF AddressOf
  <2>3. AddressOf(more, label) = more[i].address
    <3>1. i \in Rows(more, label) /\ \A j \in Rows(more, label) : i <= j
      BY <1>1, <1>2, <1>3, <2>1
    <3>2. \A j \in Rows(more, label) : j \in Nat
      BY <1>1, <1>2, <1>3
    <3>3. (CHOOSE k \in Rows(more, label) :
             \A j \in Rows(more, label) : k <= j) = i
      BY <3>1, <3>2
    <3> QED
      BY <3>3 DEF AddressOf
  <2> QED
    BY <1>3, <2>1, <2>2, <2>3
<1>5. ASSUME row.label = label, Rows(rows, label) = {}
      PROVE  AddressOf(more, label) = row.address
  <2>1. Rows(more, label) = {last}
    BY <1>2, <1>5
  <2>2. (CHOOSE k \in Rows(more, label) :
           \A j \in Rows(more, label) : k <= j) = last
    BY <1>1, <2>1
  <2> QED
    BY <1>1, <2>2 DEF AddressOf
<1> QED
  BY <1>2, <1>4, <1>5 DEF more

(* A line that does not define the label leaves it bound as it was. *)
LEMMA BoundKept ==
  ASSUME NEW rows, NEW more, NEW lines, NEW at, NEW moved, NEW label,
         NEW n \in Nat, n >= 1,
         Bound(rows, lines, at, label, n - 1),
         AgreeUpTo(moved, at, n - 1),
         lines[n].operation = ".ORIG" \/ lines[n].label # label,
         Rows(more, label) = Rows(rows, label),
         Rows(rows, label) # {} => AddressOf(more, label) = AddressOf(rows, label)
  PROVE  Bound(more, lines, moved, label, n)
<1>1. \A i \in 1 .. n : i = n \/ i \in 1 .. n - 1
  OBVIOUS
<1>2. \A i \in 1 .. n - 1 : i \in 1 .. n
  OBVIOUS
<1>3. Definers(lines, label, n) = Definers(lines, label, n - 1)
  BY <1>1, <1>2 DEF Definers
<1>4. \A i \in Definers(lines, label, n - 1) : moved[i] = at[i]
  BY DEF Definers, AgreeUpTo
<1>5. \A i \in Definers(lines, label, n - 1) : Rows(rows, label) # {}
  BY DEF Bound
<1> QED
  BY <1>3, <1>4, <1>5 DEF Bound

(* A line that does define it is bound to its own address, unless an earlier
   one was. *)
LEMMA BoundAdded ==
  ASSUME NEW rows \in Seq(Symbols), NEW row \in Symbols, NEW lines, NEW at,
         NEW moved, NEW n \in Nat, n >= 1,
         Bound(rows, lines, at, row.label, n - 1),
         AgreeUpTo(moved, at, n - 1), moved[n] = row.address,
         lines[n].operation # ".ORIG", lines[n].label = row.label
  PROVE  Bound(Append(rows, row), lines, moved, row.label, n)
<1> DEFINE before == Definers(lines, row.label, n - 1)
           now == Definers(lines, row.label, n)
<1>1. now = before \cup {n} /\ \A i \in before : i \in Nat /\ i < n
  <2>1. \A i \in 1 .. n : i = n \/ i \in 1 .. n - 1
    OBVIOUS
  <2>2. n \in 1 .. n /\ \A i \in 1 .. n - 1 : i \in 1 .. n /\ i < n /\ i \in Nat
    OBVIOUS
  <2> QED
    BY <2>1, <2>2 DEF Definers
<1>2. /\ Rows(Append(rows, row), row.label) # {}
      /\ AddressOf(Append(rows, row), row.label)
           = IF Rows(rows, row.label) # {} THEN AddressOf(rows, row.label)
             ELSE row.address
  BY AppendedRow
<1>3. Rows(rows, row.label) = {} <=> before = {}
  BY DEF Bound
<1>4. \A i \in before : First(i, before) => AddressOf(rows, row.label) = at[i]
  BY DEF Bound
<1>5. \A i \in before : moved[i] = at[i]
  BY DEF Definers, AgreeUpTo
<1> HIDE DEF before, now
<1>6. ASSUME NEW i \in now, First(i, now)
      PROVE  AddressOf(Append(rows, row), row.label) = moved[i]
  <2>1. CASE before = {}
    <3>1. i = n
      BY <1>1, <2>1
    <3> QED
      BY <1>2, <1>3, <2>1, <3>1
  <2>2. CASE before # {}
    <3>1. i \in before
      BY <1>1, <1>6, <2>2 DEF First
    <3>2. First(i, before)
      BY <1>1, <1>6, <3>1 DEF First
    <3> QED
      BY <1>2, <1>3, <1>4, <1>5, <2>2, <3>1, <3>2
  <2> QED
    BY <2>1, <2>2
<1>7. now # {}
  BY <1>1
<1> QED
  BY <1>2, <1>6, <1>7 DEF Bound, now

(* Every label is bound to the first line that defines it. *)
Resolved ==
  \A label \in Labels :
    /\ Rows(table, label) # {} <=> Defined(label)
    /\ Defined(label) => AddressOf(table, label) = Target(label)

TableInvariant ==
  /\ phase = "start" => table = <<>>
  /\ phase = "pass1" =>
       \A label \in Labels : Bound(table, program, address, label, next - 1)
  /\ phase \in {"pass2", "open", "write"} => Resolved

LEMMA ResolvedFrame ==
  ASSUME UNCHANGED <<program, layoutVars>>
  PROVE  Resolved' <=> Resolved
  BY DEF Resolved, Defined, Target, LaidOut, layoutVars

(* Once pass 1 is over, the lines it has looked at are the ones laid out. *)
LEMMA BoundIsResolved ==
  ASSUME NEW last \in Nat, LaidOut = 1 .. last,
         \A label \in Labels : Bound(table, program, address, label, last)
  PROVE  Resolved
<1> SUFFICES ASSUME NEW label \in Labels
             PROVE  /\ Rows(table, label) # {} <=> Defined(label)
                    /\ Defined(label) => AddressOf(table, label) = Target(label)
  BY DEF Resolved
<1> DEFINE S == Definers(program, label, last)
<1>1. S = {i \in LaidOut : program[i].label = label
                           /\ program[i].operation # ".ORIG"}
  BY DEF Definers
<1>2. S \subseteq Nat
  BY DEF Definers
<1>3. Rows(table, label) = {} <=> S = {}
  BY DEF Bound
<1>4. \A i \in S : First(i, S) => AddressOf(table, label) = address[i]
  BY DEF Bound
<1>5. Defined(label) <=> S # {}
  BY <1>1 DEF Defined
<1>6. Target(label) = address[CHOOSE i \in S : \A j \in S : i <= j]
  BY <1>1 DEF Target
<1> HIDE DEF S
<1>7. ASSUME S # {} PROVE AddressOf(table, label) = Target(label)
  <2>1. \E i \in S : \A j \in S : i <= j
    BY <1>2, <1>7, LeastElement
  <2> DEFINE i == CHOOSE k \in S : \A j \in S : k <= j
  <2>2. i \in S /\ \A j \in S : i <= j
    BY <2>1
  <2>3. Target(label) = address[i]
    BY <1>6
  <2> HIDE DEF i
  <2> QED
    BY <1>4, <2>2, <2>3 DEF First
<1> QED
  BY <1>3, <1>5, <1>7

(* One line of pass 1. *)
LEMMA PlaceOriginTable ==
  ASSUME TypeOK, TableInvariant, PlaceOrigin PROVE TableInvariant'
<1>1. next \in Nat /\ next >= 1 /\ next' = next + 1 /\ next' - 1 = next
  BY ProgramType DEF TypeOK, PlaceOrigin
<1>2. AgreeUpTo(address', address, next - 1)
  <2>1. \A i \in 1 .. next - 1 : i # next
    BY <1>1
  <2>2. DOMAIN address = 1 .. Len(program)
    <3>1. address \in Seq(Word) /\ Len(address) = Len(program)
      BY DEF TypeOK, LayoutTypeOK
    <3> QED
      BY <3>1
  <2>3. next - 1 <= Len(program) /\ Len(program) \in Nat
    BY <1>1, ProgramType DEF TypeOK
  <2>4. \A i \in 1 .. next - 1 : i \in DOMAIN address
    BY <1>1, <2>2, <2>3
  <2>5. address' = [address EXCEPT ![next] = origin']
    BY DEF PlaceOrigin
  <2> QED
    BY <2>1, <2>4, <2>5 DEF AgreeUpTo
<1>3. ASSUME NEW label \in Labels
      PROVE  Bound(table, program, address', label, next)
  <2>1. Bound(table, program, address, label, next - 1)
    BY DEF TableInvariant, PlaceOrigin
  <2>2. program[next].operation = ".ORIG"
    BY DEF PlaceOrigin, Line
  <2> QED
    BY <1>1, <1>2, <2>1, <2>2, BoundKept
<1>4. program' = program /\ table' = table /\ phase' = "pass1"
  BY DEF PlaceOrigin
<1> QED
  BY <1>1, <1>3, <1>4 DEF TableInvariant

LEMMA PlaceTable ==
  ASSUME TypeOK, TableInvariant, Place PROVE TableInvariant'
<1>1. next \in Nat /\ next >= 1 /\ next' = next + 1 /\ next' - 1 = next
  BY ProgramType DEF TypeOK, Place
<1>2. AgreeUpTo(address', address, next - 1) /\ address'[next] = lc
  <2>1. \A i \in 1 .. next - 1 : i # next
    BY <1>1
  <2>2. DOMAIN address = 1 .. Len(program)
    <3>1. address \in Seq(Word) /\ Len(address) = Len(program)
      BY DEF TypeOK, LayoutTypeOK
    <3> QED
      BY <3>1
  <2>3. next - 1 <= Len(program) /\ Len(program) \in Nat
    BY <1>1, ProgramType DEF TypeOK
  <2>4. \A i \in 1 .. next - 1 : i \in DOMAIN address
    BY <1>1, <2>2, <2>3
  <2>5. next \in DOMAIN address
    BY <2>2, ProgramType DEF TypeOK, Place
  <2>6. address' = [address EXCEPT ![next] = lc]
    BY DEF Place
  <2> QED
    BY <2>1, <2>4, <2>5, <2>6 DEF AgreeUpTo
<1>3. program' = program /\ phase' = "pass1"
  BY DEF Place
<1>4. table \in Seq(Symbols) /\ lc \in Word
  BY DEF TypeOK, LayoutTypeOK, Symbols
<1>5. program[next].operation # ".ORIG"
  BY DEF Place, Line
<1>6. ASSUME NEW label \in Labels
      PROVE  Bound(table', program, address', label, next)
  <2>1. Bound(table, program, address, label, next - 1)
    BY DEF TableInvariant, Place
  <2>2. CASE Line.label = NoLabel
    <3>1. table' = table /\ program[next].label # label
      BY <2>2, LabelsAssumption DEF Place, Line
    <3> QED
      BY <1>1, <1>2, <2>1, <3>1, BoundKept
  <2>3. CASE Line.label # NoLabel
    <3>1. Line.label \in Labels
      <4>1. Line \in Lines
        BY ProgramType DEF TypeOK, Place
      <4> QED
        BY <2>3, <4>1 DEF Lines
    <3>2. PICK row \in Symbols :
            row.label = Line.label /\ row.address = lc
            /\ table' = Append(table, row)
      <4>1. [label |-> Line.label, address |-> lc] \in Symbols
        BY <1>4, <3>1 DEF Symbols
      <4> QED
        BY <2>3, <4>1 DEF Place
    <3>3. CASE row.label = label
      BY <1>1, <1>2, <1>4, <1>5, <2>1, <3>2, <3>3, BoundAdded DEF Line
    <3>4. CASE row.label # label
      <4>1. /\ Rows(table', label) = Rows(table, label)
            /\ Rows(table, label) # {} =>
                 AddressOf(table', label) = AddressOf(table, label)
        BY <1>4, <3>2, <3>4, AppendedRow
      <4>2. program[next].label # label
        BY <3>2, <3>4 DEF Line
      <4> QED
        BY <1>1, <1>2, <2>1, <4>1, <4>2, BoundKept
    <3> QED
      BY <3>3, <3>4
  <2> QED
    BY <2>2, <2>3
<1> QED
  BY <1>1, <1>3, <1>6 DEF TableInvariant

(* Only pass 1 writes into the table. *)
LEMMA NextTable ==
  ASSUME LayoutInvariant, TableInvariant, Loads \/ [Next]_vars
  PROVE  TableInvariant'
<1>1. TypeOK
  BY DEF LayoutInvariant
<1>2. ASSUME phase' = "ended" PROVE TableInvariant'
  BY <1>2 DEF TableInvariant
<1>3. ASSUME UNCHANGED <<program, layoutVars>>,
             phase \in {"pass2", "open", "write"},
             phase' \in {"pass2", "open", "write", "ended"}
      PROVE  TableInvariant'
  <2>1. Resolved'
    BY <1>3, ResolvedFrame DEF TableInvariant
  <2> QED
    BY <1>3, <2>1 DEF TableInvariant
<1>4. CASE \/ Usage \/ SourceMissing \/ CrashOnLine \/ OpenFails
           \/ CloseObject \/ Interrupt
  BY <1>2, <1>4 DEF Usage, SourceMissing, CrashOnLine, OpenFails,
                    CloseObject, Interrupt, Exit
<1>5. CASE Loads
  <2>1. /\ phase' = "pass1" /\ next' - 1 = 0 /\ table' = <<>>
    BY <1>5 DEF Loads, LoadProgram, TableInvariant
  <2>2. \A label : Rows(<<>>, label) = {}
    BY DEF Rows
  <2>3. \A label : Definers(program', label, 0) = {}
    BY DEF Definers
  <2> QED
    BY <2>1, <2>2, <2>3 DEF TableInvariant, Bound
<1>6. CASE PlaceOrigin
  BY <1>1, <1>6, PlaceOriginTable
<1>7. CASE Place
  BY <1>1, <1>7, PlaceTable
<1>8. CASE EndPass1
  <2>1. CASE phase' = "pass2"
    <3>1. /\ 1 .. next - 1 \subseteq LaidOut
          /\ \A label \in Labels :
               Bound(table, program, address, label, next - 1)
      BY <1>8 DEF LayoutInvariant, InPass1, EndPass1, TableInvariant
    <3>2. LaidOut = 1 .. next - 1
      BY <1>1, <1>8, <3>1, LaidOutEnd DEF EndPass1
    <3>3. next - 1 \in Nat
      BY <1>1, ProgramType DEF TypeOK
    <3>4. Resolved
      BY <3>1, <3>2, <3>3, BoundIsResolved
    <3>5. UNCHANGED <<program, layoutVars>>
      BY <1>8 DEF EndPass1
    <3>6. Resolved'
      BY <3>4, <3>5, ResolvedFrame
    <3> QED
      BY <2>1, <3>6 DEF TableInvariant
  <2>2. CASE phase' = "ended"
    BY <1>2, <2>2
  <2> QED
    BY <1>8, <2>1, <2>2 DEF EndPass1, Exit
<1>9. CASE EmitLine \/ RejectLine \/ EndPass2 \/ OpenObject \/ WriteLine
  BY <1>3, <1>9 DEF EmitLine, RejectLine, EndPass2, OpenObject, WriteLine,
                    Exit
<1>10. CASE UNCHANGED vars
  <2>1. UNCHANGED <<program, layoutVars, table, address, next, phase>>
    BY <1>10 DEF vars, layoutVars
  <2>2. Resolved' <=> Resolved
    BY <2>1, ResolvedFrame
  <2> QED
    BY <2>1, <2>2 DEF TableInvariant
<1> QED
  BY <1>4, <1>5, <1>6, <1>7, <1>8, <1>9, <1>10, ReadSourceLoads
     DEF Next, AssemblerNext, Passes, Ended

-----------------------------------------------------------------------------
(* When a line of pass 2 succeeds: exactly when it is not hopeless.         *)

LEMMA SameRange ==
  ASSUME NEW m \in Nat, NEW n \in Nat, 1 .. m = 1 .. n PROVE m = n
<1>1. m >= 1 => m \in 1 .. n
  BY SMT
<1>2. n >= 1 => n \in 1 .. m
  BY SMT
<1> QED
  BY <1>1, <1>2

(* A well-typed line has the operands its kinds say. *)
LEMMA KindsAre ==
  ASSUME NEW line \in Lines
  PROVE  /\ Kinds(line) = <<>> => line.operands = <<>> /\ Len(line.operands) = 0
         /\ \A a : Kinds(line) = <<a>> =>
              /\ line.operands # <<>> /\ Len(line.operands) = 1
              /\ line.operands[1].type = a
         /\ \A a, b : Kinds(line) = <<a, b>> =>
              /\ line.operands # <<>> /\ Len(line.operands) = 2
              /\ line.operands[1].type = a /\ line.operands[2].type = b
         /\ \A a, b, c : Kinds(line) = <<a, b, c>> =>
              /\ line.operands # <<>> /\ Len(line.operands) = 3
              /\ line.operands[1].type = a /\ line.operands[2].type = b
              /\ line.operands[3].type = c
<1> DEFINE s == line.operands
           k == [n \in DOMAIN s |-> s[n].type]
<1>1. s \in Seq(Operands) /\ Len(s) \in Nat /\ DOMAIN s = 1 .. Len(s)
  BY DEF Lines
<1>2. Kinds(line) = k
  BY DEF Kinds
<1>3. DOMAIN k = 1 .. Len(s) /\ \A n \in 1 .. Len(s) : k[n] = s[n].type
  BY <1>1
<1> HIDE DEF s, k
<1>4. ASSUME k = <<>> PROVE s = <<>> /\ Len(s) = 0
  BY <1>1, <1>3, <1>4, EmptySeq
<1>5. ASSUME NEW a, k = <<a>> PROVE s # <<>> /\ Len(s) = 1 /\ s[1].type = a
  <2>1. DOMAIN k = 1 .. 1 /\ k[1] = a
    BY <1>5
  <2>2. Len(s) = 1
    BY <1>1, <1>3, <2>1, SameRange
  <2> QED
    BY <1>1, <1>3, <2>1, <2>2
<1>6. ASSUME NEW a, NEW b, k = <<a, b>>
      PROVE  s # <<>> /\ Len(s) = 2 /\ s[1].type = a /\ s[2].type = b
  <2>1. DOMAIN k = 1 .. 2 /\ k[1] = a /\ k[2] = b
    BY <1>6
  <2>2. Len(s) = 2
    BY <1>1, <1>3, <2>1, SameRange
  <2> QED
    BY <1>1, <1>3, <2>1, <2>2
<1>7. ASSUME NEW a, NEW b, NEW c, k = <<a, b, c>>
      PROVE  /\ s # <<>> /\ Len(s) = 3
             /\ s[1].type = a /\ s[2].type = b /\ s[3].type = c
  <2>1. DOMAIN k = 1 .. 3 /\ k[1] = a /\ k[2] = b /\ k[3] = c
    BY <1>7
  <2>2. Len(s) = 3
    BY <1>1, <1>3, <2>1, SameRange
  <2>3. 1 \in 1 .. 3 /\ 2 \in 1 .. 3 /\ 3 \in 1 .. 3
    OBVIOUS
  <2>4. s[1].type = k[1] /\ s[2].type = k[2] /\ s[3].type = k[3]
    BY <1>3, <2>2, <2>3
  <2>5. s # <<>>
    BY <2>2, EmptySeq
  <2> QED
    BY <2>1, <2>2, <2>4, <2>5
<1> QED
  BY <1>2, <1>4, <1>5, <1>6, <1>7 DEF s

(* What the encoders make of an operand of each kind. *)
LEMMA OperandAt ==
  ASSUME NEW line \in Lines, NEW n \in Nat \ {0}, n <= Len(line.operands)
  PROVE  LET o == line.operands[n] IN
         /\ Operand(line, n) = o
         /\ o.type = "register" =>
              /\ RegisterCode(o) = o.register /\ o.register \in 0 .. 9
              /\ SecondSource(o) = o.register
         /\ o.type = "integer" => o.integer \in Int
         /\ o.type = "label" => o.label \in Labels /\ o # Missing
         /\ o.type = "string" => o.string \in Seq(Byte)
<1> DEFINE o == line.operands[n]
<1>1. o \in Operands
  BY ElementOfSeq DEF Lines
<1>2. Operand(line, n) = o
  BY DEF Operand
<1> HIDE DEF o
<1>3. o.type = "register" => o.register \in 0 .. 9 /\ o.register # NoRegister
  BY <1>1 DEF Operands, RegisterCodes
<1>4. o.type = "register" => /\ RegisterCode(o) = o.register
                             /\ SecondSource(o) = o.register
  BY <1>3 DEF RegisterCode, SecondSource
<1>5. Missing.type = "register"
  BY DEF Missing, Register
<1>6. o.type = "label" => o.label \in Labels /\ o # Missing
  BY <1>1, <1>5 DEF Operands
<1>7. o.integer \in Int /\ o.string \in Seq(Byte)
  BY <1>1 DEF Operands
<1> QED
  BY <1>2, <1>3, <1>4, <1>6, <1>7 DEF o

(* Pass 1 is over and i is a line. *)
Settled(i) ==
  /\ TypeOK /\ Resolved /\ phase # "pass1"
  /\ i \in 1 .. Len(program)

LEMMA SettledTypes ==
  ASSUME NEW i, Settled(i)
  PROVE  /\ program[i] \in Lines /\ address[i] \in Word /\ address[i] \in Int
         /\ table \in Seq(Symbols)
<1>1. program \in Seq(Lines) /\ address \in Seq(Word)
      /\ Len(address) = Len(program) /\ table \in Seq(Symbols)
  BY DEF Settled, TypeOK, ControlTypeOK, LayoutTypeOK, Symbols
<1>2. program[i] \in Lines /\ address[i] \in Word
  BY <1>1, ElementOfSeq DEF Settled
<1> QED
  BY <1>1, <1>2, WordBounds

(* A label operand is the address of its first definition, or an error. *)
LEMMA LabelOperand ==
  ASSUME NEW i, Settled(i), NEW operand,
         operand.type = "label", operand.label \in Labels, operand # Missing
  PROVE  /\ Defined(operand.label) =>
              /\ SymbolOf(table, operand) = Target(operand.label)
              /\ Target(operand.label) \in Word
         /\ ~Defined(operand.label) => SymbolOf(table, operand) = Error
<1>1. table \in Seq(Symbols)
  BY SettledTypes
<1>2. /\ Rows(table, operand.label) # {} <=> Defined(operand.label)
      /\ Defined(operand.label) =>
           AddressOf(table, operand.label) = Target(operand.label)
  BY DEF Settled, Resolved
<1>3. operand.type # "integer"
  OBVIOUS
<1>4. SymbolOf(table, operand)
        = IF Rows(table, operand.label) # {}
          THEN AddressOf(table, operand.label) ELSE Error
  BY <1>3, Zenon DEF SymbolOf
<1>5. Rows(table, operand.label) # {} => AddressOf(table, operand.label) \in Word
  BY <1>1, AddressOfFirst
<1> QED
  BY <1>2, <1>4, <1>5

(* So an offset to a label fits exactly when the label is defined and near. *)
LEMMA OffsetToLabel ==
  ASSUME NEW i, Settled(i), NEW operand, NEW span \in {512, 2048},
         operand.type = "label", operand.label \in Labels, operand # Missing
  PROVE  /\ PcOffset(table, operand, address[i], span) \in Results
         /\ PcOffset(table, operand, address[i], span) >= 0
              <=> /\ Defined(operand.label)
                  /\ Within(Target(operand.label) - (address[i] + 1), span)
<1> DEFINE at == address[i]
           offset == PcOffset(table, operand, at, span)
           target == SymbolOf(table, operand)
<1>1. table \in Seq(Symbols) /\ at \in Word
  BY SettledTypes
<1> HIDE DEF at
<1>2. /\ offset \in Results
      /\ offset >= 0
           <=> /\ target >= 0
               /\ Within(target - (at + 1), span)
  BY <1>1, PcOffsetSucceeds
<1> HIDE DEF offset, target
<1>3. CASE Defined(operand.label)
  <2>1. target = Target(operand.label) /\ target >= 0
    BY <1>3, LabelOperand, WordBounds DEF target
  <2> QED
    BY <1>3, <1>2, <2>1 DEF at, offset
<1>4. CASE ~Defined(operand.label)
  <2>1. ~(target >= 0)
    BY <1>4, LabelOperand DEF target, Error
  <2> QED
    BY <1>4, <1>2, <2>1 DEF at, offset
<1> QED
  BY <1>3, <1>4

(* The same fields as the encoders measure them and as Hopeless does. *)
LEMMA WithinFits ==
  ASSUME NEW v
  PROVE  /\ Within(v, 32) <=> Fits(v, 16)
         /\ Within(v, 64) <=> Fits(v, 32)
         /\ Within(v, 512) <=> Fits(v, 256)
         /\ Within(v, 2048) <=> Fits(v, 1024)
<1>1. /\ -(32 \div 2) .. 32 \div 2 - 1 = -16 .. 16 - 1
      /\ -(64 \div 2) .. 64 \div 2 - 1 = -32 .. 32 - 1
      /\ -(512 \div 2) .. 512 \div 2 - 1 = -256 .. 256 - 1
      /\ -(2048 \div 2) .. 2048 \div 2 - 1 = -1024 .. 1024 - 1
  OBVIOUS
<1> QED
  BY <1>1 DEF Within, Fits

(* The ways a line can be hopeless, one for each kind of field. *)
LEMMA HopelessIs ==
  ASSUME NEW i, WellTyped(program[i]), program[i].operands # <<>>,
         NEW last, last = program[i].operands[Len(program[i].operands)],
         NEW name, name = program[i].operation
  PROVE  Hopeless(i) <=>
           \/ last.type = "label" /\ ~Defined(last.label)
           \/ /\ name = "JSR"
              /\ ~Within(Target(last.label) - (address[i] + 1), 2048)
           \/ /\ last.type = "label" /\ name \notin {"JSR", ".FILL"}
              /\ ~Within(Target(last.label) - (address[i] + 1), 512)
           \/ /\ name \in {"ADD", "AND"} /\ last.type = "integer"
              /\ ~Within(last.integer, 32)
           \/ name \in {"LDR", "STR"} /\ ~Within(last.integer, 64)
           \/ name = "TRAP" /\ last.integer \notin Byte
<1> DEFINE distance == Target(last.label) - (address[i] + 1)
<1>1. Hopeless(i) <=>
        \/ last.type = "label" /\ ~Defined(last.label)
        \/ name = "JSR" /\ ~Fits(distance, 1024)
        \/ /\ last.type = "label" /\ name \notin {"JSR", ".FILL"}
           /\ ~Fits(distance, 256)
        \/ /\ name \in {"ADD", "AND"} /\ last.type = "integer"
           /\ ~Fits(last.integer, 16)
        \/ name \in {"LDR", "STR"} /\ ~Fits(last.integer, 32)
        \/ name = "TRAP" /\ last.integer \notin Byte
  BY DEF Hopeless
<1>2. /\ Within(distance, 2048) <=> Fits(distance, 1024)
      /\ Within(distance, 512) <=> Fits(distance, 256)
      /\ Within(last.integer, 32) <=> Fits(last.integer, 16)
      /\ Within(last.integer, 64) <=> Fits(last.integer, 32)
  BY WithinFits
<1> HIDE DEF distance
<1>3. Hopeless(i) <=>
        \/ last.type = "label" /\ ~Defined(last.label)
        \/ name = "JSR" /\ ~Within(distance, 2048)
        \/ /\ last.type = "label" /\ name \notin {"JSR", ".FILL"}
           /\ ~Within(distance, 512)
        \/ /\ name \in {"ADD", "AND"} /\ last.type = "integer"
           /\ ~Within(last.integer, 32)
        \/ name \in {"LDR", "STR"} /\ ~Within(last.integer, 64)
        \/ name = "TRAP" /\ last.integer \notin Byte
  BY <1>1, <1>2
<1> QED
  BY <1>3 DEF distance

(* The three fields of ADD and AND. *)
LEMMA ArithmeticOutcome ==
  ASSUME NEW i, Settled(i), WellTyped(program[i]),
         NEW name, name = program[i].operation, name \in {"ADD", "AND"}
  PROVE  Encode(program[i], table, address[i]) >= 0 <=> ~Hopeless(i)
<1> DEFINE line == program[i]
           o == line.operands
           code == EncodeArithmetic(line, Opcodes[name])
<1>1. line \in Lines
  BY SettledTypes
<1>2. Kinds(line) \in {<<"register", "register", "register">>,
                       <<"register", "register", "integer">>}
  BY Zenon DEF WellTyped, Shapes
<1>3. /\ o # <<>> /\ Len(o) = 3 /\ o[1].type = "register"
      /\ o[2].type = "register" /\ o[3].type \in {"register", "integer"}
  BY <1>1, <1>2, KindsAre
<1>4. /\ Operand(line, 1) = o[1] /\ Operand(line, 2) = o[2]
      /\ Operand(line, 3) = o[3]
      /\ RegisterCode(o[1]) \in 0 .. 9 /\ RegisterCode(o[2]) \in 0 .. 9
  BY <1>1, <1>3, OperandAt
<1>5. /\ SecondSource(o[3]) \in Results
      /\ SecondSource(o[3]) >= 0
           <=> (o[3].type = "integer" => Within(o[3].integer, 32))
  <2>1. CASE o[3].type = "register"
    <3>1. SecondSource(o[3]) \in 0 .. 9
      BY <1>1, <1>3, <2>1, OperandAt
    <3>2. SecondSource(o[3]) \in Results /\ SecondSource(o[3]) >= 0
      BY <3>1, SmallResult
    <3> QED
      BY <2>1, <3>2
  <2>2. CASE o[3].type = "integer"
    <3> DEFINE n == o[3].integer
               bits == ImmediateBits(n, 32)
    <3>1. n \in Int
      BY <1>1, <1>3, <2>2, OperandAt
    <3> HIDE DEF n
    <3>2. bits \in Results /\ (bits >= 0 <=> Within(n, 32))
      BY <3>1, ImmediateSucceeds
    <3> HIDE DEF bits
    <3>3. 1 * 32 \in Word
      BY BoundedIsWord
    <3>4. With(bits, 1, 32) \in Results
      BY <3>2, <3>3, WithType
    <3>5. With(bits, 1, 32) >= 0 <=> bits >= 0
      BY <3>2, <3>3, WithSucceeds
    <3>6. SecondSource(o[3]) = With(bits, 1, 32)
      BY <2>2 DEF SecondSource, bits, n
    <3> QED
      BY <2>2, <3>2, <3>4, <3>6, <3>5 DEF n
  <2> QED
    BY <1>3, <2>1, <2>2
<1>6. Opcodes[name] \in 0 .. 15
  BY DEF Opcodes, OP_ADD, OP_AND
<1>7. code >= 0 <=> SecondSource(o[3]) >= 0
  <2> DEFINE high == RegisterCode(o[1])
             middle == RegisterCode(o[2])
             low == SecondSource(o[3])
             op == Opcodes[name]
  <2>1. code = Instruction(op, high, middle, low)
    BY <1>4 DEF EncodeArithmetic
  <2>2. /\ high \in {Crash} \cup 0 .. 9 /\ middle \in {Crash} \cup 0 .. 9
        /\ high >= 0 /\ middle >= 0 /\ low \in Results /\ op \in 0 .. 15
    BY <1>4, <1>5, <1>6
  <2> HIDE DEF high, middle, low, op
  <2>3. Instruction(op, high, middle, low) >= 0 <=> low >= 0
    BY <2>2, InstructionSucceeds
  <2> QED
    BY <2>1, <2>3 DEF low
<1>8. Encode(line, table, address[i]) = code
  BY EncoderOf
<1>9. Hopeless(i) <=> o[3].type = "integer" /\ ~Within(o[3].integer, 32)
  BY <1>3, HopelessIs
<1> QED
  BY <1>5, <1>7, <1>8, <1>9

(* NOT, and the jumps through a register: nothing can fail. *)
LEMMA RegistersOutcome ==
  ASSUME NEW i, Settled(i), WellTyped(program[i]),
         NEW name, name = program[i].operation,
         name \in {"NOT", "JMP", "JSRR"}
  PROVE  Encode(program[i], table, address[i]) >= 0 /\ ~Hopeless(i)
<1> DEFINE line == program[i]
           o == line.operands
<1>1. line \in Lines
  BY SettledTypes
<1>2. /\ name = "NOT" => Kinds(line) = <<"register", "register">>
      /\ name # "NOT" => Kinds(line) = <<"register">>
  BY Zenon DEF WellTyped, Shapes
<1>3. /\ o # <<>> /\ o[1].type = "register" /\ o[Len(o)].type = "register"
      /\ name = "NOT" => Len(o) = 2 /\ o[2].type = "register"
      /\ name # "NOT" => Len(o) = 1
  BY <1>1, <1>2, KindsAre
<1>4. /\ Operand(line, 1) = o[1]
      /\ RegisterCode(Operand(line, 1)) \in 0 .. 9
      /\ name = "NOT" => RegisterCode(Operand(line, 2)) \in 0 .. 9
  BY <1>1, <1>3, OperandAt
<1>5. /\ 0 \in Results /\ 63 \in Results
      /\ OP_NOT \in 0 .. 15 /\ OP_JMP \in 0 .. 15 /\ OP_JSR \in 0 .. 15
  BY SmallResult DEF OP_NOT, OP_JMP, OP_JSR
<1>6. name = "NOT" => EncodeNot(line) >= 0
  <2>1. RegisterCode(Operand(line, 1)) >= 0
    BY <1>4
  <2>2. name = "NOT" =>
          /\ RegisterCode(Operand(line, 2)) \in {Crash} \cup 0 .. 9
          /\ RegisterCode(Operand(line, 2)) >= 0
    BY <1>4
  <2> QED
    BY <1>4, <1>5, <2>1, <2>2, InstructionSucceeds DEF EncodeNot
<1>7. ASSUME name # "NOT"
      PROVE  /\ Instruction(OP_JMP, 0, RegisterCode(Operand(line, 1)), 0) >= 0
             /\ Instruction(OP_JSR, 0, RegisterCode(Operand(line, 1)), 0) >= 0
  BY <1>4, <1>5, InstructionSucceeds
<1>8. name = "JMP" => EncodeJmp(line) >= 0
  BY <1>3, <1>7 DEF EncodeJmp
<1>9. name = "JSRR" => EncodeJsr(line, table, address[i]) >= 0
  BY <1>3, <1>4, <1>7 DEF EncodeJsr
<1>10. ~Hopeless(i)
  BY <1>3, HopelessIs
<1> QED
  BY <1>6, <1>8, <1>9, <1>10, EncoderOf

(* The operations without an operand. *)
LEMMA BareOutcome ==
  ASSUME NEW i, Settled(i), WellTyped(program[i]),
         NEW name, name = program[i].operation,
         name \in {"RET", "RTI"} \cup TrapNames
  PROVE  Encode(program[i], table, address[i]) >= 0 /\ ~Hopeless(i)
<1> DEFINE line == program[i]
<1>1. line \in Lines
  BY SettledTypes
<1>2. Kinds(line) = <<>>
  BY Zenon DEF WellTyped, Shapes, TrapNames
<1>3. line.operands = <<>> /\ Len(line.operands) = 0
  BY <1>1, <1>2, KindsAre
<1>4. ~Hopeless(i)
  BY <1>3 DEF Hopeless
<1>5. name = "RET" => EncodeJmp(line) >= 0
  <2>1. OP_JMP \in 0 .. 15 /\ 0 \in Results /\ R7 \in 0 .. 9
    BY SmallResult DEF OP_JMP, R7
  <2>2. Instruction(OP_JMP, 0, R7, 0) >= 0
    BY <2>1, InstructionSucceeds
  <2> QED
    BY <1>3, <2>2 DEF EncodeJmp
<1>6. OP_RTI * 4096 >= 0
  BY DEF OP_RTI
<1>7. name \in TrapNames => Instruction(OP_TRAP, 0, 0, TrapCode(name)) >= 0
  <2>1. /\ TRAP_GETC \in 0 .. 255 /\ TRAP_OUT \in 0 .. 255
        /\ TRAP_PUTS \in 0 .. 255 /\ TRAP_IN \in 0 .. 255
        /\ TRAP_PUTSP \in 0 .. 255 /\ TRAP_HALT \in 0 .. 255
    BY DEF TRAP_GETC, TRAP_OUT, TRAP_PUTS, TRAP_IN, TRAP_PUTSP, TRAP_HALT
  <2>2. name \in TrapNames => TrapCode(name) \in 0 .. 255
    BY <2>1 DEF TrapNames, TrapCode
  <2> DEFINE low == TrapCode(name)
  <2> HIDE DEF low
  <2>3. low \in 0 .. 255 => low \in Results /\ low >= 0
    BY SmallResult
  <2>4. OP_TRAP \in 0 .. 15
    BY DEF OP_TRAP
  <2>5. low \in 0 .. 255 => Instruction(OP_TRAP, 0, 0, low) >= 0
    BY <2>3, <2>4, InstructionSucceeds
  <2> QED
    BY <2>2, <2>5 DEF low
<1> QED
  BY <1>4, <1>5, <1>6, <1>7, EncoderOf

(* An offset to a label. *)
LEMMA LabelOutcome ==
  ASSUME NEW i, Settled(i), WellTyped(program[i]),
         NEW name, name = program[i].operation,
         name \in {"BR", "JSR", "LD", "LDI", "LEA", "ST", "STI"}
  PROVE  Encode(program[i], table, address[i]) >= 0 <=> ~Hopeless(i)
<1> DEFINE line == program[i]
           o == line.operands
           last == o[Len(o)]
           near == PcOffset(table, last, address[i], 512)
           far == PcOffset(table, last, address[i], 2048)
           distance == Target(last.label) - (address[i] + 1)
<1>1. line \in Lines
  BY SettledTypes
<1>2. /\ name \in {"BR", "JSR"} => Kinds(line) = <<"label">>
      /\ name \notin {"BR", "JSR"} => Kinds(line) = <<"register", "label">>
  BY Zenon DEF WellTyped, Shapes
<1>3. /\ o # <<>> /\ last.type = "label"
      /\ name \in {"BR", "JSR"} => Len(o) = 1
      /\ name \notin {"BR", "JSR"} => Len(o) = 2 /\ o[1].type = "register"
  BY <1>1, <1>2, KindsAre
<1>4. /\ name \in {"BR", "JSR"} => Operand(line, 1) = last
      /\ name \notin {"BR", "JSR"} =>
           Operand(line, 2) = last /\ RegisterCode(Operand(line, 1)) \in 0 .. 9
      /\ last.label \in Labels /\ last # Missing
  BY <1>1, <1>3, OperandAt
<1>5. /\ near \in Results /\ far \in Results
      /\ near >= 0 <=> Defined(last.label) /\ Within(distance, 512)
      /\ far >= 0 <=> Defined(last.label) /\ Within(distance, 2048)
  <2>1. 512 \in {512, 2048} /\ 2048 \in {512, 2048}
    OBVIOUS
  <2> QED
    BY <1>3, <1>4, <2>1, OffsetToLabel
<1>6. Hopeless(i) <=>
        \/ ~Defined(last.label)
        \/ name = "JSR" /\ ~Within(distance, 2048)
        \/ name # "JSR" /\ ~Within(distance, 512)
  BY <1>3, HopelessIs
<1>7. /\ OP_BR \in 0 .. 15 /\ OP_JSR \in 0 .. 15
      /\ BranchMask(line.conditions) \in 0 .. 9
      /\ name \notin {"BR", "JSR"} => Opcodes[name] \in 0 .. 15
  BY BranchMaskType
     DEF OP_BR, OP_JSR, Opcodes, OP_LD, OP_LDI, OP_LEA, OP_ST, OP_STI
<1> HIDE DEF near, far, distance, last
<1>8. ASSUME name = "BR"
      PROVE  EncodeBr(line, table, address[i]) >= 0 <=> near >= 0
  <2>1. EncodeBr(line, table, address[i])
          = Instruction(OP_BR, BranchMask(line.conditions), 0, near)
    BY <1>4, <1>8 DEF EncodeBr, near
  <2> QED
    BY <1>5, <1>7, <2>1, InstructionSucceeds
<1>9. ASSUME name = "JSR"
      PROVE  EncodeJsr(line, table, address[i]) >= 0 <=> far >= 0
  <2>1. EncodeJsr(line, table, address[i]) = Instruction(OP_JSR, 4, 0, far)
    BY <1>3, <1>4, <1>9 DEF EncodeJsr, far
  <2> QED
    BY <1>5, <1>7, <2>1, InstructionSucceeds
<1>10. ASSUME name \notin {"BR", "JSR"}
       PROVE  EncodePcRelative(line, Opcodes[name], table, address[i]) >= 0
                <=> near >= 0
  <2> DEFINE op == Opcodes[name]
             high == RegisterCode(Operand(line, 1))
  <2>1. EncodePcRelative(line, op, table, address[i])
          = Instruction(op, high, 0, near)
    BY <1>4, <1>10 DEF EncodePcRelative, near
  <2>2. op \in 0 .. 15 /\ high \in {Crash} \cup 0 .. 9 /\ high >= 0
    BY <1>4, <1>7, <1>10
  <2> HIDE DEF op, high
  <2>3. Instruction(op, high, 0, near) >= 0 <=> near >= 0
    BY <1>5, <2>2, InstructionSucceeds
  <2> QED
    BY <2>1, <2>3 DEF op
<1>11. /\ name = "BR" =>
             Encode(line, table, address[i]) = EncodeBr(line, table, address[i])
       /\ name = "JSR" =>
             Encode(line, table, address[i]) = EncodeJsr(line, table, address[i])
       /\ name \notin {"BR", "JSR"} =>
             Encode(line, table, address[i])
               = EncodePcRelative(line, Opcodes[name], table, address[i])
  BY EncoderOf
<1> QED
  BY <1>5, <1>6, <1>8, <1>9, <1>10, <1>11

(* A base register and an offset, and the vector of a TRAP. *)
LEMMA IntegerOutcome ==
  ASSUME NEW i, Settled(i), WellTyped(program[i]),
         NEW name, name = program[i].operation,
         name \in {"LDR", "STR", "TRAP"}
  PROVE  Encode(program[i], table, address[i]) >= 0 <=> ~Hopeless(i)
<1> DEFINE line == program[i]
           o == line.operands
           n == o[Len(o)].integer
<1>1. line \in Lines
  BY SettledTypes
<1>2. /\ name = "TRAP" => Kinds(line) = <<"integer">>
      /\ name # "TRAP" => Kinds(line) = <<"register", "register", "integer">>
  BY Zenon DEF WellTyped, Shapes
<1>3. /\ o # <<>> /\ o[Len(o)].type = "integer"
      /\ name = "TRAP" => Len(o) = 1
      /\ name # "TRAP" => /\ Len(o) = 3 /\ o[1].type = "register"
                          /\ o[2].type = "register"
  BY <1>1, <1>2, KindsAre
<1>4. /\ name = "TRAP" => Operand(line, 1).integer = n
      /\ name # "TRAP" => /\ RegisterCode(Operand(line, 1)) \in 0 .. 9
                          /\ RegisterCode(Operand(line, 2)) \in 0 .. 9
                          /\ Operand(line, 3).integer = n
      /\ n \in Int
  BY <1>1, <1>3, OperandAt
<1>5. Hopeless(i) <=> \/ name = "TRAP" /\ n \notin Byte
                      \/ name # "TRAP" /\ ~Within(n, 64)
  BY <1>3, HopelessIs
<1> HIDE DEF n
<1>6. ASSUME name = "TRAP" PROVE EncodeTrap(line) >= 0 <=> n \in Byte
  <2> DEFINE low == IF n \in 0 .. 255 THEN n ELSE Error
  <2>1. low \in Results /\ (low >= 0 <=> n \in Byte)
    BY <1>4, VectorType DEF Byte, Error
  <2>2. EncodeTrap(line) = Instruction(OP_TRAP, 0, 0, low)
    BY <1>4, <1>6 DEF EncodeTrap
  <2>3. OP_TRAP \in 0 .. 15
    BY DEF OP_TRAP
  <2> HIDE DEF low
  <2>4. Instruction(OP_TRAP, 0, 0, low) >= 0 <=> low >= 0
    BY <2>1, <2>3, InstructionSucceeds
  <2> QED
    BY <2>1, <2>2, <2>4
<1>7. ASSUME name # "TRAP"
      PROVE  EncodeBaseOffset(line, Opcodes[name]) >= 0 <=> Within(n, 64)
  <2> DEFINE op == Opcodes[name]
             high == RegisterCode(Operand(line, 1))
             middle == RegisterCode(Operand(line, 2))
             low == ImmediateBits(n, 64)
  <2>1. low \in Results /\ (low >= 0 <=> Within(n, 64))
    BY <1>4, ImmediateSucceeds
  <2>2. EncodeBaseOffset(line, op) = Instruction(op, high, middle, low)
    BY <1>4, <1>7 DEF EncodeBaseOffset
  <2>3. /\ high \in {Crash} \cup 0 .. 9 /\ high >= 0
        /\ middle \in {Crash} \cup 0 .. 9 /\ middle >= 0
    BY <1>4, <1>7
  <2>4. op \in 0 .. 15
    BY <1>7 DEF Opcodes, OP_LDR, OP_STR
  <2> HIDE DEF op, high, middle, low
  <2>5. Instruction(op, high, middle, low) >= 0 <=> low >= 0
    BY <2>1, <2>3, <2>4, InstructionSucceeds
  <2> QED
    BY <2>1, <2>2, <2>5 DEF op
<1>8. /\ name = "TRAP" => Encode(line, table, address[i]) = EncodeTrap(line)
      /\ name # "TRAP" => Encode(line, table, address[i])
                            = EncodeBaseOffset(line, Opcodes[name])
  BY EncoderOf
<1> QED
  BY <1>5, <1>6, <1>7, <1>8

(* No result of line i is a failure. *)
Encodes(i) ==
  \A k \in DOMAIN MachineCodes(program[i], table, address[i]) :
    MachineCodes(program[i], table, address[i])[k] >= 0

LEMMA OneWordEncodes ==
  ASSUME NEW i, NEW word, MachineCodes(program[i], table, address[i]) = <<word>>
  PROVE  Encodes(i) <=> word >= 0
<1>1. DOMAIN <<word>> = {1} /\ <<word>>[1] = word
  OBVIOUS
<1> QED
  BY <1>1 DEF Encodes

(* The directives. *)
LEMMA DirectiveOutcome ==
  ASSUME NEW i, Settled(i), WellTyped(program[i]),
         NEW name, name = program[i].operation,
         name \in {NULL, ".ORIG", ".FILL", ".BLKW", ".STRINGZ"}
  PROVE  Encodes(i) <=> ~Hopeless(i)
<1> DEFINE line == program[i]
           o == line.operands
           last == o[Len(o)]
           found == MachineCodes(line, table, address[i])
<1>1. line \in Lines /\ table \in Seq(Symbols)
  BY SettledTypes
<1>2. /\ name = NULL => Kinds(line) = <<>>
      /\ name \in {".ORIG", ".BLKW"} => Kinds(line) = <<"integer">>
      /\ name = ".FILL" => Kinds(line) \in {<<"integer">>, <<"label">>}
      /\ name = ".STRINGZ" => Kinds(line) = <<"string">>
  BY Zenon DEF WellTyped, Shapes, NULL
<1>3. /\ name = NULL => o = <<>>
      /\ name # NULL => o # <<>> /\ Len(o) = 1
      /\ name \in {".ORIG", ".BLKW"} => last.type = "integer"
      /\ name = ".FILL" => last.type \in {"integer", "label"}
      /\ name = ".STRINGZ" => last.type = "string"
  BY <1>1, <1>2, KindsAre DEF NULL
<1>4. name # NULL =>
        /\ Operand(line, 1) = last
        /\ last.type = "integer" => last.integer \in Int
        /\ last.type = "label" => last.label \in Labels /\ last # Missing
        /\ last.type = "string" => last.string \in Seq(Byte)
  BY <1>1, <1>3, OperandAt
<1>5. Hopeless(i) <=> name # NULL /\ last.type = "label" /\ ~Defined(last.label)
  <2>1. CASE name = NULL
    BY <1>3, <2>1 DEF Hopeless
  <2>2. CASE name # NULL
    <3>1. last.type = "label" => name = ".FILL"
      BY <1>3, <2>2
    <3>2. name \notin {"JSR", "ADD", "AND", "LDR", "STR", "TRAP"}
      BY DEF NULL
    <3> QED
      BY <1>3, <2>2, <3>1, <3>2, HopelessIs
  <2> QED
    BY <2>1, <2>2
<1> HIDE DEF last
<1>6. CASE name \in {NULL, ".ORIG"}
  <2>1. found = <<>>
    BY <1>6 DEF MachineCodes, NULL
  <2>2. DOMAIN <<>> = {}
    OBVIOUS
  <2>3. Encodes(i)
    BY <2>1, <2>2 DEF Encodes
  <2> QED
    BY <1>3, <1>5, <1>6, <2>3 DEF NULL
<1>7. CASE name = ".FILL"
  <2>1. found = <<FillValue(line, table)>>
    BY <1>7 DEF MachineCodes, NULL
  <2>2. FillValue(line, table)
          = IF last.type = "label" THEN SymbolOf(table, last) ELSE Wrap(last.integer)
    BY <1>4, <1>7 DEF FillValue, NULL
  <2>3. CASE last.type = "label"
    <3>1. Defined(last.label) => SymbolOf(table, last) >= 0
      BY <1>4, <1>7, <2>3, LabelOperand, WordBounds DEF NULL
    <3>2. ~Defined(last.label) => ~(SymbolOf(table, last) >= 0)
      BY <1>4, <1>7, <2>3, LabelOperand DEF NULL, Error
    <3> QED
      BY <1>5, <1>7, <2>1, <2>2, <2>3, <3>1, <3>2, OneWordEncodes DEF NULL
  <2>4. CASE last.type # "label"
    <3>1. last.integer \in Int
      BY <1>3, <1>4, <1>7, <2>4 DEF NULL
    <3>2. Wrap(last.integer) >= 0
      BY <3>1, WrapType, WordBounds
    <3> QED
      BY <1>5, <2>1, <2>2, <2>4, <3>2, OneWordEncodes
  <2> QED
    BY <2>3, <2>4
<1>8. CASE name = ".BLKW"
  <2>1. found = [k \in 1 .. last.integer |-> 0]
    BY <1>4, <1>8 DEF MachineCodes, NULL
  <2>2. Encodes(i)
    BY <2>1 DEF Encodes
  <2> QED
    BY <1>3, <1>5, <1>8, <2>2
<1>9. CASE name = ".STRINGZ"
  <2>1. found = Append(last.string, 0)
    BY <1>3, <1>4, <1>9 DEF MachineCodes, NULL
  <2> DEFINE text == last.string
  <2>2. text \in Seq(Byte)
    BY <1>3, <1>4, <1>9 DEF NULL
  <2> HIDE DEF text
  <2>3. \A k \in DOMAIN Append(text, 0) : Append(text, 0)[k] >= 0
    <3>1. 0 \in Byte
      BY DEF Byte
    <3>2. Append(text, 0) \in Seq(Byte)
      BY <2>2, <3>1, AppendProperties
    <3>3. \A k \in DOMAIN Append(text, 0) : Append(text, 0)[k] \in Byte
      BY <3>2
    <3>4. \A b \in Byte : b >= 0
      BY DEF Byte
    <3> QED
      BY <3>3, <3>4
  <2>4. Encodes(i)
    BY <2>1, <2>3 DEF Encodes, text
  <2> QED
    BY <1>3, <1>5, <1>9, <2>4
<1> QED
  BY <1>6, <1>7, <1>8, <1>9

(* The lines that have an encoding are those that are not hopeless. *)
LEMMA LineOutcome ==
  ASSUME NEW i, Settled(i), WellTyped(program[i]),
         program[i].operation \in Names, program[i].operation # ".END"
  PROVE  Encodes(i) <=> ~Hopeless(i)
<1> DEFINE name == program[i].operation
<1>1. CASE name \in {NULL, ".ORIG", ".FILL", ".BLKW", ".STRINGZ"}
  BY <1>1, DirectiveOutcome
<1>2. CASE name \notin {NULL, ".ORIG", ".FILL", ".BLKW", ".STRINGZ"}
  <2>1. MachineCodes(program[i], table, address[i])
          = <<Encode(program[i], table, address[i])>>
    BY <1>2, OneWord
  <2>2. Encodes(i) <=> Encode(program[i], table, address[i]) >= 0
    BY <2>1, OneWordEncodes
  <2>3. \/ name \in {"ADD", "AND"}
        \/ name \in {"NOT", "JMP", "JSRR"}
        \/ name \in {"RET", "RTI"} \cup TrapNames
        \/ name \in {"BR", "JSR", "LD", "LDI", "LEA", "ST", "STI"}
        \/ name \in {"LDR", "STR", "TRAP"}
    BY <1>2 DEF Names, Opcodes, Directives
  <2> QED
    BY <2>2, <2>3, ArithmeticOutcome, RegistersOutcome, BareOutcome,
       LabelOutcome, IntegerOutcome
<1> QED
  BY <1>1, <1>2

LEMMA HopelessIsNamed ==
  ASSUME NEW i, Settled(i), Hopeless(i)
  PROVE  /\ WellTyped(program[i])
         /\ program[i].operation \in Names /\ program[i].operation # ".END"
<1> DEFINE line == program[i]
           name == line.operation
<1>1. WellTyped(line) /\ line.operands # <<>> /\ line \in Lines
  BY SettledTypes DEF Hopeless
<1>2. Kinds(line) # <<>>
  BY <1>1, KindsAre
<1>3. name \in {"ADD", "AND", "NOT", "BR", "JSR", "JMP", "JSRR", "LD", "LDI",
                "LEA", "ST", "STI", "LDR", "STR", "TRAP", ".BLKW", ".ORIG",
                ".FILL", ".STRINGZ"}
  BY <1>1, <1>2, Zenon DEF WellTyped, Shapes
<1> QED
  BY <1>1, <1>3 DEF Names, Opcodes, Directives

-----------------------------------------------------------------------------
(* What main makes of the outcomes of the lines.                            *)

Good(i) ==
  /\ WellTyped(program[i]) /\ ~Hopeless(i)
  /\ program[i].operation \in Names

NothingHopeless == \A i \in LaidOut : ~Hopeless(i)
AllGood == \A i \in LaidOut : Good(i)

(* The object file is touched only when no line was hopeless, and pass 2
   fails or dies only on a line that is not good. *)
OutcomeInvariant ==
  /\ object # OldObject \/ phase \in {"open", "write"} =>
       phase \in {"open", "write", "ended"} /\ NothingHopeless
  /\ phase = "pass2" /\ ok =>
       \A i \in LaidOut : i < next => ~Hopeless(i)
  /\ ~ok \/ status = "crash" => phase \in {"pass2", "ended"} /\ ~AllGood
  /\ status = "crash" => phase = "ended"

LEMMA HopelessFrame ==
  ASSUME UNCHANGED <<program, layoutVars>>
  PROVE  /\ LaidOut' = LaidOut
         /\ \A i : Hopeless(i)' <=> Hopeless(i)
         /\ NothingHopeless' <=> NothingHopeless
         /\ AllGood' <=> AllGood
<1>1. LaidOut' = LaidOut
  BY ProgramFrame
<1>2. \A i : Hopeless(i)' <=> Hopeless(i)
  BY <1>1 DEF Hopeless, Defined, Target, layoutVars
<1>3. \A i : Good(i)' <=> Good(i)
  BY <1>2 DEF Good
<1> QED
  BY <1>1, <1>2, <1>3 DEF NothingHopeless, AllGood

(* The line pass 2 is at is one of those laid out. *)
LEMMA CurrentLine ==
  ASSUME LayoutInvariant, TableInvariant, phase = "pass2", More
  PROVE  /\ Settled(next) /\ next \in LaidOut /\ next \in Nat
         /\ program[next].operation # ".END"
         /\ Succeeds <=> Encodes(next)
         /\ Fails \/ Dies => ~Encodes(next)
<1>1. TypeOK /\ Resolved
  BY DEF LayoutInvariant, TableInvariant
<1>2. next \in 1 .. Len(program) /\ next \in Nat /\ next >= 1
  BY <1>1, ProgramType DEF TypeOK
<1>3. PICK last \in Nat : PlacedUpTo(last) /\ next <= last + 1
  BY DEF LayoutInvariant, InPass2
<1>4. next <= last /\ LaidOut = 1 .. last
  BY <1>1, <1>3, CurrentLinePlaced DEF PlacedUpTo
<1>5. Succeeds <=> Encodes(next)
  BY DEF Succeeds, Encodes, LineCodes, Line
<1>6. Fails \/ Dies => ~Encodes(next)
  <2>1. Fails \/ Dies =>
          \E k \in DOMAIN LineCodes : LineCodes[k] \in {Error, Undefined, Crash}
    BY DEF Fails, Dies
  <2>2. \A x \in {Error, Undefined, Crash} : ~(x >= 0)
    BY DEF Error, Undefined, Crash
  <2> QED
    BY <2>1, <2>2 DEF Encodes, LineCodes, Line
<1> QED
  BY <1>1, <1>2, <1>4, <1>5, <1>6 DEF Settled, More, Line

(* A line that failed is not good. *)
LEMMA FailureIsBad ==
  ASSUME LayoutInvariant, TableInvariant, phase = "pass2", More, Fails \/ Dies
  PROVE  ~AllGood
<1>1. /\ Settled(next) /\ next \in LaidOut /\ ~Encodes(next)
      /\ program[next].operation # ".END"
  BY CurrentLine
<1>2. ~Good(next)
  BY <1>1, LineOutcome DEF Good
<1> QED
  BY <1>1, <1>2 DEF AllGood

(* A line that succeeded was not hopeless. *)
LEMMA SuccessIsHope ==
  ASSUME LayoutInvariant, TableInvariant, phase = "pass2", More, Succeeds
  PROVE  ~Hopeless(next)
<1>1. Settled(next) /\ Encodes(next)
  BY CurrentLine
<1> QED
  BY <1>1, LineOutcome, HopelessIsNamed

LEMMA NextOutcome ==
  ASSUME LayoutInvariant, TableInvariant, OutcomeInvariant, [Next]_vars
  PROVE  OutcomeInvariant'
<1>1. TypeOK /\ next \in Nat /\ next >= 1
  BY ProgramType DEF LayoutInvariant, TypeOK
<1>2. ASSUME phase \in {"start", "pass1"}, phase' \in {"pass1", "pass2", "ended"},
             phase' = "pass2" => next' = 1,
             UNCHANGED <<ok, object>>, status' # "crash"
      PROVE  OutcomeInvariant'
  <2>1. object' = OldObject' /\ ok'
    <3>1. object = OldObject /\ ok
      BY <1>2 DEF OutcomeInvariant
    <3> QED
      BY <1>2, <3>1 DEF OldObject
  <2>2. phase' = "pass2" => \A i \in LaidOut' : ~(i < next')
    <3>1. \A i \in LaidOut' : i \in Nat /\ i >= 1
      <4>1. TypeOK'
        BY <1>1, NextType
      <4>2. program' \in Seq(Lines)
        BY <4>1 DEF TypeOK, ControlTypeOK
      <4> QED
        BY <4>2 DEF LaidOut
    <3> QED
      BY <1>2, <3>1
  <2> QED
    BY <1>2, <2>1, <2>2 DEF OutcomeInvariant
<1>3. ASSUME UNCHANGED <<program, layoutVars, ok>>, phase' = "ended",
             UNCHANGED object \/ phase = "write",
             status' = "crash" => phase = "pass2" /\ ~AllGood
      PROVE  OutcomeInvariant'
  <2>1. /\ NothingHopeless' <=> NothingHopeless
        /\ AllGood' <=> AllGood
    BY <1>3, HopelessFrame
  <2>2. object' # OldObject' => NothingHopeless'
    BY <1>3, <2>1 DEF OutcomeInvariant, OldObject
  <2>3. ~ok' \/ status' = "crash" => ~AllGood'
    BY <1>3, <2>1 DEF OutcomeInvariant
  <2> QED
    BY <1>3, <2>2, <2>3 DEF OutcomeInvariant
<1>4. CASE Usage \/ SourceMissing
  BY <1>2, <1>4 DEF Usage, SourceMissing, Exit, fileVars
<1>5. CASE ReadSource
  BY <1>2, <1>5 DEF ReadSource, LoadProgram, fileVars, OutcomeInvariant
<1>6. CASE PlaceOrigin
  BY <1>2, <1>6 DEF PlaceOrigin, fileVars, OutcomeInvariant
<1>7. CASE Place
  BY <1>2, <1>7 DEF Place, fileVars, OutcomeInvariant
<1>8. CASE EndPass1
  BY <1>2, <1>8 DEF EndPass1, Exit, fileVars, OutcomeInvariant
<1>9. CASE EmitLine
  <2>1. /\ UNCHANGED <<program, layoutVars, ok, object, status>>
        /\ phase = "pass2" /\ phase' = "pass2" /\ next' = next + 1
    BY <1>9 DEF EmitLine, fileVars
  <2>2. ~Hopeless(next)
    BY <1>9, SuccessIsHope DEF EmitLine
  <2>3. /\ LaidOut' = LaidOut /\ \A i : Hopeless(i)' <=> Hopeless(i)
        /\ AllGood' <=> AllGood
    BY <2>1, HopelessFrame
  <2>4. \A i \in LaidOut : i \in Nat
    <3>1. DOMAIN program \subseteq Nat
      BY <1>1, ProgramType DEF TypeOK
    <3> QED
      BY <3>1 DEF LaidOut
  <2>5. \A i \in LaidOut : i < next + 1 => i < next \/ i = next
    BY <1>1, <2>4
  <2>6. ok => \A i \in LaidOut : i < next' => ~Hopeless(i)
    BY <2>1, <2>2, <2>5 DEF OutcomeInvariant
  <2>7. object' = OldObject'
    BY <2>1 DEF OutcomeInvariant, OldObject
  <2> QED
    BY <2>1, <2>3, <2>6, <2>7 DEF OutcomeInvariant
<1>10. CASE RejectLine
  <2>1. /\ UNCHANGED <<program, layoutVars, object, status>>
        /\ phase = "pass2" /\ phase' = "pass2" /\ ok' = FALSE
    BY <1>10 DEF RejectLine, fileVars
  <2>2. ~AllGood
    BY <1>10, FailureIsBad DEF RejectLine
  <2>3. ~AllGood'
    BY <2>1, <2>2, HopelessFrame
  <2>4. object' = OldObject'
    BY <2>1 DEF OutcomeInvariant, OldObject
  <2> QED
    BY <2>1, <2>3, <2>4 DEF OutcomeInvariant
<1>11. CASE CrashOnLine
  <2>1. ~AllGood
    BY <1>11, FailureIsBad DEF CrashOnLine
  <2> QED
    BY <1>3, <1>11, <2>1 DEF CrashOnLine, Exit, fileVars
<1>12. CASE EndPass2
  <2>1. CASE phase' = "ended"
    BY <1>3, <1>12, <2>1 DEF EndPass2, Exit, fileVars
  <2>2. CASE phase' # "ended"
    <3>1. /\ UNCHANGED <<program, layoutVars, ok, object, status>>
          /\ phase = "pass2" /\ phase' = "open" /\ ok /\ ~More
      BY <1>12, <2>2 DEF EndPass2, Exit, fileVars
    <3>2. 1 .. next - 1 \subseteq LaidOut
      <4>1. PICK last \in Nat : PlacedUpTo(last) /\ next <= last + 1
        BY <3>1 DEF LayoutInvariant, InPass2
      <4> QED
        BY <1>1, <4>1 DEF PlacedUpTo
    <3>3. LaidOut = 1 .. next - 1
      BY <1>1, <3>1, <3>2, LaidOutEnd
    <3>4. \A i \in LaidOut : i < next
      BY <1>1, <3>3
    <3>5. NothingHopeless
      BY <3>1, <3>4 DEF OutcomeInvariant, NothingHopeless
    <3>6. NothingHopeless'
      BY <3>1, <3>5, HopelessFrame
    <3>7. ok' /\ status' # "crash"
      BY <3>1 DEF OutcomeInvariant
    <3> QED
      BY <3>1, <3>6, <3>7 DEF OutcomeInvariant
  <2> QED
    BY <2>1, <2>2
<1>13. CASE OpenFails
  BY <1>3, <1>13 DEF OpenFails, Exit, fileVars
<1>14. CASE OpenObject \/ WriteLine
  <2>1. /\ UNCHANGED <<program, layoutVars, ok, status>>
        /\ phase \in {"open", "write"} /\ phase' = "write"
    BY <1>14 DEF OpenObject, WriteLine
  <2>2. NothingHopeless /\ ok /\ status # "crash"
    BY <2>1 DEF OutcomeInvariant
  <2>3. NothingHopeless'
    BY <2>1, <2>2, HopelessFrame
  <2> QED
    BY <2>1, <2>2, <2>3 DEF OutcomeInvariant
<1>15. CASE CloseObject
  BY <1>3, <1>15 DEF CloseObject, Exit
<1>16. CASE Interrupt
  BY <1>3, <1>16 DEF Interrupt, Exit
<1>17. CASE UNCHANGED vars
  <2>1. UNCHANGED <<program, layoutVars, phase, next, ok, object, status>>
    BY <1>17 DEF vars, fileVars
  <2>2. /\ LaidOut' = LaidOut /\ \A i : Hopeless(i)' <=> Hopeless(i)
        /\ NothingHopeless' <=> NothingHopeless
        /\ AllGood' <=> AllGood
    BY <2>1, HopelessFrame
  <2> QED
    BY <2>1, <2>2 DEF OutcomeInvariant, OldObject
<1> QED
  BY <1>4, <1>5, <1>6, <1>7, <1>8, <1>9, <1>10, <1>11, <1>12, <1>13, <1>14,
     <1>15, <1>16, <1>17 DEF Next, AssemblerNext, Passes, Ended

Decided == LayoutInvariant /\ TableInvariant /\ OutcomeInvariant

LEMMA DecidedInvariant == Spec => []Decided
<1>1. Init => Decided
  BY InitType DEF Init, Decided, LayoutInvariant, AtStart, InPass1, InPass2,
                  AtOpen, InWrite, TableInvariant, OutcomeInvariant
<1>2. Decided /\ [Next]_vars => Decided'
  BY NextLayout, NextTable, NextOutcome DEF Decided
<1> QED
  BY <1>1, <1>2, PTL DEF Spec

(* One line without an encoding, anywhere in front of .END and among any
   others, keeps the assembler from touching an earlier object file. *)
THEOREM ErrorsKeepTheObject == Spec => []ErrorsLeaveTheObject
<1>1. Decided => ErrorsLeaveTheObject
  BY DEF Decided, OutcomeInvariant, NothingHopeless, ErrorsLeaveTheObject
<1> QED
  BY <1>1, DecidedInvariant, PTL

(* The encoders refuse nothing that has an encoding: on a program of good
   lines pass 2 neither fails nor dies. *)
THEOREM GoodProgramsAssemble == Spec => []GoodLinesAccepted
<1>1. Decided => GoodLinesAccepted
  BY DEF Decided, OutcomeInvariant, AllGood, Good, GoodLinesAccepted
<1> QED
  BY <1>1, DecidedInvariant, PTL

-----------------------------------------------------------------------------
(* The object file, word by word.                                           *)

\* The bytes hold the words from word s behind the header on.
Holds(bytes, s, words) ==
  /\ 2 * ((s + Len(words)) + 1) <= Len(bytes)
  /\ \A k \in 1 .. Len(words) :
       /\ bytes[2 * (s + k) + 1] = words[k] \div 256
       /\ bytes[2 * (s + k) + 2] = words[k] % 256

(* What was written stays where it is. *)
LEMMA HoldsLonger ==
  ASSUME NEW bytes \in Seq(Byte), NEW more \in Seq(Byte), NEW s \in Nat,
         NEW words \in Seq(Word), Holds(bytes, s, words)
  PROVE  Holds(bytes \o more, s, words)
<1>1. /\ Len(bytes \o more) = Len(bytes) + Len(more)
      /\ \A j \in 1 .. Len(bytes) : (bytes \o more)[j] = bytes[j]
  BY ConcatProperties
<1>2. Len(bytes) \in Nat /\ Len(more) \in Nat /\ Len(words) \in Nat
  OBVIOUS
<1>3. \A k \in 1 .. Len(words) : /\ 2 * (s + k) + 1 \in 1 .. Len(bytes)
                                 /\ 2 * (s + k) + 2 \in 1 .. Len(bytes)
  BY <1>2 DEF Holds
<1>4. 2 * ((s + Len(words)) + 1) <= Len(bytes \o more)
  BY <1>1, <1>2 DEF Holds
<1> QED
  BY <1>1, <1>3, <1>4 DEF Holds

(* The two bytes of word k. *)
LEMMA ToBytesOf ==
  ASSUME NEW words \in Seq(Word), NEW k \in 1 .. Len(words)
  PROVE  /\ ToBytes(words)[2 * k - 1] = words[k] \div 256
         /\ ToBytes(words)[2 * k] = words[k] % 256
<1>1. Len(words) \in Nat /\ k \in Nat /\ k >= 1 /\ k <= Len(words)
  OBVIOUS
<1>2. /\ 2 * k - 1 \in 1 .. 2 * Len(words) /\ 2 * k \in 1 .. 2 * Len(words)
      /\ ((2 * k - 1) + 1) \div 2 = k /\ (2 * k + 1) \div 2 = k
      /\ (2 * k - 1) % 2 = 1 /\ (2 * k) % 2 = 0
  BY <1>1
<1> QED
  BY <1>2 DEF ToBytes

(* Words written behind s words are the ones from word s on. *)
LEMMA HoldsAppended ==
  ASSUME NEW bytes \in Seq(Byte), NEW s \in Nat, NEW words \in Seq(Word),
         Len(bytes) = 2 * (s + 1)
  PROVE  Holds(bytes \o ToBytes(words), s, words)
<1> DEFINE more == ToBytes(words)
<1>1. more \in Seq(Byte) /\ Len(more) = 2 * Len(words) /\ Len(words) \in Nat
  BY ToBytesType
<1>2. \A k \in 1 .. Len(words) : /\ more[2 * k - 1] = words[k] \div 256
                                 /\ more[2 * k] = words[k] % 256
  BY ToBytesOf
<1> HIDE DEF more
<1>3. /\ Len(bytes \o more) = Len(bytes) + Len(more)
      /\ \A j \in Len(bytes) + 1 .. Len(bytes) + Len(more) :
           (bytes \o more)[j] = more[j - Len(bytes)]
  <2>1. /\ Len(bytes \o more) = Len(bytes) + Len(more)
        /\ \A j \in 1 .. Len(bytes) + Len(more) :
             (bytes \o more)[j]
               = IF j <= Len(bytes) THEN bytes[j] ELSE more[j - Len(bytes)]
    BY <1>1, ConcatProperties
  <2>2. \A j \in Len(bytes) + 1 .. Len(bytes) + Len(more) :
          j \in 1 .. Len(bytes) + Len(more) /\ ~(j <= Len(bytes))
    BY <1>1
  <2> QED
    BY <2>1, <2>2
<1>4. ASSUME NEW k \in 1 .. Len(words)
      PROVE  /\ (bytes \o more)[2 * (s + k) + 1] = words[k] \div 256
             /\ (bytes \o more)[2 * (s + k) + 2] = words[k] % 256
  <2>1. k \in Nat /\ k >= 1 /\ k <= Len(words)
    BY <1>1
  <2>2. /\ 2 * (s + k) + 1 \in Len(bytes) + 1 .. Len(bytes) + Len(more)
        /\ 2 * (s + k) + 2 \in Len(bytes) + 1 .. Len(bytes) + Len(more)
        /\ (2 * (s + k) + 1) - Len(bytes) = 2 * k - 1
        /\ (2 * (s + k) + 2) - Len(bytes) = 2 * k
    BY <1>1, <2>1
  <2> QED
    BY <1>2, <1>3, <2>2
<1>5. 2 * ((s + Len(words)) + 1) <= Len(bytes \o more)
  BY <1>1, <1>3
<1> QED
  BY <1>4, <1>5 DEF Holds, more

\* Line i has the codes of its encoder, and it is in the stream, at its
\* address when the program says what it means.
Coded(i) ==
  codes[i] = MachineCodes(program[i], table, address[i]) /\ Encodes(i)
Stored(i) ==
  \E s \in Nat : /\ WellFormed => Wrap(origin + s) = address[i]
                 /\ Holds(written, s, codes[i])

AllCoded == \A i \in LaidOut : Coded(i)

ImageInvariant ==
  /\ phase = "pass2" /\ ok => \A i \in LaidOut : i < next => Coded(i)
  /\ phase \in {"open", "write"} => AllCoded
  /\ phase = "write" => \A i \in LaidOut : i < next => Stored(i)
  /\ status = "0" => /\ phase = "ended" /\ Resolved /\ AllCoded
                     /\ \A i \in LaidOut : Stored(i)

LEMMA CodedFrame ==
  ASSUME UNCHANGED <<program, layoutVars, codes>>
  PROVE  /\ LaidOut' = LaidOut /\ (WellFormed' <=> WellFormed)
         /\ \A i : Coded(i)' <=> Coded(i)
         /\ AllCoded' <=> AllCoded
<1>1. LaidOut' = LaidOut /\ (WellFormed' <=> WellFormed)
  BY ProgramFrame
<1>2. \A i : Coded(i)' <=> Coded(i)
  BY DEF Coded, Encodes, layoutVars
<1> QED
  BY <1>1, <1>2 DEF AllCoded

LEMMA StoredFrame ==
  ASSUME UNCHANGED <<program, layoutVars, codes, written>>
  PROVE  \A i : Stored(i)' <=> Stored(i)
  BY ProgramFrame DEF Stored, layoutVars

(* The line pass 2 emits. *)
LEMMA EmitLineImage ==
  ASSUME LayoutInvariant, TableInvariant, ImageInvariant, EmitLine
  PROVE  ImageInvariant'
<1>1. TypeOK /\ next \in Nat /\ phase = "pass2" /\ More /\ Succeeds
  BY ProgramType DEF LayoutInvariant, TypeOK, EmitLine
<1>2. Encodes(next) /\ next \in LaidOut /\ next \in 1 .. Len(program)
  BY <1>1, CurrentLine DEF Settled
<1>3. /\ UNCHANGED <<program, layoutVars, ok, status>>
      /\ phase' = "pass2" /\ next' = next + 1
      /\ codes' = [codes EXCEPT ![next] = LineCodes]
  BY DEF EmitLine
<1>4. LaidOut' = LaidOut
  BY <1>3, ProgramFrame
<1>5. DOMAIN codes = 1 .. Len(program)
  <2>1. codes \in Seq(Seq(Word)) /\ Len(codes) = Len(program)
    BY <1>1 DEF TypeOK, CodesTypeOK
  <2> QED
    BY <2>1
<1>6. codes'[next] = LineCodes /\ \A i : i # next => codes'[i] = codes[i]
  <2> HIDE DEF LineCodes
  <2> QED
    BY <1>2, <1>3, <1>5
<1>7. \A i : Encodes(i)' <=> Encodes(i)
  BY <1>3 DEF Encodes, layoutVars
<1>8. ASSUME ok', NEW i \in LaidOut, i < next' PROVE Coded(i)'
  <2>1. CASE i = next
    BY <1>2, <1>3, <1>6, <1>7, <2>1 DEF Coded, LineCodes, Line, layoutVars
  <2>2. CASE i # next
    <3>1. i \in Nat
      <4>1. DOMAIN program \subseteq Nat
        BY <1>1, ProgramType DEF TypeOK
      <4> QED
        BY <4>1 DEF LaidOut
    <3>2. i < next
      BY <1>1, <1>3, <1>8, <2>2, <3>1
    <3>3. Coded(i)
      BY <1>1, <1>3, <1>8, <3>2 DEF ImageInvariant
    <3> QED
      BY <1>3, <1>6, <1>7, <2>2, <3>3 DEF Coded, layoutVars
  <2> QED
    BY <2>1, <2>2
<1>9. status' # "0"
  BY <1>1, <1>3 DEF ImageInvariant
<1> QED
  BY <1>3, <1>4, <1>8, <1>9 DEF ImageInvariant

(* The line that is written. *)
LEMMA WriteLineImage ==
  ASSUME LayoutInvariant, ImageInvariant, WriteLine
  PROVE  ImageInvariant'
<1>1. TypeOK /\ next \in Nat /\ next >= 1 /\ phase = "write"
  BY ProgramType DEF LayoutInvariant, TypeOK, WriteLine
<1>2. /\ UNCHANGED <<program, layoutVars, codes, ok, status>>
      /\ phase' = "write" /\ next' = next + 1
      /\ written' = written \o ToBytes(codes[next])
  BY DEF WriteLine
<1>3. LaidOut' = LaidOut /\ (WellFormed' <=> WellFormed) /\ (AllCoded' <=> AllCoded)
  BY <1>2, CodedFrame
<1>4. written \in Seq(Byte) /\ codes \in Seq(Seq(Word))
      /\ Len(codes) = Len(program) /\ next \in 1 .. Len(program)
  BY <1>1, ProgramType DEF TypeOK, FileTypeOK, CodesTypeOK, WriteLine
<1>5. \A i \in 1 .. Len(program) : codes[i] \in Seq(Word)
  BY <1>4, ElementOfSeq
<1>6. ToBytes(codes[next]) \in Seq(Byte)
  BY <1>4, <1>5, ToBytesType
<1>7. LaidOut \subseteq 1 .. Len(program) /\ LaidOut \subseteq Nat
  <2>1. DOMAIN program = 1 .. Len(program) /\ DOMAIN program \subseteq Nat
    BY <1>1, ProgramType DEF TypeOK
  <2> QED
    BY <2>1 DEF LaidOut
<1>8. ASSUME NEW i \in LaidOut, i < next + 1 PROVE Stored(i)'
  <2>1. CASE i = next
    <3>1. PICK last \in Nat, n \in Nat :
            /\ LaidOut = 1 .. last /\ Len(written) = 2 * (n + 1)
            /\ WellFormed =>
                 Wrap(origin + n) = IF next <= last THEN address[next] ELSE lc
      BY <1>1 DEF LayoutInvariant, InWrite, PlacedUpTo
    <3>2. next <= last
      BY <1>1, <2>1, <3>1
    <3>3. Holds(written', n, codes[next])
      BY <1>2, <1>4, <1>5, <3>1, HoldsAppended
    <3> QED
      BY <1>2, <1>3, <2>1, <3>1, <3>2, <3>3 DEF Stored, layoutVars
  <2>2. CASE i # next
    <3>1. i < next
      BY <1>1, <1>7, <1>8, <2>2
    <3>2. PICK s \in Nat : /\ WellFormed => Wrap(origin + s) = address[i]
                           /\ Holds(written, s, codes[i])
      BY <1>1, <3>1 DEF ImageInvariant, Stored
    <3>3. codes[i] \in Seq(Word)
      BY <1>5, <1>7
    <3>4. Holds(written', s, codes[i])
      BY <1>2, <1>4, <1>6, <3>2, <3>3, HoldsLonger
    <3> QED
      BY <1>2, <1>3, <3>2, <3>4 DEF Stored, layoutVars
  <2> QED
    BY <2>1, <2>2
<1>9. status' # "0" /\ AllCoded
  BY <1>1, <1>2 DEF ImageInvariant
<1> QED
  BY <1>2, <1>3, <1>8, <1>9 DEF ImageInvariant

LEMMA NextImage ==
  ASSUME LayoutInvariant, TableInvariant, ImageInvariant, [Next]_vars
  PROVE  ImageInvariant'
<1>1. TypeOK /\ next \in Nat /\ next >= 1
  BY ProgramType DEF LayoutInvariant, TypeOK
<1>2. DOMAIN program = 1 .. Len(program) /\ Len(program) \in Nat
  BY <1>1, ProgramType DEF TypeOK
<1>3. phase # "ended" => status # "0"
  BY DEF ImageInvariant
<1>4. ASSUME phase' \notin {"pass2", "open", "write"}, status' # "0"
      PROVE  ImageInvariant'
  BY <1>4 DEF ImageInvariant
<1>5. CASE Usage \/ SourceMissing \/ CrashOnLine \/ OpenFails \/ Interrupt
  BY <1>4, <1>5 DEF Usage, SourceMissing, CrashOnLine, OpenFails, Interrupt,
                    Exit
<1>6. CASE ReadSource \/ PlaceOrigin \/ Place
  BY <1>3, <1>4, <1>6 DEF ReadSource, LoadProgram, PlaceOrigin, Place
<1>7. CASE EndPass1
  <2>1. CASE phase' = "pass2"
    <3>1. next' = 1 /\ status' # "0"
      BY <1>3, <1>7, <2>1 DEF EndPass1, Exit
    <3>2. LaidOut' = LaidOut
      BY <1>7, ProgramFrame DEF EndPass1
    <3>3. \A i \in LaidOut : ~(i < 1)
      BY <1>2 DEF LaidOut
    <3> QED
      BY <2>1, <3>1, <3>2, <3>3 DEF ImageInvariant
  <2>2. CASE phase' # "pass2"
    BY <1>4, <1>7, <2>2 DEF EndPass1, Exit
  <2> QED
    BY <2>1, <2>2
<1>8. CASE EmitLine
  BY <1>8, EmitLineImage
<1>9. CASE RejectLine
  BY <1>3, <1>9 DEF RejectLine, ImageInvariant
<1>10. CASE EndPass2
  <2>1. CASE phase' = "ended"
    BY <1>3, <1>4, <1>10, <2>1 DEF EndPass2, Exit
  <2>2. CASE phase' # "ended"
    <3>1. /\ UNCHANGED <<program, layoutVars, codes, status>>
          /\ phase = "pass2" /\ phase' = "open" /\ ok /\ ~More
      BY <1>10, <2>2 DEF EndPass2, Exit
    <3>2. 1 .. next - 1 \subseteq LaidOut
      <4>1. PICK last \in Nat : PlacedUpTo(last) /\ next <= last + 1
        BY <3>1 DEF LayoutInvariant, InPass2
      <4> QED
        BY <1>1, <4>1 DEF PlacedUpTo
    <3>3. LaidOut = 1 .. next - 1
      BY <1>1, <3>1, <3>2, LaidOutEnd
    <3>4. \A i \in LaidOut : i < next
      BY <1>1, <3>3
    <3>5. AllCoded
      BY <3>1, <3>4 DEF ImageInvariant, AllCoded
    <3>6. AllCoded'
      BY <3>1, <3>5, CodedFrame
    <3> QED
      BY <1>3, <3>1, <3>6 DEF ImageInvariant
  <2> QED
    BY <2>1, <2>2
<1>11. CASE OpenObject
  <2>1. /\ UNCHANGED <<program, layoutVars, codes, status>>
        /\ phase = "open" /\ phase' = "write" /\ next' = 1
    BY <1>11 DEF OpenObject
  <2>2. AllCoded' /\ LaidOut' = LaidOut
    BY <2>1, CodedFrame DEF ImageInvariant
  <2>3. \A i \in LaidOut : ~(i < 1)
    BY <1>2 DEF LaidOut
  <2> QED
    BY <1>3, <2>1, <2>2, <2>3 DEF ImageInvariant
<1>12. CASE WriteLine
  BY <1>12, WriteLineImage
<1>13. CASE CloseObject
  <2>1. /\ UNCHANGED <<program, layoutVars, codes, written>>
        /\ phase = "write" /\ phase' = "ended" /\ next > Len(program)
    BY <1>13 DEF CloseObject, Exit
  <2>2. \A i \in LaidOut : i < next
    BY <1>1, <1>2, <2>1 DEF LaidOut
  <2>3. Resolved /\ AllCoded /\ \A i \in LaidOut : Stored(i)
    BY <2>1, <2>2 DEF TableInvariant, ImageInvariant
  <2>4. Resolved' /\ AllCoded' /\ LaidOut' = LaidOut
        /\ \A i : Stored(i)' <=> Stored(i)
    BY <2>1, <2>3, ResolvedFrame, CodedFrame, StoredFrame
  <2> QED
    BY <2>1, <2>3, <2>4 DEF ImageInvariant
<1>14. CASE UNCHANGED vars
  <2>1. UNCHANGED <<program, layoutVars, codes, written, ok, next, phase, status>>
    BY <1>14 DEF vars, fileVars
  <2>2. /\ Resolved' <=> Resolved
        /\ AllCoded' <=> AllCoded
        /\ LaidOut' = LaidOut
        /\ \A i : Coded(i)' <=> Coded(i)
        /\ \A i : Stored(i)' <=> Stored(i)
    BY <2>1, ResolvedFrame, CodedFrame, StoredFrame
  <2> QED
    BY <2>1, <2>2 DEF ImageInvariant
<1> QED
  BY <1>5, <1>6, <1>7, <1>8, <1>9, <1>10, <1>11, <1>12, <1>13, <1>14
     DEF Next, AssemblerNext, Passes, Ended

(* A word is its two bytes. *)
LEMMA BytesOfWord ==
  ASSUME NEW word \in Word
  PROVE  (word \div 256) * 256 + (word % 256) = word
<1>1. word \in Int
  BY WordBounds
<1> QED
  BY <1>1

\* The object file is the stream, as far as it goes.
IsBeginning(bytes) ==
  /\ Len(bytes) \in Nat /\ Len(bytes) <= Len(written)
  /\ \A k \in 1 .. Len(bytes) : bytes[k] = written[k]

(* Where a word of the stream lies once what there is of the file is loaded. *)
LEMMA LoadedWord ==
  ASSUME TypeOK, WellFormed, IsBeginning(object), WordsWritten <= WORD_MAX,
         NEW i \in 1 .. Len(program), Stored(i), Whole(i),
         NEW n \in Nat, n < Len(codes[i])
  PROVE  Loaded(address[i] + n) = codes[i][n + 1]
<1> DEFINE words == codes[i]
           length == Len(written)
<1>1. words \in Seq(Word)
  <2>1. codes \in Seq(Seq(Word)) /\ Len(codes) = Len(program)
    BY DEF TypeOK, CodesTypeOK
  <2> QED
    BY <2>1, ElementOfSeq
<1>2. origin \in Int /\ length \in Nat
  BY WordBounds DEF TypeOK, LayoutTypeOK, FileTypeOK
<1>3. PICK s \in Nat : Wrap(origin + s) = address[i] /\ Holds(written, s, words)
  BY DEF Stored
<1>4. length \div 2 - 1 <= 65536
  BY DEF WordsWritten, WORD_MAX
<1> HIDE DEF words, length
<1>5. /\ 2 * ((s + Len(words)) + 1) <= length
      /\ n + 1 \in 1 .. Len(words) /\ Len(words) \in Nat
  BY <1>1, <1>3 DEF Holds, words, length
<1>6. s + n \in Nat /\ s + n < 65536
  BY <1>2, <1>4, <1>5
<1>7. /\ Wrap((address[i] + n) - origin) = s + n
      /\ Wrap(address[i] - origin) = s
  <2>1. Wrap(origin + s) \in Int
    <3>1. Wrap(origin + s) \in Word
      BY <1>2, WrapType
    <3> QED
      BY <3>1, WordBounds
  <2>2. ASSUME NEW m \in Nat, s + m < 65536
        PROVE  Wrap((address[i] + m) - origin) = s + m
    <3>1. Wrap(Wrap(origin + s) + (m - origin)) = Wrap((origin + s) + (m - origin))
      BY <1>2, WrapSum
    <3>2. (origin + s) + (m - origin) = s + m
      BY <1>2
    <3>3. Wrap(s + m) = s + m
      BY <2>2 DEF Wrap, WORD_MAX
    <3>4. (address[i] + m) - origin = Wrap(origin + s) + (m - origin)
      BY <1>2, <1>3, <2>1
    <3> QED
      BY <3>1, <3>2, <3>3, <3>4
  <2>3. (address[i] + 0) - origin = address[i] - origin /\ s + 0 = s /\ s < 65536
    BY <1>2, <1>3, <1>6, <2>1
  <2> QED
    BY <1>6, <2>2, <2>3
<1>8. /\ 2 * (s + n) + 3 = 2 * (s + (n + 1)) + 1
      /\ 2 * (s + n) + 4 = 2 * (s + (n + 1)) + 2
  OBVIOUS
<1>9. /\ object[2 * (s + n) + 3] = words[n + 1] \div 256
      /\ object[2 * (s + n) + 4] = words[n + 1] % 256
  <2>1. 2 * (s + Len(words) + 1) <= Len(object) /\ Len(object) \in Nat
    BY <1>7 DEF Whole, IsBeginning, words
  <2>2. /\ 2 * (s + n) + 3 \in 1 .. Len(object)
        /\ 2 * (s + n) + 4 \in 1 .. Len(object)
    BY <1>5, <2>1
  <2> QED
    BY <1>3, <1>5, <1>8, <2>2 DEF Holds, IsBeginning
<1>10. words[n + 1] \in Word
  BY <1>1, <1>5, ElementOfSeq
<1>11. Loaded(address[i] + n)
         = (words[n + 1] \div 256) * 256 + (words[n + 1] % 256)
  BY <1>7, <1>9 DEF Loaded
<1>12. Loaded(address[i] + n) = words[n + 1]
  BY <1>10, <1>11, BytesOfWord
<1> QED
  BY <1>12 DEF words

-----------------------------------------------------------------------------
(* What the machine reads in the word of a line.                            *)

(* What there is to show of each operation. *)
LEMMA ReadsArithmetic ==
  ASSUME NEW word, NEW at, NEW line, NEW name, name = line.operation,
         name \in {"ADD", "AND"}, Opcode(word) = Opcodes[name],
         FieldDR(word) = line.operands[1].register,
         FieldSR1(word) = line.operands[2].register,
         ImmediateMode(word) <=> line.operands[3].type # "register",
         IF ImmediateMode(word)
         THEN Signed(Imm5(word)) = line.operands[3].integer
         ELSE FieldSR2(word) = line.operands[3].register
  PROVE  Reads(word, at, line)
  BY DEF Reads, TrapNames

LEMMA ReadsNot ==
  ASSUME NEW word, NEW at, NEW line, line.operation = "NOT",
         Opcode(word) = OP_NOT,
         FieldDR(word) = line.operands[1].register,
         FieldSR1(word) = line.operands[2].register
  PROVE  Reads(word, at, line)
  BY DEF Reads, TrapNames, Opcodes

LEMMA ReadsBr ==
  ASSUME NEW word, NEW at, NEW line, line.operation = "BR",
         Opcode(word) = OP_BR,
         FieldDR(word) = BranchMask(line.conditions),
         Displaced(at, PcOffset9(word)) = Target(line.operands[1].label)
  PROVE  Reads(word, at, line)
  BY DEF Reads, TrapNames, Opcodes

LEMMA ReadsJump ==
  ASSUME NEW word, NEW at, NEW line, NEW name, name = line.operation,
         name \in {"JMP", "RET", "JSRR"}, Opcode(word) = Opcodes[name],
         FieldSR1(word)
           = IF name = "RET" THEN R7 ELSE line.operands[1].register,
         name = "JSRR" => ~OffsetMode(word)
  PROVE  Reads(word, at, line)
  BY DEF Reads, TrapNames

LEMMA ReadsJsr ==
  ASSUME NEW word, NEW at, NEW line, line.operation = "JSR",
         Opcode(word) = OP_JSR, OffsetMode(word),
         Displaced(at, PcOffset11(word)) = Target(line.operands[1].label)
  PROVE  Reads(word, at, line)
  BY DEF Reads, TrapNames, Opcodes

LEMMA ReadsRelative ==
  ASSUME NEW word, NEW at, NEW line, NEW name, name = line.operation,
         name \in {"LD", "LDI", "LEA", "ST", "STI"},
         Opcode(word) = Opcodes[name],
         FieldDR(word) = line.operands[1].register,
         Displaced(at, PcOffset9(word)) = Target(line.operands[2].label)
  PROVE  Reads(word, at, line)
  BY DEF Reads, TrapNames

LEMMA ReadsBase ==
  ASSUME NEW word, NEW at, NEW line, NEW name, name = line.operation,
         name \in {"LDR", "STR"}, Opcode(word) = Opcodes[name],
         FieldDR(word) = line.operands[1].register,
         FieldSR1(word) = line.operands[2].register,
         Signed(Offset6(word)) = line.operands[3].integer
  PROVE  Reads(word, at, line)
  BY DEF Reads, TrapNames

LEMMA ReadsTrap ==
  ASSUME NEW word, NEW at, NEW line, NEW name, name = line.operation,
         \/ /\ name = "TRAP" /\ Opcode(word) = OP_TRAP
            /\ word % 4096 = line.operands[1].integer
         \/ name = "RTI" /\ Opcode(word) = OP_RTI
         \/ name \in TrapNames /\ word = OP_TRAP * 4096 + TrapCode(name)
  PROVE  Reads(word, at, line)
<1>1. name \in TrapNames => name \notin DOMAIN Opcodes
  BY DEF TrapNames, Opcodes
<1>2. Opcodes["TRAP"] = OP_TRAP /\ Opcodes["RTI"] = OP_RTI
      /\ "TRAP" \notin TrapNames /\ "RTI" \notin TrapNames
  BY DEF TrapNames, Opcodes
<1>3. name \in TrapNames =>
        name \notin {"ADD", "AND", "NOT", "BR", "JMP", "JSRR", "RET", "JSR",
                     "LD", "LDI", "LEA", "ST", "STI", "LDR", "STR", "TRAP",
                     ".FILL"}
  BY DEF TrapNames
<1> QED
  BY <1>1, <1>2, <1>3 DEF Reads

LEMMA ReadsFill ==
  ASSUME NEW word, NEW at, NEW line, line.operation = ".FILL",
         word = IF line.operands[1].type = "label"
                THEN Target(line.operands[1].label)
                ELSE Wrap(line.operands[1].integer)
  PROVE  Reads(word, at, line)
  BY DEF Reads, TrapNames, Opcodes

(* A register operand of a program is one of the eight. *)
LEMMA GeneralRegister ==
  ASSUME NEW line \in Lines, GeneralOnly(line), NEW n \in Nat \ {0},
         n <= Len(line.operands), line.operands[n].type = "register",
         NEW r, r = line.operands[n].register
  PROVE  /\ Operand(line, n) = line.operands[n]
         /\ RegisterCode(Operand(line, n)) = r
         /\ SecondSource(Operand(line, n)) = r
         /\ r \in Int /\ 0 <= r /\ r <= 7
<1>1. /\ Operand(line, n) = line.operands[n] /\ r \in 0 .. 9
      /\ RegisterCode(line.operands[n]) = r
      /\ SecondSource(line.operands[n]) = r
  BY OperandAt
<1>2. n \in DOMAIN line.operands
  <2>1. line.operands \in Seq(Operands)
    BY DEF Lines
  <2> QED
    BY <2>1
<1>3. r \in GeneralRegisters \cup {NoRegister}
  BY <1>2 DEF GeneralOnly
<1> QED
  BY <1>1, <1>3 DEF GeneralRegisters, NoRegister

(* A value that fits is recovered. *)
LEMMA FieldOf ==
  ASSUME NEW value \in Int, NEW span \in {32, 64}, Within(value, span)
  PROVE  Recovers(ImmediateBits(value, span), span, value)
<1>1. span \in {32, 64, 512, 2048}
  OBVIOUS
<1>2. ImmediateBits(value, span) >= 0
  BY <1>1, ImmediateSucceeds
<1>3. ImmediateBits(value, span) # Error
  BY <1>2 DEF Error
<1> QED
  BY <1>1, <1>3, ImmediateField

(* So is an offset. *)
LEMMA OffsetOf ==
  ASSUME NEW i, Settled(i), NEW operand, NEW span \in {512, 2048},
         operand.type = "label", operand.label \in Labels, operand # Missing,
         Defined(operand.label),
         Within(Target(operand.label) - (address[i] + 1), span)
  PROVE  Leads(PcOffset(table, operand, address[i], span), span, address[i],
               Target(operand.label))
<1> DEFINE at == address[i]
           target == Target(operand.label)
           bits == PcOffset(table, operand, at, span)
<1>1. at \in Word
  BY SettledTypes
<1>2. target \in Word /\ SymbolOf(table, operand) = target
  BY LabelOperand
<1>3. ~(target < 0)
  BY <1>2, WordBounds
<1>4. bits = ImmediateBits(target - (at + 1), span)
  BY <1>2, <1>3 DEF PcOffset
<1>5. bits # Error
  <2>1. bits >= 0
    BY OffsetToLabel
  <2> QED
    BY <2>1 DEF Error
<1> HIDE DEF at, target, bits
<1>6. Leads(bits, span, at, target)
  BY <1>1, <1>2, <1>4, <1>5, OffsetLeads
<1> QED
  BY <1>6 DEF at, target, bits

\* A line of a settled program that is well-typed, names R0 to R7 only and
\* has an encoding.
Sound(i) ==
  /\ Settled(i) /\ WellTyped(program[i]) /\ GeneralOnly(program[i])
  /\ ~Hopeless(i)

LEMMA ArithmeticRead ==
  ASSUME NEW i, Sound(i), NEW name, name = program[i].operation,
         name \in {"ADD", "AND"}
  PROVE  Reads(Encode(program[i], table, address[i]), address[i], program[i])
<1> DEFINE line == program[i]
           o == line.operands
           op == Opcodes[name]
           h == o[1].register
           m == o[2].register
           low == SecondSource(o[3])
           word == EncodeArithmetic(line, op)
<1>1. line \in Lines /\ Settled(i) /\ WellTyped(line) /\ GeneralOnly(line)
      /\ ~Hopeless(i)
  BY SettledTypes DEF Sound
<1>2. Kinds(line) \in {<<"register", "register", "register">>,
                       <<"register", "register", "integer">>}
  BY <1>1, Zenon DEF WellTyped, Shapes
<1>3. /\ o # <<>> /\ Len(o) = 3 /\ o[1].type = "register"
      /\ o[2].type = "register" /\ o[3].type \in {"register", "integer"}
  BY <1>1, <1>2, KindsAre
<1>4. /\ RegisterCode(Operand(line, 1)) = h
      /\ RegisterCode(Operand(line, 2)) = m
      /\ h \in Int /\ 0 <= h /\ h <= 7
      /\ m \in Int /\ 0 <= m /\ m <= 7
      /\ Operand(line, 3) = o[3]
  BY <1>1, <1>3, GeneralRegister, OperandAt
<1>5. o[3].type = "integer" => Within(o[3].integer, 32) /\ o[3].integer \in Int
  BY <1>1, <1>3, HopelessIs, OperandAt
<1>6. op \in Int /\ 0 <= op /\ op <= 15
  BY DEF Opcodes, OP_ADD, OP_AND
<1>7. word = Instruction(op, h, m, low)
  BY <1>4 DEF EncodeArithmetic
<1>8. Encode(line, table, address[i]) = word
  BY EncoderOf
<1> HIDE DEF word, op, h, m
<1>9. CASE o[3].type = "register"
  <2>1. low = o[3].register /\ low \in Int /\ 0 <= low /\ low <= 7
    BY <1>1, <1>3, <1>9, GeneralRegister, OperandAt
  <2> HIDE DEF low
  <2>2. low < 64 /\ low % 8 = low /\ ~(low >= 32)
    BY <2>1
  <2>3. ShortFieldsAre(word, op, h, m, low)
    BY <1>4, <1>6, <1>7, <2>1, <2>2, ShortReadsBack
  <2>4. /\ Opcode(word) = op /\ FieldDR(word) = h /\ FieldSR1(word) = m
        /\ FieldSR2(word) = low % 8 /\ (ImmediateMode(word) <=> low >= 32)
    BY <2>3 DEF ShortFieldsAre
  <2> QED
    BY <1>8, <1>9, <2>1, <2>2, <2>4, ReadsArithmetic DEF op, h, m
<1>10. CASE o[3].type = "integer"
  <2> DEFINE n == o[3].integer
             bits == ImmediateBits(n, 32)
  <2>1. n \in Int /\ Within(n, 32)
    BY <1>5, <1>10
  <2>2. low = With(bits, 1, 32)
    BY <1>10 DEF SecondSource
  <2> HIDE DEF low, n
  <2>3. Recovers(bits, 32, n)
    BY <2>1, FieldOf
  <2> HIDE DEF bits
  <2>4. bits \in Int /\ 0 <= bits /\ bits < 32
    BY <2>3 DEF Recovers
  <2>5. low = bits + 32
    <3>1. bits \in Word /\ 1 * 32 \in Word
      BY <2>4, BoundedIsWord
    <3>2. With(bits, 1, 32) = bits + 1 * 32
      BY <2>4, <3>1, WithDisjoint
    <3> QED
      BY <2>2, <3>2
  <2>6. low \in Int /\ 0 <= low /\ low < 64 /\ low >= 32 /\ low % 32 = bits
    BY <2>4, <2>5
  <2>7. ShortFieldsAre(word, op, h, m, low)
    BY <1>4, <1>6, <1>7, <2>6, ShortReadsBack
  <2>8. /\ Opcode(word) = op /\ FieldDR(word) = h /\ FieldSR1(word) = m
        /\ word % 32 = low % 32 /\ (ImmediateMode(word) <=> low >= 32)
    BY <2>7 DEF ShortFieldsAre
  <2>9. Signed(Imm5(word)) = n
    BY <2>3, <2>6, <2>8 DEF Recovers, Imm5
  <2> QED
    BY <1>8, <1>10, <2>6, <2>8, <2>9, ReadsArithmetic DEF op, h, m, n
<1> QED
  BY <1>3, <1>9, <1>10

LEMMA NotRead ==
  ASSUME NEW i, Sound(i), program[i].operation = "NOT"
  PROVE  Reads(Encode(program[i], table, address[i]), address[i], program[i])
<1> DEFINE line == program[i]
           o == line.operands
           h == o[1].register
           m == o[2].register
           word == EncodeNot(line)
<1>1. line \in Lines /\ WellTyped(line) /\ GeneralOnly(line)
  BY SettledTypes DEF Sound
<1>2. Kinds(line) = <<"register", "register">>
  BY <1>1, Zenon DEF WellTyped, Shapes
<1>3. Len(o) = 2 /\ o[1].type = "register" /\ o[2].type = "register"
  BY <1>1, <1>2, KindsAre
<1>4. /\ RegisterCode(Operand(line, 1)) = h
      /\ RegisterCode(Operand(line, 2)) = m
      /\ h \in Int /\ 0 <= h /\ h <= 7
      /\ m \in Int /\ 0 <= m /\ m <= 7
  BY <1>1, <1>3, GeneralRegister
<1>5. word = Instruction(OP_NOT, h, m, 63)
  BY <1>4 DEF EncodeNot
<1>6. Encode(line, table, address[i]) = word
  BY EncoderOf
<1> HIDE DEF word, h, m
<1>7. OP_NOT \in Int /\ 0 <= OP_NOT /\ OP_NOT <= 15
  BY DEF OP_NOT
<1>8. ShortFieldsAre(word, OP_NOT, h, m, 63)
  <2>1. 63 \in Int /\ 0 <= 63 /\ 63 < 64
    OBVIOUS
  <2> QED
    BY <1>4, <1>5, <1>7, <2>1, ShortReadsBack
<1>9. Opcode(word) = OP_NOT /\ FieldDR(word) = h /\ FieldSR1(word) = m
  BY <1>8 DEF ShortFieldsAre
<1> QED
  BY <1>6, <1>9, ReadsNot DEF h, m

LEMMA JumpRead ==
  ASSUME NEW i, Sound(i), NEW name, name = program[i].operation,
         name \in {"JMP", "RET", "JSRR"}
  PROVE  Reads(Encode(program[i], table, address[i]), address[i], program[i])
<1> DEFINE line == program[i]
           o == line.operands
           op == Opcodes[name]
           m == IF name = "RET" THEN R7 ELSE o[1].register
           word == Encode(line, table, address[i])
<1>1. line \in Lines /\ WellTyped(line) /\ GeneralOnly(line)
  BY SettledTypes DEF Sound
<1>2. /\ name = "RET" => Kinds(line) = <<>>
      /\ name # "RET" => Kinds(line) = <<"register">>
  BY <1>1, Zenon DEF WellTyped, Shapes
<1>3. /\ name = "RET" => Len(o) = 0
      /\ name # "RET" => Len(o) = 1 /\ o[1].type = "register"
  BY <1>1, <1>2, KindsAre
<1>4. /\ name # "RET" => /\ RegisterCode(Operand(line, 1)) = m
                         /\ Operand(line, 1) = o[1]
      /\ m \in Int /\ 0 <= m /\ m <= 7
  BY <1>1, <1>3, GeneralRegister DEF R7
<1>5. name \in {"JMP", "RET"} => EncodeJmp(line) = Instruction(OP_JMP, 0, m, 0)
  BY <1>3, <1>4 DEF EncodeJmp
<1>6. name = "JSRR" =>
        EncodeJsr(line, table, address[i]) = Instruction(OP_JSR, 0, m, 0)
  BY <1>3, <1>4 DEF EncodeJsr
<1>7. /\ name \in {"JMP", "RET"} => op = OP_JMP
      /\ name = "JSRR" => op = OP_JSR
      /\ op \in Int /\ 0 <= op /\ op <= 15
  BY DEF Opcodes, OP_JMP, OP_JSR
<1>8. /\ name \in {"JMP", "RET"} => word = EncodeJmp(line)
      /\ name = "JSRR" => word = EncodeJsr(line, table, address[i])
  BY EncoderOf
<1>9. word = Instruction(op, 0, m, 0)
  BY <1>5, <1>6, <1>7, <1>8
<1> HIDE DEF word, op, m
<1>10. ShortFieldsAre(word, op, 0, m, 0)
  <2>1. 0 \in Int /\ 0 <= 0 /\ 0 < 64 /\ 0 <= 7
    OBVIOUS
  <2> QED
    BY <1>4, <1>7, <1>9, <2>1, ShortReadsBack
<1>11. Opcode(word) = op /\ FieldSR1(word) = m /\ ~OffsetMode(word)
  BY <1>10 DEF ShortFieldsAre
<1> QED
  BY <1>11, ReadsJump DEF word, op, m

(* BR, and the operations with a register and an offset. *)
LEMMA NearRead ==
  ASSUME NEW i, Sound(i), NEW name, name = program[i].operation,
         name \in {"BR", "LD", "LDI", "LEA", "ST", "STI"}
  PROVE  Reads(Encode(program[i], table, address[i]), address[i], program[i])
<1> DEFINE line == program[i]
           o == line.operands
           last == o[Len(o)]
           at == address[i]
           op == Opcodes[name]
           h == IF name = "BR" THEN BranchMask(line.conditions)
                ELSE o[1].register
           bits == PcOffset(table, last, at, 512)
           word == Encode(line, table, at)
<1>1. line \in Lines /\ Settled(i) /\ WellTyped(line) /\ GeneralOnly(line)
      /\ ~Hopeless(i)
  BY SettledTypes DEF Sound
<1>2. /\ name = "BR" => Kinds(line) = <<"label">>
      /\ name # "BR" => Kinds(line) = <<"register", "label">>
  BY <1>1, Zenon DEF WellTyped, Shapes
<1>3. /\ o # <<>> /\ last.type = "label"
      /\ name = "BR" => Len(o) = 1
      /\ name # "BR" => Len(o) = 2 /\ o[1].type = "register"
  BY <1>1, <1>2, KindsAre
<1>4. /\ name = "BR" => Operand(line, 1) = last
      /\ name # "BR" =>
           Operand(line, 2) = last /\ RegisterCode(Operand(line, 1)) = h
      /\ last.label \in Labels /\ last # Missing
  BY <1>1, <1>3, OperandAt, GeneralRegister
<1>5. h \in Int /\ 0 <= h /\ h <= 7
  <2>1. BranchMask(line.conditions) \in 0 .. 7
    BY DEF BranchMask, CONDITION_FLAG_NEGATIVE, CONDITION_FLAG_ZERO,
           CONDITION_FLAG_POSITIVE
  <2> QED
    BY <1>1, <1>3, <2>1, GeneralRegister
<1>6. Defined(last.label) /\ Within(Target(last.label) - (at + 1), 512)
  BY <1>1, <1>3, HopelessIs
<1>7. Leads(bits, 512, at, Target(last.label))
  BY <1>1, <1>3, <1>4, <1>6, OffsetOf
<1>8. op \in Int /\ 0 <= op /\ op <= 15
  BY DEF Opcodes, OP_BR, OP_LD, OP_LDI, OP_LEA, OP_ST, OP_STI
<1>9. /\ name = "BR" => word = EncodeBr(line, table, at) /\ op = OP_BR
      /\ name # "BR" => word = EncodePcRelative(line, op, table, at)
  BY EncoderOf DEF Opcodes
<1>10. word = Instruction(op, h, 0, bits)
  BY <1>4, <1>9 DEF EncodeBr, EncodePcRelative
<1> HIDE DEF word, op, h, bits, at, last
<1>11. bits \in Int /\ 0 <= bits /\ bits < 512
  BY <1>7 DEF Leads
<1>12. Opcode(word) = op /\ FieldDR(word) = h /\ word % 512 = bits
  <2>1. LongFieldsAre(word, op, h, bits)
    BY <1>5, <1>8, <1>10, <1>11, LongReadsBack
  <2> QED
    BY <2>1 DEF LongFieldsAre
<1>13. Displaced(at, PcOffset9(word)) = Target(last.label)
  BY <1>7, <1>12 DEF Leads, Displaced, PcOffset9
<1>14. CASE name = "BR"
  BY <1>3, <1>9, <1>12, <1>13, <1>14, ReadsBr DEF word, at, last, h
<1>15. CASE name # "BR"
  BY <1>3, <1>12, <1>13, <1>15, ReadsRelative DEF word, at, last, h, op
<1> QED
  BY <1>14, <1>15

LEMMA FarRead ==
  ASSUME NEW i, Sound(i), program[i].operation = "JSR"
  PROVE  Reads(Encode(program[i], table, address[i]), address[i], program[i])
<1> DEFINE line == program[i]
           o == line.operands
           at == address[i]
           bits == PcOffset(table, o[1], at, 2048)
           word == Encode(line, table, at)
<1>1. line \in Lines /\ Settled(i) /\ WellTyped(line) /\ ~Hopeless(i)
  BY SettledTypes DEF Sound
<1>2. Kinds(line) = <<"label">>
  BY <1>1, Zenon DEF WellTyped, Shapes
<1>3. o # <<>> /\ o[1].type = "label" /\ Len(o) = 1
  BY <1>1, <1>2, KindsAre
<1>4. Operand(line, 1) = o[1] /\ o[1].label \in Labels /\ o[1] # Missing
  BY <1>1, <1>3, OperandAt
<1>5. Defined(o[1].label) /\ Within(Target(o[1].label) - (at + 1), 2048)
  BY <1>1, <1>3, HopelessIs
<1>6. Leads(bits, 2048, at, Target(o[1].label))
  BY <1>1, <1>3, <1>4, <1>5, OffsetOf
<1>7. word = Instruction(OP_JSR, 4, 0, bits)
  <2>1. word = EncodeJsr(line, table, at)
    BY EncoderOf
  <2> QED
    BY <1>3, <1>4, <2>1 DEF EncodeJsr
<1> HIDE DEF word, bits, at
<1>8. bits \in Int /\ 0 <= bits /\ bits < 2048
  BY <1>6 DEF Leads
<1>9. OP_JSR \in Int /\ 0 <= OP_JSR /\ OP_JSR <= 15
  BY DEF OP_JSR
<1>10. Opcode(word) = OP_JSR /\ OffsetMode(word) /\ word % 2048 = bits
  BY <1>7, <1>8, <1>9, FarReadsBack
<1>11. Displaced(at, PcOffset11(word)) = Target(o[1].label)
  BY <1>6, <1>10 DEF Leads, Displaced, PcOffset11
<1> QED
  BY <1>10, <1>11, ReadsJsr DEF word, at

LEMMA BaseRead ==
  ASSUME NEW i, Sound(i), NEW name, name = program[i].operation,
         name \in {"LDR", "STR"}
  PROVE  Reads(Encode(program[i], table, address[i]), address[i], program[i])
<1> DEFINE line == program[i]
           o == line.operands
           op == Opcodes[name]
           h == o[1].register
           m == o[2].register
           n == o[3].integer
           bits == ImmediateBits(n, 64)
           word == Encode(line, table, address[i])
<1>1. line \in Lines /\ Settled(i) /\ WellTyped(line) /\ GeneralOnly(line)
      /\ ~Hopeless(i)
  BY SettledTypes DEF Sound
<1>2. Kinds(line) = <<"register", "register", "integer">>
  BY <1>1, Zenon DEF WellTyped, Shapes
<1>3. /\ o # <<>> /\ Len(o) = 3 /\ o[1].type = "register"
      /\ o[2].type = "register" /\ o[3].type = "integer"
  BY <1>1, <1>2, KindsAre
<1>4. /\ RegisterCode(Operand(line, 1)) = h
      /\ RegisterCode(Operand(line, 2)) = m
      /\ h \in Int /\ 0 <= h /\ h <= 7
      /\ m \in Int /\ 0 <= m /\ m <= 7
      /\ Operand(line, 3).integer = n /\ n \in Int
  BY <1>1, <1>3, GeneralRegister, OperandAt
<1>5. Within(n, 64)
  BY <1>1, <1>3, HopelessIs
<1>6. op \in Int /\ 0 <= op /\ op <= 15
  BY DEF Opcodes, OP_LDR, OP_STR
<1>7. word = Instruction(op, h, m, bits)
  <2>1. word = EncodeBaseOffset(line, op)
    BY EncoderOf
  <2> QED
    BY <1>4, <2>1 DEF EncodeBaseOffset
<1> HIDE DEF word, op, h, m, n
<1>8. Recovers(bits, 64, n)
  BY <1>4, <1>5, FieldOf
<1> HIDE DEF bits
<1>9. bits \in Int /\ 0 <= bits /\ bits < 64
  BY <1>8 DEF Recovers
<1>10. ShortFieldsAre(word, op, h, m, bits)
  BY <1>4, <1>6, <1>7, <1>9, ShortReadsBack
<1>11. /\ Opcode(word) = op /\ FieldDR(word) = h /\ FieldSR1(word) = m
       /\ word % 64 = bits
  BY <1>10 DEF ShortFieldsAre
<1>12. Signed(Offset6(word)) = n
  BY <1>8, <1>11 DEF Recovers, Offset6
<1> QED
  BY <1>11, <1>12, ReadsBase DEF word, op, h, m, n

LEMMA VectorRead ==
  ASSUME NEW i, Sound(i), program[i].operation = "TRAP"
  PROVE  Reads(Encode(program[i], table, address[i]), address[i], program[i])
<1> DEFINE line == program[i]
           o == line.operands
           n == o[Len(o)].integer
           word == Encode(line, table, address[i])
<1>1. line \in Lines /\ Settled(i) /\ WellTyped(line) /\ ~Hopeless(i)
  BY SettledTypes DEF Sound
<1>2. OP_TRAP \in Int /\ 0 <= OP_TRAP /\ OP_TRAP <= 15
  BY DEF OP_TRAP
<1>3. Kinds(line) = <<"integer">>
  BY <1>1, Zenon DEF WellTyped, Shapes
<1>4. o # <<>> /\ o[1].type = "integer" /\ Len(o) = 1
  BY <1>1, <1>3, KindsAre
<1>5. Operand(line, 1).integer = n
  BY <1>1, <1>4, OperandAt
<1>6. Hopeless(i) <=> n \notin Byte
  BY <1>1, <1>4, HopelessIs
<1>7. n \in Byte
  BY <1>1, <1>6
<1>8. word = EncodeTrap(line)
  BY EncoderOf
<1>9. n \in 0 .. 255 /\ n \in Int /\ 0 <= n /\ n < 512
  <2> HIDE DEF n
  <2> QED
    BY <1>7 DEF Byte
<1>10. EncodeTrap(line) = Instruction(OP_TRAP, 0, 0, n)
  BY <1>5, <1>9 DEF EncodeTrap
<1> HIDE DEF word, n
<1>11. Opcode(word) = OP_TRAP /\ word % 4096 = 0 * 512 + n
  <2>1. 0 \in Int /\ 0 <= 0 /\ 0 <= 7
    OBVIOUS
  <2>2. LongFieldsAre(word, OP_TRAP, 0, n)
    BY <1>2, <1>9, <1>8, <1>10, <2>1, LongReadsBack
  <2> QED
    BY <2>2 DEF LongFieldsAre
<1>12. word % 4096 = n
  BY <1>9, <1>11
<1>13. o[1].integer = n
  BY <1>4 DEF n
<1> QED
  BY <1>11, <1>12, <1>13, ReadsTrap DEF word

LEMMA BareRead ==
  ASSUME NEW i, NEW name, name = program[i].operation,
         name \in {"RTI"} \cup TrapNames
  PROVE  Reads(Encode(program[i], table, address[i]), address[i], program[i])
<1> DEFINE line == program[i]
           word == Encode(line, table, address[i])
           code == TrapCode(name)
<1>1. /\ name = "RTI" => word = OP_RTI * 4096
      /\ name \in TrapNames => word = Instruction(OP_TRAP, 0, 0, code)
  BY EncoderOf
<1>2. OP_TRAP \in Int /\ 0 <= OP_TRAP /\ OP_TRAP <= 15
  BY DEF OP_TRAP
<1>3. name = "RTI" => Opcode(word) = OP_RTI
  BY <1>1 DEF Opcode, OP_RTI
<1>4. name \in TrapNames => code \in 0 .. 255
  <2>1. /\ TRAP_GETC \in 0 .. 255 /\ TRAP_OUT \in 0 .. 255
        /\ TRAP_PUTS \in 0 .. 255 /\ TRAP_IN \in 0 .. 255
        /\ TRAP_PUTSP \in 0 .. 255 /\ TRAP_HALT \in 0 .. 255
    BY DEF TRAP_GETC, TRAP_OUT, TRAP_PUTS, TRAP_IN, TRAP_PUTSP, TRAP_HALT
  <2> QED
    BY <2>1 DEF TrapNames, TrapCode
<1> HIDE DEF word, code
<1>5. code \in 0 .. 255 =>
        Instruction(OP_TRAP, 0, 0, code) = OP_TRAP * 4096 + code
  <2> SUFFICES ASSUME code \in 0 .. 255
               PROVE  Instruction(OP_TRAP, 0, 0, code) = OP_TRAP * 4096 + code
    OBVIOUS
  <2>1. code \in Int /\ 0 <= code /\ code < 512
    OBVIOUS
  <2>2. Instruction(OP_TRAP, 0, 0, code)
          = OP_TRAP * 4096 + 0 * 512 + 0 * 64 + code
    <3>1. 0 \in Int /\ 0 <= 0 /\ 0 <= 7
      OBVIOUS
    <3> QED
      BY <1>2, <2>1, <3>1, SmallInstruction
  <2> QED
    BY <1>2, <2>1, <2>2
<1>6. name \in TrapNames => word = OP_TRAP * 4096 + code
  BY <1>1, <1>4, <1>5
<1> QED
  BY <1>3, <1>6, ReadsTrap DEF word, code

LEMMA FillRead ==
  ASSUME NEW i, Sound(i), program[i].operation = ".FILL"
  PROVE  Reads(FillValue(program[i], table), address[i], program[i])
<1> DEFINE line == program[i]
           o == line.operands
<1>1. line \in Lines /\ Settled(i) /\ WellTyped(line) /\ ~Hopeless(i)
  BY SettledTypes DEF Sound
<1>2. Kinds(line) \in {<<"integer">>, <<"label">>}
  BY <1>1, Zenon DEF WellTyped, Shapes
<1>3. o # <<>> /\ o[1].type \in {"integer", "label"} /\ Len(o) = 1
  BY <1>1, <1>2, KindsAre
<1>4. /\ Operand(line, 1) = o[1]
      /\ o[1].type = "label" => o[1].label \in Labels /\ o[1] # Missing
  BY <1>1, <1>3, OperandAt
<1>5. o[1].type = "label" => SymbolOf(table, o[1]) = Target(o[1].label)
  <2>1. o[1].type = "label" => Defined(o[1].label)
    BY <1>1, <1>3, HopelessIs
  <2> QED
    BY <1>1, <1>4, <2>1, LabelOperand
<1> QED
  BY <1>4, <1>5, ReadsFill DEF FillValue

(* One word, whatever the operation. *)
LEMMA WordRead ==
  ASSUME NEW i, Sound(i), NEW name, name = program[i].operation,
         name \in Names, name \notin {NULL, ".ORIG", ".END", ".BLKW", ".STRINGZ"}
  PROVE  /\ Len(MachineCodes(program[i], table, address[i])) = 1
         /\ Reads(MachineCodes(program[i], table, address[i])[1], address[i],
                  program[i])
<1> DEFINE line == program[i]
           found == MachineCodes(line, table, address[i])
<1>1. CASE name = ".FILL"
  <2>1. found = <<FillValue(line, table)>>
    BY <1>1 DEF MachineCodes, NULL
  <2>2. Reads(FillValue(line, table), address[i], line)
    BY <1>1, FillRead
  <2> QED
    BY <2>1, <2>2
<1>2. CASE name # ".FILL"
  <2>1. found = <<Encode(line, table, address[i])>>
    BY <1>2, OneWord
  <2>2. \/ name \in {"ADD", "AND"}
        \/ name = "NOT"
        \/ name \in {"JMP", "RET", "JSRR"}
        \/ name \in {"BR", "LD", "LDI", "LEA", "ST", "STI"}
        \/ name = "JSR"
        \/ name \in {"LDR", "STR"}
        \/ name = "TRAP"
        \/ name \in {"RTI"} \cup TrapNames
    BY <1>2 DEF Names, Opcodes, Directives
  <2>3. Reads(Encode(line, table, address[i]), address[i], line)
    BY <2>2, ArithmeticRead, NotRead, JumpRead, NearRead, FarRead, BaseRead,
       VectorRead, BareRead
  <2> QED
    BY <2>1, <2>3
<1> QED
  BY <1>1, <1>2

(* A line that has an encoding has a name the assembler knows. *)
LEMMA EncodedIsNamed ==
  ASSUME NEW i, Encodes(i) PROVE program[i].operation \in Names
<1> SUFFICES ASSUME program[i].operation \notin Names PROVE FALSE
  OBVIOUS
<1>1. program[i].operation
        \notin {NULL, ".ORIG", ".END", ".FILL", ".BLKW", ".STRINGZ"}
  BY DEF Names, Directives
<1>2. MachineCodes(program[i], table, address[i])
        = <<Encode(program[i], table, address[i])>>
  BY <1>1, OneWord
<1>3. Encode(program[i], table, address[i]) = Error
  BY DEF Encode, Names, Opcodes
<1> QED
  BY <1>2, <1>3, OneWordEncodes DEF Error

(* Each line of what there is of a file. *)
LEMMA LineLoaded ==
  ASSUME TypeOK, Resolved, phase = "ended", WellFormed, IsBeginning(object),
         WordsWritten <= WORD_MAX,
         NEW i \in LaidOut, Coded(i), Stored(i), Whole(i),
         WellTyped(program[i]), GeneralOnly(program[i])
  PROVE  LoadedAsWritten(i)
<1> DEFINE line == program[i]
           name == line.operation
           o == line.operands
           found == MachineCodes(line, table, address[i])
<1>1. i \in 1 .. Len(program) /\ i \in 1 .. i
  <2>1. DOMAIN program = 1 .. Len(program) /\ Len(program) \in Nat
    BY ProgramType DEF TypeOK
  <2> QED
    BY <2>1 DEF LaidOut
<1>2. Settled(i) /\ line \in Lines
  BY <1>1, SettledTypes DEF Settled
<1>3. codes[i] = found /\ Encodes(i)
  BY DEF Coded
<1>4. name \in Names /\ name # ".END"
  BY <1>1, <1>3, EncodedIsNamed DEF LaidOut
<1>5. ~Hopeless(i)
  BY <1>2, <1>3, <1>4, LineOutcome
<1>6. Sound(i)
  BY <1>2, <1>5 DEF Sound
<1>7. ASSUME NEW n \in Nat, n < Len(found)
      PROVE  Loaded(address[i] + n) = found[n + 1]
  BY <1>1, <1>3, <1>7, LoadedWord
<1>8. CASE name \in {NULL, ".ORIG"}
  BY <1>8, Zenon DEF LoadedAsWritten, NULL
<1>9. CASE name = ".BLKW"
  <2>1. Kinds(line) = <<"integer">>
    BY <1>9, Zenon DEF WellTyped, Shapes
  <2>2. Len(o) = 1 /\ o[1].type = "integer"
    BY <1>2, <2>1, KindsAre
  <2>3. Operand(line, 1) = o[1] /\ o[1].integer \in Int
    BY <1>2, <2>2, OperandAt
  <2>4. found = [k \in 1 .. o[1].integer |-> 0]
    BY <1>9, <2>3 DEF MachineCodes, NULL
  <2> DEFINE m == o[1].integer
  <2> HIDE DEF m
  <2>5. ASSUME NEW n \in 1 .. m PROVE Loaded(address[i] + (n - 1)) = 0
    <3>1. m \in Nat /\ n - 1 \in Nat /\ (n - 1) + 1 = n /\ n - 1 < m
      BY <2>3 DEF m
    <3>2. Len([k \in 1 .. m |-> 0]) = m
      BY <3>1
    <3>3. found[(n - 1) + 1] = 0
      BY <2>4, <3>1 DEF m
    <3>4. n - 1 < Len(found)
      BY <2>4, <3>1, <3>2 DEF m
    <3> HIDE DEF found
    <3> QED
      BY <1>7, <3>1, <3>3, <3>4
  <2> QED
    BY <1>9, <2>5 DEF LoadedAsWritten, NULL, m
<1>10. CASE name = ".STRINGZ"
  <2>1. Kinds(line) = <<"string">>
    BY <1>10, Zenon DEF WellTyped, Shapes
  <2>2. Len(o) = 1 /\ o[1].type = "string"
    BY <1>2, <2>1, KindsAre
  <2>3. Operand(line, 1) = o[1] /\ o[1].string \in Seq(Byte)
    BY <1>2, <2>2, OperandAt
  <2>4. found = Append(o[1].string, 0)
    BY <1>10, <2>2, <2>3 DEF MachineCodes, NULL
  <2> DEFINE text == o[1].string
  <2> HIDE DEF text
  <2>5. /\ text \in Seq(Byte) /\ Len(text) \in Nat
        /\ DOMAIN text = 1 .. Len(text)
    BY <2>3 DEF text
  <2>6. /\ Len(found) = Len(text) + 1 /\ found[Len(text) + 1] = 0
        /\ \A n \in 1 .. Len(text) : found[n] = text[n]
    <3>1. 0 \in Byte
      BY DEF Byte
    <3>2. found = Append(text, 0)
      BY <2>4 DEF text
    <3> HIDE DEF found
    <3>3. /\ Len(Append(text, 0)) = Len(text) + 1
          /\ Append(text, 0)[Len(text) + 1] = 0
          /\ \A n \in 1 .. Len(text) : Append(text, 0)[n] = text[n]
      BY <2>5, <3>1, AppendProperties
    <3> QED
      BY <3>2, <3>3
  <2> HIDE DEF found
  <2>7. ASSUME NEW n \in DOMAIN text
        PROVE  Loaded(address[i] + (n - 1)) = text[n]
    <3>1. n - 1 \in Nat /\ (n - 1) + 1 = n /\ n - 1 < Len(text) + 1
      BY <2>5
    <3> QED
      BY <1>7, <2>5, <2>6, <3>1
  <2>8. Loaded(address[i] + Len(text)) = 0
    <3>1. Len(text) < Len(text) + 1
      BY <2>5
    <3> QED
      BY <1>7, <2>5, <2>6, <3>1
  <2> QED
    BY <1>10, <2>7, <2>8 DEF LoadedAsWritten, NULL, text
<1>11. CASE name \notin {NULL, ".ORIG", ".BLKW", ".STRINGZ"}
  <2>1. Len(found) = 1 /\ Reads(found[1], address[i], line)
    BY <1>4, <1>6, <1>11, WordRead
  <2> HIDE DEF found
  <2>2. Loaded(address[i] + 0) = found[0 + 1]
    BY <1>7, <2>1
  <2>3. 0 + 1 = 1
    OBVIOUS
  <2>4. Reads(Loaded(address[i] + 0), address[i], line)
    BY <2>1, <2>2, <2>3
  <2> QED
    BY <1>11, <2>4 DEF LoadedAsWritten
<1> QED
  BY <1>8, <1>9, <1>10, <1>11

(* A file that is all of the stream has all words of every line. *)
LEMMA WholeStream ==
  ASSUME TypeOK, object = written, WellFormed,
         NEW i \in LaidOut, Coded(i), Stored(i)
  PROVE  IsBeginning(object) /\ Whole(i)
<1>1. i \in 1 .. Len(program) /\ Len(written) \in Nat
  <2>1. DOMAIN program = 1 .. Len(program)
    BY ProgramType DEF TypeOK
  <2> QED
    BY <2>1 DEF LaidOut, TypeOK, FileTypeOK
<1>2. codes[i] \in Seq(Word) /\ origin \in Int
  <2>1. codes \in Seq(Seq(Word)) /\ Len(codes) = Len(program)
    BY DEF TypeOK, CodesTypeOK
  <2> QED
    BY <1>1, <2>1, ElementOfSeq, WordBounds DEF TypeOK, LayoutTypeOK
<1>3. PICK s \in Nat : Wrap(origin + s) = address[i] /\ Holds(written, s, codes[i])
  BY DEF Stored
<1>4. Wrap(address[i] - origin) = Wrap(s)
  <2>1. Wrap(Wrap(origin + s) + (0 - origin)) = Wrap((origin + s) + (0 - origin))
    BY <1>2, WrapSum
  <2>2. Wrap(origin + s) \in Int
    <3>1. Wrap(origin + s) \in Word
      BY <1>2, WrapType
    <3> QED
      BY <3>1, WordBounds
  <2>3. /\ (origin + s) + (0 - origin) = s
        /\ address[i] - origin = Wrap(origin + s) + (0 - origin)
    BY <1>2, <1>3, <2>2
  <2> QED
    BY <2>1, <2>3
<1>5. Wrap(s) \in Int /\ Wrap(s) <= s
  BY DEF Wrap, WORD_MAX
<1>6. 2 * ((s + Len(codes[i])) + 1) <= Len(object) /\ Len(codes[i]) \in Nat
  BY <1>2, <1>3 DEF Holds
<1>7. 2 * (Wrap(s) + Len(codes[i]) + 1) <= Len(object)
  BY <1>1, <1>5, <1>6
<1> QED
  BY <1>1, <1>4, <1>7 DEF IsBeginning, Whole

Complete == Decided /\ ImageInvariant

LEMMA CompleteInvariant == Spec => []Complete
<1>1. Init => Complete
  <2>1. Init => Decided
    BY InitType DEF Init, Decided, LayoutInvariant, AtStart, InPass1, InPass2,
                    AtOpen, InWrite, TableInvariant, OutcomeInvariant
  <2> QED
    BY <2>1 DEF Init, Complete, ImageInvariant
<1>2. Complete /\ [Next]_vars => Complete'
  BY NextLayout, NextTable, NextOutcome, NextImage DEF Complete, Decided
<1> QED
  BY <1>1, <1>2, PTL DEF Spec

(* The whole assembler: encoders, layout, symbols and byte order.  Whatever
   the program, the virtual machine finds each line where pass 1 has put it
   and reads it as what it says. *)
THEOREM LinesAssembledAsWritten == Spec => []AssembledAsWritten
<1>1. Complete => AssembledAsWritten
  <2> SUFFICES ASSUME Complete, status = "0", WellFormed, object = written,
                      WordsWritten <= WORD_MAX, NEW i \in LaidOut,
                      WellTyped(program[i]), GeneralOnly(program[i])
               PROVE  LoadedAsWritten(i)
    BY DEF AssembledAsWritten
  <2>1. TypeOK
    BY DEF Complete, Decided, LayoutInvariant
  <2>2. phase = "ended" /\ Resolved /\ Coded(i) /\ Stored(i)
    BY DEF Complete, ImageInvariant, AllCoded
  <2>3. IsBeginning(object) /\ Whole(i)
    BY <2>1, <2>2, WholeStream
  <2> QED
    BY <2>1, <2>2, <2>3, LineLoaded
<1> QED
  BY <1>1, CompleteInvariant, PTL

-----------------------------------------------------------------------------
(* What is left of the object file.                                         *)

\* An object file that is not the old one is the beginning of a stream that
\* has every line written so far.
RemnantInvariant ==
  /\ phase \notin {"write", "ended"} => object = OldObject
  /\ phase = "ended" /\ object # OldObject =>
       /\ Resolved /\ AllCoded /\ IsBeginning(object)
       /\ \A i \in LaidOut : i < next => Stored(i)

LEMMA OnDiskBegins ==
  ASSUME TypeOK, NEW bytes \in OnDisk PROVE IsBeginning(bytes)
<1>1. written \in Seq(Byte) /\ Len(written) \in Nat
  BY DEF TypeOK, FileTypeOK
<1>2. CASE bytes = written
  BY <1>1, <1>2 DEF IsBeginning
<1>3. ASSUME NEW n \in 0 .. Len(written), bytes = SubSeq(written, 1, n)
      PROVE  IsBeginning(bytes)
  <2>1. Len(bytes) = n /\ \A k \in 1 .. n : bytes[k] = written[k]
    BY <1>1, <1>3
  <2> QED
    BY <1>1, <2>1 DEF IsBeginning
<1> QED
  BY <1>2, <1>3 DEF OnDisk

(* The end of a process that has emptied the old object file. *)
LEMMA EndInWrite ==
  ASSUME TypeOK, TableInvariant, ImageInvariant, phase = "write",
         UNCHANGED <<program, next, layoutVars, codes, written>>,
         object' \in OnDisk, phase' = "ended"
  PROVE  RemnantInvariant'
<1>1. Resolved /\ AllCoded /\ \A i \in LaidOut : i < next => Stored(i)
  BY DEF TableInvariant, ImageInvariant
<1>2. /\ Resolved' /\ AllCoded' /\ LaidOut' = LaidOut
      /\ \A i : Stored(i)' <=> Stored(i)
  BY <1>1, ResolvedFrame, CodedFrame, StoredFrame
<1>3. IsBeginning(object')
  BY OnDiskBegins
<1>4. IsBeginning(object)'
  BY <1>3 DEF IsBeginning
<1> QED
  BY <1>1, <1>2, <1>4 DEF RemnantInvariant

LEMMA NextRemnant ==
  ASSUME TypeOK, TableInvariant, ImageInvariant, RemnantInvariant, [Next]_vars
  PROVE  RemnantInvariant'
<1>1. ASSUME object' = OldObject PROVE RemnantInvariant'
  BY <1>1 DEF RemnantInvariant
<1>2. ASSUME phase' = "write" PROVE RemnantInvariant'
  BY <1>2 DEF RemnantInvariant
<1>3. ASSUME phase \notin {"write", "ended"}, UNCHANGED object
      PROVE  RemnantInvariant'
  BY <1>1, <1>3 DEF RemnantInvariant
<1>4. CASE Usage \/ SourceMissing \/ ReadSource
  BY <1>3, <1>4 DEF Usage, SourceMissing, ReadSource, LoadProgram, fileVars
<1>5. CASE PlaceOrigin \/ Place \/ EndPass1
  BY <1>3, <1>5 DEF PlaceOrigin, Place, EndPass1, fileVars
<1>6. CASE EmitLine \/ RejectLine \/ CrashOnLine \/ EndPass2 \/ OpenFails
  BY <1>3, <1>6 DEF EmitLine, RejectLine, CrashOnLine, EndPass2, OpenFails,
                    fileVars
<1>7. CASE OpenObject \/ WriteLine
  BY <1>2, <1>7 DEF OpenObject, WriteLine
<1>8. CASE CloseObject
  BY <1>8, EndInWrite DEF CloseObject, Exit
<1>9. CASE Interrupt
  <2>1. CASE phase = "write"
    BY <1>9, <2>1, EndInWrite DEF Interrupt, Exit
  <2>2. CASE phase # "write"
    BY <1>3, <1>9, <2>2 DEF Interrupt
  <2> QED
    BY <2>1, <2>2
<1>10. CASE UNCHANGED vars
  <2>1. UNCHANGED <<program, layoutVars, codes, written, object, next, phase>>
    BY <1>10 DEF vars, fileVars
  <2>2. /\ Resolved' <=> Resolved
        /\ AllCoded' <=> AllCoded
        /\ LaidOut' = LaidOut
        /\ \A i : Stored(i)' <=> Stored(i)
    BY <2>1, ResolvedFrame, CodedFrame, StoredFrame
  <2>3. IsBeginning(object)' <=> IsBeginning(object)
    BY <2>1 DEF IsBeginning
  <2> QED
    BY <2>1, <2>2, <2>3 DEF RemnantInvariant
<1> QED
  BY <1>4, <1>5, <1>6, <1>7, <1>8, <1>9, <1>10
     DEF Next, AssemblerNext, Passes, Ended

(* A process that was interrupted, or whose disk was full, leaves a file that
   can be trusted as far as it goes: nothing of the old object file is in it,
   and each line that is all there is where pass 1 has put it. *)
THEOREM RemnantsCanBeTrusted == Spec => []RemnantAsWritten
<1>1. Init => RemnantInvariant
  BY DEF Init, RemnantInvariant
<1>2. Complete /\ RemnantInvariant /\ [Next]_vars => RemnantInvariant'
  BY NextRemnant DEF Complete, Decided, LayoutInvariant
<1>3. Complete /\ RemnantInvariant => RemnantAsWritten
  <2> SUFFICES ASSUME Complete, RemnantInvariant,
                      phase = "ended", object # OldObject,
                      WellFormed, WordsWritten <= WORD_MAX,
                      NEW i \in LaidOut, i < next, Whole(i),
                      WellTyped(program[i]), GeneralOnly(program[i])
               PROVE  LoadedAsWritten(i)
    BY DEF RemnantAsWritten
  <2>1. TypeOK
    BY DEF Complete, Decided, LayoutInvariant
  <2>2. Resolved /\ IsBeginning(object) /\ Coded(i) /\ Stored(i)
    BY DEF RemnantInvariant, AllCoded
  <2> QED
    BY <2>1, <2>2, LineLoaded
<1> QED
  BY <1>1, <1>2, <1>3, CompleteInvariant, PTL DEF Spec
=============================================================================
