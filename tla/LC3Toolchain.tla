---------------------------- MODULE LC3Toolchain ----------------------------
(***************************************************************************)
(* The disassembler, the assembly file and the assembler, one after the    *)
(* other: the file holds the listing of an object file, or what a          *)
(* programmer wrote.  The assembler's main() reads it with fgets and       *)
(* parses it a line at a time before the passes of LC3Assembler run.       *)
(***************************************************************************)
EXTENDS LC3Parser, LC3Disassembler, LC3Assembler

CONSTANT Manuscripts   \* assembly files, with the lines they stand for

ASSUME ManuscriptsAssumption ==
  Manuscripts \subseteq [text : Seq(Tokens), meant : Seq(Lines)]

\* What the words of a listing are spelled with.
ListingSpellings ==
  OperationNames \cup DOMAIN BranchNames \cup {"x", "#", "L_", " ", ","}
    \cup {RegisterName(code) : code \in GeneralRegisters}

\* They are short, and parse_assembly_line finds the names of a listing.
ASSUME ListingAssumption ==
  /\ ListingSpellings \subseteq Spellings
  /\ \A text \in ListingSpellings : Len(Spelling(text)) <= 8
  /\ \A name \in OperationNames : UpperCase(name) = name
  /\ \A name \in DOMAIN BranchNames :
       /\ UpperCase(name) \in DOMAIN Branches
       /\ Branches[UpperCase(name)] = BranchNames[name]

VARIABLES
  opened,    \* main has opened the assembly file
  source,    \* what it has not read of it
  parsed,    \* the lines it has collected
  meant      \* the lines the programmer wrote

driverVars == <<opened, source, parsed, meant>>
toolchainVars == <<disassemblerVars, driverVars, vars>>

\* char line[256]
LINE_SIZE == 256

-----------------------------------------------------------------------------
(* Reading lines. *)

Width(token) == Len(Text(token))

\* What fgets returns of a line: as much as fits.  The rest, if there is
\* any, is the next line.
\* Bound: the cut falls between two lexemes.
ChunkLength(line) ==
  Max({n \in 0 .. Len(line) : Width(SubSeq(line, 1, n)) < LINE_SIZE})

OpenSource ==
  /\ phase = "start" /\ ~opened /\ listing # <<>>
  /\ opened' = TRUE /\ source' = listing
  /\ UNCHANGED <<disassemblerVars, parsed, meant, vars>>

Chunk(line) == SubSeq(line, 1, ChunkLength(line))
Rest(line) == SubSeq(line, ChunkLength(line) + 1, Len(line))

ReadLine ==
  /\ phase = "start" /\ opened /\ source # <<>>
  /\ LET line == Chunk(Head(source))
         rest == Rest(Head(source))
     IN  /\ parsed' = IF IsBlankLine(line) THEN parsed
                      ELSE Append(parsed, Parse(line))
         /\ source' = (IF rest = <<>> THEN <<>> ELSE <<rest>>) \o Tail(source)
  /\ UNCHANGED <<disassemblerVars, opened, meant, vars>>

\* The end of the file.
Assemble ==
  /\ opened /\ source = <<>>
  /\ LoadProgram(parsed)
  /\ UNCHANGED <<disassemblerVars, driverVars>>

\* Main ends before it has opened the file.
Refuse ==
  /\ ~opened /\ listing # <<>>
  /\ Usage \/ SourceMissing
  /\ UNCHANGED <<disassemblerVars, driverVars>>

-----------------------------------------------------------------------------

Disassemble == DisassemblerNext /\ UNCHANGED <<driverVars, vars>>

RunPasses == Passes /\ UNCHANGED <<disassemblerVars, driverVars>>

\* A file written by hand: nothing is disassembled.
Written(manuscript) ==
  /\ listing = manuscript.text /\ meant = manuscript.meant
  /\ stage = "done" /\ result = "none" /\ image = <<>>
  /\ base = 0 /\ words = <<>> /\ row = 1 /\ decoded = <<>>

ToolchainInit ==
  /\ Init
  /\ opened = FALSE /\ source = <<>> /\ parsed = <<>>
  /\ \/ DisassemblerInit /\ meant = <<>>
     \/ \E manuscript \in Manuscripts : Written(manuscript)

ToolchainSteps ==
  Disassemble \/ OpenSource \/ ReadLine \/ Assemble \/ Refuse \/ RunPasses

\* The disassembler has nothing to show, or the assembler has ended.
Finished == phase = "ended" \/ (stage = "done" /\ listing = <<>>)

ToolchainNext ==
  ToolchainSteps \/ (Finished /\ UNCHANGED toolchainVars)

ToolchainSpec == ToolchainInit /\ [][ToolchainNext]_toolchainVars

-----------------------------------------------------------------------------
(* Properties. *)

\* ParsedTypeOK: parse_assembly_line returns nothing but the lines the
\* assembler is modelled on (Lines), whatever the text is, and no more
\* operands than an AssemblyInstruction holds.
ParsedTypeOK ==
  /\ parsed \in Seq(Lines)
  /\ \A n \in DOMAIN parsed : Len(parsed[n].operands) <= MAX_OPERANDS
  /\ listing \in Seq(Tokens) /\ source \in Seq(Tokens)

Disassembled == result = "0"

\* RoundTrip: the listing of an object file is assembled without an error,
\* into the whole words of that file: decoding, labels, printing, parsing,
\* layout, symbols and encoding together.  In an object file of all of memory
\* an offset may lead round its end, which the assembler refuses.
RoundTrip ==
  Disassembled /\ ShorterThanOffsets =>
    /\ ok /\ status # "crash"
    /\ phase = "ended" /\ status = "0" =>
         object = SubSeq(image, 1, 2 * (Len(image) \div 2))

\* ReadAsWritten: the assembler works on the lines the programmer wrote,
\* whatever the case of names, the blanks, the comments, and the commas,
\* quotes and semicolons in strings and comments.
ReadAsWritten ==
  phase \notin {"start", "ended"} /\ ~Disassembled => program = meant

\* CommentsAreDropped: "everything from ';' to end of line" is no part of
\* the program, however long the line is.
CommentsAreDropped ==
  opened /\ ~Disassembled => \A n \in DOMAIN parsed : parsed[n] \in ToSet(meant)
=============================================================================
