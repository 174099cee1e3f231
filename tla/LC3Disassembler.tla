-------------------------- MODULE LC3Disassembler ---------------------------
(***************************************************************************)
(* The disassembler from its command line to its exit code: reading an     *)
(* object file in src/disassembler.c, then disassemble() and               *)
(* disassembly_render() of disassembler/disassembler.c.  One step handles  *)
(* one word of the object file.                                            *)
(***************************************************************************)
EXTENDS LC3Decoding

CONSTANT Images   \* the object files it may be given, as bytes

ASSUME ImagesAssumption == Images \subseteq Seq(Byte)

VARIABLES
  stage,      \* where main is
  image,      \* the object file
  base,       \* its origin
  words,      \* the words behind the origin
  row,        \* the word the current loop is at
  decoded,    \* the array of instructions
  listing,    \* the lines of the output
  result      \* the exit code

disassemblerVars ==
  <<stage, image, base, words, row, decoded, listing, result>>

Stages == {"start", "decode", "label", "open", "done"}

Finish(code) == stage' = "done" /\ result' = code

-----------------------------------------------------------------------------
(* Command line and object file. *)

\* Byte 2n - 1 of the file is the high byte of its n-th whole word.
WordsOf(bytes) ==
  [n \in 1 .. Len(bytes) \div 2 |-> bytes[2 * n - 1] * 256 + bytes[2 * n]]

DisassemblerUsage ==
  /\ stage = "start"
  /\ Finish("2")
  /\ UNCHANGED <<image, base, words, row, decoded, listing>>

ObjectMissing ==
  /\ stage = "start"
  /\ Finish("1")
  /\ UNCHANGED <<image, base, words, row, decoded, listing>>

ObjectTooShort ==
  /\ stage = "start" /\ WordsOf(image) = <<>>
  /\ Finish("1")
  /\ UNCHANGED <<image, base, words, row, decoded, listing>>

\* Without a word nothing is allocated: NULL, as for a file that cannot be
\* read, and main ends with 1 and no message.
ObjectEmpty ==
  /\ stage = "start" /\ Len(WordsOf(image)) = 1
  /\ base' = WordsOf(image)[1]
  /\ Finish("1")
  /\ UNCHANGED <<image, words, row, decoded, listing>>

ReadObject ==
  /\ stage = "start" /\ Len(WordsOf(image)) > 1
  /\ stage' = "decode" /\ row' = 1
  /\ base' = WordsOf(image)[1]
  /\ words' = Tail(WordsOf(image))
  /\ UNCHANGED <<image, decoded, listing, result>>

-----------------------------------------------------------------------------
(* Pass 1 and pass 2 of disassemble. *)

\* A plausible slip: the origin word counts as the first address.
DecodeWordMutant ==
  /\ stage = "decode" /\ row <= Len(words)
  /\ decoded' = Append(decoded, Decode(Undecoded(words[row], Wrap(base + row))))
  /\ row' = row + 1
  /\ UNCHANGED <<stage, image, base, words, listing, result>>

DecodeWord ==
  /\ stage = "decode" /\ row <= Len(words)
  /\ decoded' = Append(decoded, Decode(Undecoded(words[row],
                                                 Wrap(base + row - 1))))
  /\ row' = row + 1
  /\ UNCHANGED <<stage, image, base, words, listing, result>>

EndDecode ==
  /\ stage = "decode" /\ row > Len(words)
  /\ stage' = "label" /\ row' = 1
  /\ UNCHANGED <<image, base, words, decoded, listing, result>>

SkipLine ==
  /\ stage = "label" /\ row <= Len(words)
  /\ ~decoded[row].has_target
  /\ row' = row + 1
  /\ UNCHANGED <<stage, image, base, words, decoded, listing, result>>

\* A plausible slip: the first word is taken for outside.
InsideMutant(target) == target > base /\ target < Wrap(base + Len(words))

\* The end of the program is computed in 16 bits.
Inside(target) == target >= base /\ target < Wrap(base + Len(words))

\* The label goes on the line it points at, once, and from there to the
\* line that refers to it, which may be the same one.
LabelTarget ==
  /\ stage = "label" /\ row <= Len(words)
  /\ decoded[row].has_target /\ Inside(decoded[row].target)
  /\ LET destination == decoded[row].target - base + 1
         labelled == [decoded EXCEPT ![destination].label =
                        IF @ = NoLabel THEN Mint(decoded[row].target) ELSE @]
     IN  decoded' = [labelled EXCEPT ![row].reference_label =
                       labelled[destination].label]
  /\ row' = row + 1
  /\ UNCHANGED <<stage, image, base, words, listing, result>>

DemoteLine ==
  /\ stage = "label" /\ row <= Len(words)
  /\ decoded[row].has_target /\ ~Inside(decoded[row].target)
  /\ decoded' = [decoded EXCEPT ![row] = Data(@)]
  /\ row' = row + 1
  /\ UNCHANGED <<stage, image, base, words, listing, result>>

EndLabel ==
  /\ stage = "label" /\ row > Len(words)
  /\ stage' = "open"
  /\ UNCHANGED <<image, base, words, row, decoded, listing, result>>

-----------------------------------------------------------------------------
(* The listing. *)

OpenListingFails ==
  /\ stage = "open"
  /\ Finish("1")
  /\ UNCHANGED <<image, base, words, row, decoded, listing>>

\* disassembly_render, whole: nothing else sees the listing before its end.
Render ==
  /\ stage = "open"
  /\ listing' =
       <<<<Name(".ORIG"), Blank, Hexadecimal("x", Hex4(base))>>>>
         \o [n \in DOMAIN decoded |-> ListingLine(decoded[n])]
         \o <<<<Name(".END")>>>>
  /\ Finish("0")
  /\ UNCHANGED <<image, base, words, row, decoded>>

DisassemblerInit ==
  /\ stage = "start" /\ image \in Images
  /\ base = 0 /\ words = <<>> /\ row = 1
  /\ decoded = <<>> /\ listing = <<>> /\ result = "none"

DisassemblerNext ==
  \/ DisassemblerUsage \/ ObjectMissing \/ ObjectTooShort \/ ObjectEmpty
  \/ ReadObject \/ DecodeWord \/ EndDecode
  \/ SkipLine \/ LabelTarget \/ DemoteLine \/ EndLabel
  \/ OpenListingFails \/ Render

DisassemblerSpec ==
  DisassemblerInit /\ [][DisassemblerNext]_disassemblerVars

-----------------------------------------------------------------------------
(* Properties. *)

\* The program ends below the top of memory.
EndsInMemory == base + Len(words) < WORD_MAX

\* The program is so short that no offset inside it leads round memory.
ShorterThanOffsets == Len(words) + 1024 <= WORD_MAX

\* The word of line n, if it names an address of the program, is shown as its
\* operation with the label that stands on the line of that address.
LabelledAt(n) ==
  LET fresh == Decode(Undecoded(words[n], Wrap(base + n - 1)))
      target == Wrap(fresh.target - base) + 1
  IN  fresh.has_target /\ target \in DOMAIN words =>
        /\ decoded[n].operation = fresh.operation
        /\ decoded[n].reference_label # NoLabel
        /\ decoded[target].label = decoded[n].reference_label

\* DisassemblerTypeOK: every variable has its type; in particular a decoded
\* line is at its own address and holds the word of the object file.
DisassemblerTypeOK ==
  /\ stage \in Stages /\ result \in {"none", "0", "1", "2"}
  /\ base \in Word /\ words \in Seq(Word)
  /\ row \in 1 .. Len(words) + 1
  /\ Len(decoded) <= Len(words)
  /\ \A n \in DOMAIN decoded :
       decoded[n].word = words[n] /\ decoded[n].address = Wrap(base + n - 1)

\* TargetsLabelled: in a finished listing every word that names an address
\* inside the program is shown as its operation, with a label that stands on
\* the line of that address, for programs that end below the top of memory.
TargetsLabelled ==
  result = "0" /\ EndsInMemory => \A n \in DOMAIN words : LabelledAt(n)
=============================================================================
