# A TLA+ model of lc_3

This directory holds TLA+ modules that model the LC-3 virtual machine of this
repository, TLC configurations that check them on small instances, and proofs
that the TLA+ proof system (tlapm) checks for every value of the constants. Paths below are relative
to the repository's root.

## The system

The repository builds three programs. `lc_3` loads an object file and runs it,
talking to a terminal or a pipe. `assembler` turns source text into an object
file, `disassembler` turns an object file back into source text. They share the
tables in `src/core/` and meet only through object files.

| Component | State | Operations | Interacts with |
|---|---|---|---|
| Word arithmetic (`core/util.c`, `core/registers.c`) | none | `swap16`, `sign_extend`, the flag of a value | used by operations, loader, disassembler |
| Keyboard and console (`virtual_machine/io.c`, stdio) | kernel queue, stdin's buffer, stdout's buffer, terminal settings | `check_key`, `getc`, `putc`, `fflush`, `tcsetattr` | memory reads and traps call it; the user types at any moment |
| Memory (`core/memory.c`) | 65536 words, KBSR and KBDR among them | `read_memory` (polls the keyboard at KBSR), `write_memory` | fetch, loads and stores |
| Registers (`core/registers.c`) | R0 to R7, program counter, processor status | condition flags; lookup by code and name | every operation; the lookups serve assembler and disassembler |
| Operations (`virtual_machine/operation.c`) | none of their own | thirteen operations; RTI and RES abort | registers, memory |
| Traps (`virtual_machine/trap.c`) | a C pointer into memory while a string is printed | GETC, OUT, PUTS, IN, PUTSP; HALT in `lc_3.c` | registers, memory, console |
| Fetch loop and process (`lc_3.c`, `core/util.c`) | `running`, `origin`, the saved terminal settings | load, setup, loop, shutdown, `handle_interrupt` | all of the above; SIGINT at any moment |
| Core tables (`core/operation.c`, `core/trap.c`, `core/assembly_directives.c`) | constant | lookup by code or name | assembler, disassembler |
| Assembly parser (`assembler/assembler.c`, `split` and `trim` in `core/util.c`) | one parsed line | `parse_assembly_line`, `build_operand`, `find_comment` | core tables |
| Assembler (`assembler/*.c`, `assembler.c`) | symbol table, location counter, machine codes | two passes, encoders, directives, object file | parser, core tables |
| Disassembler (`disassembler/*.c`, `disassembler.c`) | an array of decoded words | decoders, labelling, rendering | `sign_extend`, core tables; the assembler reads what it writes |

What is hard here, and where a test does not reach:

- **Two queues behind one keyboard.** `check_key` asks the kernel with `select`,
  `getc` reads through the C library's buffer. What one sees the other may not.
- **A user who types at any moment**, closes the input, or sends SIGINT between
  any two statements.
- **Side effects of reads.** Reading KBSR takes a key; LDI, STI and even a fetch
  may read KBSR.
- **Edges of 16 bits.** Sign extension, addresses and the program counter wrap;
  the C pointer of a string trap does not.
- **Ends of the process.** HALT, abort, a fault, SIGINT before and after the
  handler is installed: the terminal and the output in stdout's buffer fare
  differently in each, and the next process on that terminal starts from what
  is left.
- **Two passes** of the assembler that must agree on every size, and a
  disassembler that claims to be the assembler's inverse.
- **Text.** What is a comment depends on the quotes in front of it, what is a
  label on a table of names in any case, and where a line ends on a buffer.

`PROJECT.json` lists each of these hazards at the line where it bites, with the
properties that cover it.

What makes each component correct:

- words: fields are extended as two's complement, and every word survives the
  way through the disassembler's text;
- console: each key is delivered once, in order, and none is forgotten;
- memory: only stores and polls write, at the address meant; KBDR is latched;
- registers: exactly one condition flag, belonging to the last result;
- traps: a string prints exactly its words; output is flushed before the loop
  goes on; a fault only for a string without an end;
- process: the image is in memory where the file says; the terminal is restored
  and the output delivered at every end that allows it;
- the machine as a whole: a filter from keys to output that behaves as if it
  had one queue and no buffer the user could notice;
- parser: the line the programmer wrote, in whatever style;
- assembler: pass 1 addresses are the addresses of the emitted words; what is
  encoded is what the machine decodes; errors leave the old object file alone,
  and what an interrupted run leaves of a new one can be trusted;
- disassembler: reassembling its output yields the words it read.

## Modules

Two chains of EXTENDS, one for the virtual machine and one for the assembly
language, over the same words and the same tables:

    LC3Words - LC3Core -+- LC3Console - LC3Machine -+- LC3Program  (LC3Contract)
                        |                           `- LC3
                        `- LC3Encoding -+- LC3Assembler ---------------.
                                        `- LC3Text -+- LC3Parser --+---+- LC3Toolchain
                                                    `- LC3Decoding +   |
                                                         |         `- LC3EveryWord
                                                         `- LC3Disassembler

The virtual machine:

- **LC3Words**: 16-bit words as naturals: instruction fields, `sign_extend`,
  `swap16`, `&`, `|`, `~`, the condition flag of a value. Everything is written
  with `\div` and `%`, so no recursive operator stands in the way of proofs.
  `Signed`, `Bit` and `IsAnd` are the definitions that `sign_extend` and the
  results of programs are compared with.
- **LC3Core**: the codes of registers, operations and traps that all three
  programs share (`src/core/`).
- **LC3Console**: the two input queues, end of input, and stdout's buffer.
  `Getc` is `getc(stdin)`: it takes from stdin's buffer and, when that is
  empty, moves all the kernel holds into it; it is not enabled while there is
  nothing to return. `check_key` looks at the kernel's queue alone. `typed` and
  `consumed` are history variables, `output` is everything written and
  `flushed` how much of it the program has flushed. (The C library may flush
  more by itself, at a newline on a terminal or when the buffer is full; the
  model counts only what the program asks for, which is the least that is
  delivered.)
- **LC3Machine**: memory, registers and the steps of the machine, one action for
  the fetch, one per operation, and one per part of a trap. Memory is a function
  on the cells that are not known to be zero. A step is what happens between two
  looks at the outside world: PUTS and PUTSP make one step per word
  (`PrintWord`), IN has one step before and one after its `getc`. `control` says
  where in the loop the process is and `cursor` is the pointer of a running
  string trap. Behind the last cell the pointer reads what the build has put
  there: any of `ForeignWords`, or a fault.
- **LC3Program**: the machine on a program already in memory, next to the user
  (`Environment`). The properties of steps are here.
- **LC3Contract**: what the machine promises its user, in six variables: keys
  wait in *one* queue until they are taken in order, what is printed stays
  printed, a flush delivers all of it, and the end is final. It knows no
  instruction. `LC3Program!Contract` instantiates it and maps `pending` to both
  queues in a row, `received` to `consumed`, `closed` to `inputClosed`,
  `printed` to `output`, `delivered` to `flushed` and `ended` to a stopped
  `control`; `FulfilsContract` says that the machine implements it.
- **LC3**: the process: command line, loader, signal handler, terminal settings,
  loop, shutdown and every way to end. `phase` is the next statement of `main`.
  `tty` is `"none"` when standard input is a pipe; a terminal is `found`, `raw`
  or `blank`, the last being the zeroes of a `struct termios` that was never
  filled. `DefaultInterrupt` and `HandleInterrupt` are SIGINT before and after
  the handler is installed. `NextProcess` starts another process where one has
  ended, on the terminal as it was left and with the keys nobody has read;
  `inherited` keeps the settings it found.

The assembly language:

- **LC3Encoding**: what one line of assembly becomes. A line is what
  `parse_assembly_line` returns: a label, an operation, BR's condition letters
  and operands. An operand keeps the tagged union of `assembler.h`, so what an
  encoder reads through the wrong member is modelled too. An encoder's result
  is a word or the way it fails: `Error` clears `*ok`, `Crash` is a failed
  assertion or a null pointer, `Undefined` reads a pointer nobody set and may
  come to either. `Size` and `MachineCodes` are the two sides of a directive,
  one for each pass.
- **LC3Assembler**: `main`, `assemble()` and `write_object_file()`, one step per
  line of each loop. `Place` and `PlaceOrigin` are pass 1 (`lc`, `address`,
  `table`), `EmitLine`, `RejectLine` and `CrashOnLine` pass 2 (`codes`, `ok`),
  `OpenObject`, `WriteLine` and `CloseObject` the object file. `object` is what
  is on disk, `written` what the stream was given. With `MaySpoil` the disk may
  fill up at any byte and SIGINT may come at any step.
- **LC3Text**: text as lexemes. A lexeme is a spelling with, for numerals, a
  sign and digits: `#-16` is `#`, a minus, 1 and 6; a token is a sequence of
  lexemes without delimiters. The module has the number formats of the
  disassembler (`%04X`, `#%d`) and `build_operand` of the assembler with its
  choice of the base, so that printing and reading meet on the same digits.
  `UpperCase` is `toupper`, `PointerBits` what the integer member of the union
  reads of a pointer.
- **LC3Parser**: `find_comment` (quotes in front of a semicolon), `trim`,
  `strtok_r`, `split`, the operation names in any case and with the condition
  letters in any order, the operands, and `parse_assembly_line` over them
  (`Parse`).
- **LC3Decoding**: the decoders of `disassembler/operation.c`, one operator each,
  `make_data` for a word its own mnemonic would not give back, and the text of
  a line (`Body`, `ListingLine`).
- **LC3Disassembler**: its `main` and `disassemble()`, one step per word:
  `DecodeWord` is the first loop, `SkipLine`, `LabelTarget` and `DemoteLine` the
  second, which puts labels on lines in front of and behind the one it is at.
- **LC3Toolchain** composes them through the files they share: the disassembler
  runs on an object file, the assembler's driver reads its listing with `fgets`
  (`ReadLine`, one buffer at a time) and parses it, and the passes of
  `LC3Assembler` run on the result. Or the file is one written by hand, with the
  lines its author means. Labels are tokens there (`Labels <- Tokens`).
- **LC3EveryWord** has no behaviour of the programs in it: `TrialSpec` counts
  through every word at some addresses, and its properties compare `sign_extend`
  with two's complement, and the decoders with the encoders, the line of text in
  between included.

Instances: **MCWords**, **MCPrograms** (made of **MCEcho**, **MCTraps** and
**MCOperations**: programs in machine code with their text in a comment, the
latter with the operands, immediates, bases and offsets as CONSTANTS),
**MCLifecycle** (images), **MCAssembler** (sources), **MCText** (letters and
character codes) and **MCToolchain** (object and assembly files), with the
properties that are about those inputs. Proofs: **LC3WordsProofs,
LC3MachineProofs, LC3ProgramProofs, LC3ProcessProofs, LC3EncodingProofs,
LC3AssemblerProofs, LC3DisassemblerProofs, LC3ToolchainProofs**.

Operators whose name ends in `Mutant`, and a few others under a comment
beginning "A plausible slip", are wrong on purpose: each is what a slip
in the code would look like, and swapping it in must break the property that
`PROJECT.json` pairs it with.

## Runs

| Run | Shows | Bounds |
|---|---|---|
| `words` | `sign_extend` against two's complement; every word, decoded, printed, parsed and encoded, is itself again | every 16-bit word, at three addresses |
| `programs` | echo loops deliver the keys in order, lose and repeat none, and halt when the input is closed; string traps, IN, illegal instructions, LDI and STI through KBSR; every operation against signed arithmetic, branches, calls and returns, wrap of the program counter; the machine implements `LC3Contract` | several hundred programs, three keys of two kinds, one of them 255, the byte next to EOF in a signed char; two words behind memory; operands at the edges of 16 bits and of each field |
| `keyboard_status` | KBSR says not ready while a key waits in stdin's buffer: finding 1 | the echo programs |
| `lifecycle` | the loader on whole, odd, short, too long and misplaced images; output and terminal settings at every end of the process, and of the processes after it; HALT ends it | images of at most six words, two kinds of keys, a terminal or a pipe, SIGINT anywhere, any image after any other |
| `short_image` | a file without an origin can be started: finding 2 | a whole image and a one-byte file |
| `assembler` | every line of a program is in the object file, at its label's address, as the words the machine reads as that line; a line without an encoding leaves the old object file alone; what SIGINT or a full disk leaves of a new one is right as far as it goes; nothing that has an encoding is refused | below |
| `assembler_ends` | the assembler ends, on good and bad lines and without .ORIG | one line in front of .END and one behind |
| `negative_blkw` | a negative .BLKW makes the passes disagree: finding 3 | .BLKW 1 and .BLKW -1 |
| `register_names` | PROGRAM_COUNTER as an operand: finding 4 | LD R7 and LD PROGRAM_COUNTER |
| `full_disk` | exit code 0 with half an object file: finding 5 | one HALT |
| `toolchain` | an object file, disassembled and assembled again, comes back byte for byte, with a label for every target inside; a file written by hand is read as the lines its author means | below |
| `long_line` | the rest of a long comment is assembled: finding 6 | comments of 255 and 259 characters |

Three keys are enough for the two queues to differ in every way: one key
consumed, one in stdin's buffer, one in the kernel's queue. Images of a few words reach
every branch of the loader, since its decisions are on the origin, on the
parity and on the room left above the origin. `lifecycle`
images stay within code they contain, so no run follows a program counter
through empty memory. The round trip of `words` takes every word at address 0,
in the middle and at the top, so that targets lie across the wrap both ways.

The sources of `assembler` are of three kinds: any one line (each operation and
directive with operands that fit, just do not fit, are of the wrong kind or
missing) between lines that define or use its label in front, behind and twice;
labels 255, 256, 1023 and 1024 words away, on both sides of the reach of a 9-bit
and an 11-bit offset; and four lines with .ORIG and .END anywhere and words
across the top of memory. Lines influence each other through the location
counter, the symbol table and `ok` only, so a line, one in front and one
behind show every way they can. Sources hold integers that fit an `int`,
`calloc` does not fail, and no label is called as the module's `NULL`.

The object files of `toolchain` are three words at one of five origins (0,
x3000, and such that the program ends in front of the top of memory, at it and
behind it): every pair of some thirty words, with each operation, targets on
each line of the program and outside it, and fields that make a word data, and
a branch behind them. The labelling pass handles one line and its target at a
time, so two lines that may refer to each other, to themselves, to the same
target or to the one behind show how they can interfere; any number of lines
is left to the proofs. Files that are empty, odd, cut short or a bare origin
come too. The assembly files are one line of each kind (every shape of operand,
a fourth operand, an empty one, strings with semicolons and commas, names that
nothing knows) in each of 32 styles: upper or lower case, blanks, and comments
with quotes, commas and semicolons.

`MaxKeys` (keys typed) and `MaxOverrun` (words read behind memory) are the
bounds of the virtual machine. A string that is still running after
`MaxOverrun` words can only fault. The assembler and the disassembler have no
bound but their inputs. The text has three: numerals have at most five digits,
a branch names each condition at most once (`BRNN` is not modelled), and the
buffer of `fgets` ends between two lexemes.

### Fairness

`WF(MachineNext)`, `WF(ProcessNext)` for the whole process and
`WF(AssemblerNext)`: a process that can take a step is eventually scheduled.
Nothing is assumed of the user: keys may never come, the input may never be
closed, SIGINT may never arrive, no other process need be started. `Getc`
is disabled while it would block, so a waiting process is not promised a key.
`EveryKeyEchoed` therefore says only that keys typed are echoed,
`EndOfInputHalts` only that a closed input is noticed. A full disk and SIGINT
are never promised either. `LC3Toolchain` and `LC3Contract` state safety and
assume no fairness.

## Findings

1. **KBSR misses keys in stdin's buffer** (`core/memory.c:12`). `read_memory`
   polls with `select` but reads with `getc`. When two keys are typed between
   two polls, the first `getc` fetches both; the second key then lies in
   stdin's buffer where `select` does not see it, and KBSR reads 0 until yet
   another key arrives. No key is lost or reordered (`echo`), but it is
   late by as long as the user pauses. `EveryKeyEchoed` holds for GETC and not
   for a polling program.
2. **An image with no origin may be run** (`core/util.c:31`). The result of
   `fread` is ignored; of a file shorter than two bytes the origin is an
   uninitialised variable, which passes the check against `USER_SPACE_START`
   if it happens to be high enough.
3. **A negative .BLKW** (`assembler/directive.c:24`). It has a negative size and
   emits nothing: pass 1 moves the location counter back, pass 2 does not. All
   labels behind it are wrong, and the assembler reports success.
4. **PROGRAM_COUNTER and PROCESSOR_STATUS as operands**
   (`assembler/operation.c:14`). The register table serves the parser too, so
   both names are registers with the codes 8 and 9, which spill from their 3-bit
   field into the opcode: `LD PROGRAM_COUNTER, A` assembles to `ST R0, A`.
5. **A full disk goes unnoticed** (`assembler/assembler.c:405`). Neither `fputc`
   nor `fclose` is asked whether it succeeded.
6. **The rest of a long comment is assembled** (`src/assembler.c:27`). `fgets`
   returns at most 255 characters; `main` takes what is left for a line of its
   own. Of a longer comment that is an instruction or a label nobody wrote
   (`CommentsAreDropped`).

Other behaviours are in the model as they are and are stated inside the
properties:

- an abort leaves the terminal raw, and SIGINT between `signal` and `tcgetattr`
  writes terminal settings that were never read (`TerminalAtEnd`);
- a label on .ORIG is not recorded, a second .ORIG moves the addresses but not
  the words (`WellFormed`), and an offset to a label is not reduced modulo
  2^16, so a label across the top of memory is out of reach (`Hopeless`);
- operands of the wrong kind are read through the wrong member of the union:
  `.FILL R1` assembles to the low bits of a pointer, an integer in the place of
  a label is compared and printed as a string, others end the assembler
  on an assertion or a null pointer (`WellTyped`);
- IN writes R0, and a link R7, without the condition flags
  (`FlagsFollowResult`);
- the object file is emptied before the new one is complete, so SIGINT in
  between loses the old one and leaves the beginning of the new one
  (`RemnantAsWritten` says what that beginning is worth);
- bits that no mnemonic would give back (an ADD with bits 3 or 4 set, a branch
  without a condition, an unused field) and targets outside of the program make
  a line data, which assembles to the same word (`Data`);
- the end of a program that reaches the top of memory is computed in 16 bits, as
  0, so all its targets are taken to be outside and no label is printed
  (`EndsInMemory`);
- the encoder refuses a target across the wrap (`Wraps`); the disassembler
  prints one only in a program of nearly the whole memory
  (`ShorterThanOffsets`);
- an image of an origin alone ends the disassembler without a message
  (`ObjectEmpty`).

## Proofs

Every safety property and every action property that a passing run checks is a
theorem, for every value of the constants, with one exception
(`ReadAsWritten`, below). The modules prove them in the order of the EXTENDS
chains, each on the lemmas of those before it.

Assumptions on the constants, which TLC evaluates in the runs:

- keys are bytes (`ConsoleAssumption`), foreign and garbage words are words
  (`MachineAssumption`, `ProcessAssumption`), a program is an origin and a
  memory of words (`ProgramsAssumption`), an image is a sequence of bytes
  (`ImagesAssumption`, of the loader with its kind);
- operands are words, immediates and offsets fit their fields, and a base with
  an offset does not lead into the program itself (`OperationsAssumption`);
  the addresses words are tried at are words (`AddressesAssumption`);
- a label is not the absence of one (`LabelsAssumption`), sources are sequences
  of lines (`SourcesAssumption`, `SpoilAssumption`), the label the disassembler
  makes of an address is not a null pointer (`MintAssumption`);
- spellings are strings and names of registers upper case (`TextAssumption`), a
  spelling is made of bytes (`SpellingAssumption`), the literals for no name and
  an unknown name are strings (`NamesAssumption`); what a listing is spelled with
  is among the spellings, has at most eight bytes, and is upper case or, for a
  branch, has the letters of its condition in upper case (`ListingAssumption`);
  a manuscript is text next to lines (`ManuscriptsAssumption`).

Some theorems have a hypothesis on the instance, named where they are described:
the echo and the results of programs are about those programs, the round trip
asks for a disk that does not fill up, the type of a parsed line for labels
that may be any text.

### The machine and the process

`LC3WordsProofs` has the arithmetic: ranges of every operator, `sign_extend`
as two's complement for each field width, an offset added modulo 2^16 as signed
arithmetic (`OffsetIsSigned`), `swap16` as an involution, the flag as the sign, and the
lemma `AndIsBitByBit` that `ResultsAreSigned` rests on: the model's `&`, put
together from halves, has the sixteen bits it should. It also has `Induction`,
over a set of numbers: the library's induction theorem takes an operator as a parameter, which no installed
prover can instantiate, but a set that holds 0 and with each number the next one
holds all of them, by its least missing element. With it the recursive function
under `FlattenSeq` can be reasoned about.

`LC3MachineProofs` shows, action by action, what one step of the machine
preserves; `LC3ProgramProofs` adds the initial state and the user's steps. The
invariant is

    IInv == TypeOK /\ OneConditionFlag /\ FlushedBetweenInstructions
              /\ StringWalk /\ InputFIFO /\ CursorAboveStart /\ StringPrinted

- `TypeOK`, `OneConditionFlag` and `FlushedBetweenInstructions` are each kept
  by every step once `TypeOK` gives the ranges.
- `FaultOnlyUnterminated` is not inductive: a state before the fault must
  already know that the words passed were not zero. `StringWalk` says so of
  every word between R0 and the cursor. R0 cannot change underneath, because
  the trap links R7 before it starts and the steps of a string write no
  register. With `Behind` (a fault happens past the last cell) the property
  follows.
- `KeysReachTheMachine` needs to know where the keys are: `InputFIFO` says the
  bytes typed are those consumed, then stdin's buffer, then the kernel's queue.
  A step takes a byte only through a poll, which leaves it in KBDR, or through
  a trap's `getc`, which leaves it in R0. The case to look at is STI through
  KBSR: its store goes to the word the poll put in KBSR, x8000, and so cannot
  overwrite KBDR.
- `FlagsFollowResult` is a step property of the same kind, register by register.
- `StringPrinted` is inductive next to `CursorAboveStart`: each step of a string
  appends what one word prints, which is what `FlattenSeq` gains when its
  argument grows by one (the lemma that needs the induction). Memory does not
  change while a string runs.
- `StoresHitTheirTarget` says that memory changes where a store's operands point,
  in signed arithmetic (`OffsetIsSigned`), or in the registers a poll sets.
  The attempt to prove it corrected the property: it read STI's pointer from
  memory *after* the step, which is not where the store went when the pointer
  points to its own cell. The program `PointsToItself` of the run `programs` now
  has that case.
- `KeyDataLatched` follows action by action: KBDR changes only with a poll that
  finds a key, which then is the last one consumed or the end of input, or
  with a store that names it.

`ProgramsFulfilTheContract` is the refinement: initial states map to initial
states of `LC3Contract`, every step of the machine to `Run` and every step of
the user to `Type`, `Close` or a stutter. A `getc` that moves the kernel's queue
into stdin's buffer leaves the two in a row as they were but for the first key,
which makes it a `Receive`; a step appends to the output and flushes all of it
or nothing.

The echo programs: `EchoesInOrder` (what is echoed is the front of what was
typed) and `EchoesEverything` (a halted echo has echoed all of it) hold for any
number of keys, in instances with no other programs (`OnlyEchoPrograms`: each
program in memory starts with the words of one of the two; what lies behind it
is arbitrary). `IInv` knows that no key is lost on its way to the machine, but
not what the program does with it, so `EchoInv` follows the key through the
five or seven instructions: at each of them the echo has `Caught` up with the
keys taken, or a key is `Carried` in R0 or in KBDR with the flag that the next
branch tests, or the input is `Drained`. The user may type or close the input
between any two of them, and neither disturbs it: a closed input stays closed,
and nothing is typed into it.

The other programs: `ResultsAreSigned` (ADD, AND and NOT of any operands with
any immediate), `BranchesFollowSign` (each mask, any operand),
`StoresAreLoadedBack` (a store through any base and offset, across either end
of memory too) and `CallsComeBack` (calls by offset and by register, JSRR
through R7, return). Each has an invariant that says what registers and memory
hold at the nth instruction (`ArithmeticInv`, `BranchInv`, `StoringInv`,
`CallsInv`, `LinkInv`) and, as hypothesis, that the instance has no other
programs (`OnlyArithmeticPrograms` and so on, of any `Operands`, `Immediates`,
`Bases` and `Offsets`). `StoringInv` has the case that a model of plain memory
would miss: the address may be KBSR, where the load polls the keyboard and reads
what the poll says instead of what was stored.

`LC3ProcessProofs` proves all four safety properties of the process, over any
number of processes on one terminal: `ProcessTypeCorrect`, `ImageIsInPlace` (the
loader, for an image of any length at any origin), `TerminalHandedOn` and
`OutputIsDelivered`. `TerminalAtEnd` is not inductive, since what an interrupt
restores depends on whether `main` has saved the settings yet;
`TerminalByPhase` says what `tty` and `original_tio` are at each statement.
`OutputByPhase` carries the machine's `FlushedBetweenInstructions` into the
process, where it matters at an abort, which flushes nothing.

### The assembler

`LC3EncodingProofs` is about single lines: `ImmediateReadsBack` and
`OffsetReadsBack` (an immediate, or an offset to a label, that the assembler
accepts is what the machine's sign extension gives back), `EncodeType` and
`MachineCodesType` (a line comes out as 16-bit words or failures, whatever its
operands) and `SizesAgree` (a line that succeeds emits as many words as pass 1
counted, unless that is a negative number). Its lemmas say when each encoder
succeeds, that the bitwise or of fields that do not overlap is their sum, and
hence what the machine reads in each field.

`LC3AssemblerProofs` proves all six safety properties of the run `assembler`.
They form a chain. `TypeOK` is the first. `WordsLieAtTheirAddress`
relates the stream's length to addresses that were handed out two loops
earlier, and needs an invariant for each loop:

    LayoutInvariant == TypeOK /\ AtStart /\ InPass1 /\ InPass2 /\ AtOpen /\ InWrite

`InPass1` says that each address is the one before it plus the size of the line
before it, as far as the pass has come; `InPass2` keeps that for all lines and
adds that lines already encoded have as many words as their size, by
`SizesAgree`, if nothing has failed; `InWrite` that the words written so far,
modulo 2^16, end where the next line begins. Lines behind .END have no codes, so
the end of the layout is where the counter was left.

`TableInvariant` says what the symbol table means. During pass 1 each label is
`Bound`: a search finds the address of the *first* line so far that carries it,
and finds nothing if there is none. At the end of the pass this is `Resolved`:
lookups agree with `Target` and `Defined`, which the properties state on the
program's lines.

`OutcomeInvariant` says what each line's success meant. For a line whose
operands have the kinds its operation takes, `LineOutcome` shows that it is
encoded exactly when it is not `Hopeless`, whatever the table, provided it
is resolved. So `ok` at the end of pass 2 means that no line was hopeless, and
the object file is opened only then (`ErrorsKeepTheObject`); and `ok` is
cleared, or the process dies, only when some line is not good
(`GoodProgramsAssemble`).

`ImageInvariant` follows the words from the encoders into the file: lines
encoded so far are `Coded` (`codes` holds what `MachineCodes` made of them with
the resolved table), lines written so far are `Stored` (the stream holds those
words, high byte first, at twice the distance from the origin that
`LayoutInvariant` gives). A later line only appends, so what is stored stays.

`LinesAssembledAsWritten` puts them together: the word that `Loaded` finds at a
line's address is the line's machine code (`LoadedWord`), and one lemma per
operation shows that the machine's own field operators read in it what the line
says. Its hypothesis `WordsWritten <= WORD_MAX` came out of the proof: a source
of more words than the address space has two words for one address, and the
first attempt at `LoadedWord` failed there. The assembler does not refuse
such a source.

`RemnantInvariant` adds what SIGINT and a full disk can leave: an object file
that is not the old one is the beginning of the stream, and the stream has every
line written so far. It is needed because the file is looked at when the process
has ended, while the words are known to be `Stored` when they are written. With
it `RemnantsCanBeTrusted` follows by the same lemmas as the whole file does
(`LineLoaded`), for each line that is `Whole`.

These invariants were model-checked on the sources of the run `assembler`
before they were proved.

### The disassembler

The first part of `LC3DisassemblerProofs` proves `WordsReassemble`: for every
word at every address, encoding the decoded line gives the word again. Its
hypotheses are on the target only (`TargetKnown`): the symbol table has its
label at that address, and the target is where the offset leads without going
round memory. There is one case per decoder,
each along the same path: the operands that are printed are read back as the
registers and numbers they were (`BuildOperand` of the digits of `Decimal`,
`Hex2` and `Hex4`); the offset the encoder computes from the label is the field
the target was computed from; and the fields of a word do not overlap, so the
encoder's bitwise or is their sum, which is the word. The words for which the
sum would lack a bit are those that the decoder turns into data.

The rest of the module carries that to whole object files. Its invariant,

    DisassemblerInv == FilesOK /\ StagesOK

says for the first loop that the lines so far are freshly decoded (`Decoding`).
In the second a label lands on any line, in front of or behind the loop's place,
and a line may turn into data after it got its label, so what is known of a line
depends on its side of the loop. `Progress` says that lines ahead differ from
freshly decoded ones in labels only; that lines passed are `Settled`: without a
target, or with the label that stands on the line of their target, or data
because the target is outside; and that a line has no label but that of its own
address. Three theorems follow: `DisassemblerTypeCorrect`, `TargetsAreLabelled`,
and `ListingsReassemble`: each line of a finished listing is encoded as the word
it was made from, given a symbol table with the listing's labels at their lines.
The last asks for a program of at most 64512 words (`ShorterThanOffsets`): in a
longer one an offset may lead out at one end and in at the other, and the
assembler refuses such a label, since a target across the end of memory is
further away than any offset reaches (`FarIsError`).

### The toolchain

`LC3ToolchainProofs` joins the two. The disassembler's theorem is about operands
and takes the symbol table as given; here both come from the text.

A line first. `ListingsAreReadBack` follows a printed line through `fgets` and
`parse_assembly_line`: `Parse(ListingLine(line))` is `Reread(line)`, for every
line of every finished listing. The text is taken apart into what it was put
together from: no lexeme of it is a quote or a semicolon, so `find_comment` finds
nothing; its blanks and commas stand where the printing put them, so `split`
finds the label, the name and the operands; the name is one of the table's and
the label is not; each operand is read as what it was printed from. A listing's
line is shorter than the buffer (`ListingAssumption`), so `fgets` returns it
whole.

Then the file. The invariant is

    ToolchainInv == /\ ListingSide /\ DriverSide /\ Idle
                    /\ result = "0" /\ ShorterThanOffsets => ListingAssembled

- `ListingSide`: the disassembler's invariant, and its listing, once written, is
  the text of the array, whose words are those of the object file.
- `DriverSide`: while the driver reads, the first k lines are parsed and are
  what the array says, the others still to be read; of these two numbers only
  the sum is known.
- `ListingAssembled`: no error so far and, by phase, `InFirst` (the lines placed
  so far lie where their words did, and their labels are in the table),
  `InSecond` (the codes so far are the words), `InOpen`, `InFile` (the bytes
  written are the image so far) and `InEnd`.

Between the passes stands the argument that the table is the one
`ListingsReassemble` asks for: each row of it is the label made of an address
next to that address (`RowsMinted`), and labels made of different addresses
differ (`MintDiffers`), so whichever row a search finds, it has the address.
`ToolchainRoundTrip` follows: the listing is assembled without an error or a
crash, and at exit code 0 the new object file is the old one, but for an odd
byte at its end. Its hypothesis is `~MaySpoil`: on a full disk the exit code is 0 all the same (finding 5).

`ParsedTypeCorrect` is about any text, written by hand or by the disassembler:
what the parser makes of it is a line the assembler is modelled on, with at
most three operands. Its hypothesis is that any text may be a label, as it may
in the code. The proof is one lemma per function of the parser, with the least
and greatest of a set of places for `strchr`, `strrchr` and the like.

The properties of single words need no hypothesis: `EveryFieldIsExtended`,
which is `SignExtendValue`, and `EveryWordComesBack`, which is `WordsReassemble`
with the text in between and the label at the target, and
says also that the assembler refuses exactly the targets that `Wraps` names.
They hold at any address; the run has three.

### What the proofs leave to TLC

- Liveness (`EveryKeyEchoed`, `EndOfInputHalts`, `ProgramsHalt`, `HaltEnds`,
  `Terminates`), which the proof system does not reach.
- `ReadAsWritten`: what the author of a handwritten file means is not a function
  of the text but given next to it by the instance, in thirty-two styles. A
  theorem would need the styles as a definition in the model, and the repository
  has no other than the parser itself. The part of it that does have another, a
  listing, is proved (`ListingsAreReadBack`).

## Not modelled

- **Tests, build files and sample programs**: read for what they promise.
- **The assembler's listing on stdout and the derived names of output files**:
  wording, which no property is about.
- **The C library's internal state.** `handle_interrupt` calls `printf` and
  `exit` from a signal handler; the model makes that one step. `getc` and
  `putc` are atomic.
- **Errors of `select`, `tcgetattr`, `tcsetattr` and `calloc`** other than
  standard input not being a terminal.
- **SIGINT and a full disk in the disassembler**: its listing is written in one
  step, since nothing reads it before its end.
- **Numerals of more than five digits, a branch that names a condition twice,
  and a line cut in the middle of a word**, as said under the bounds.
- **Object code as data beyond the images given**: programs are small and
  chosen for the cases they reach.

## Status

Every part of the three programs that keeps state or computes has its module;
what is left out is listed above. Every invariant and every action property that
a passing run checks is proved for all values of the constants, except
`ReadAsWritten`; the refinement of `LC3Contract` by the machine is proved as
well. Liveness is model-checked.
