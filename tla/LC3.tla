-------------------------------- MODULE LC3 ---------------------------------
(***************************************************************************)
(* The lc_3 process from its start to its end: the image loader of         *)
(* core/util.c, the terminal setup of virtual_machine/io.c, the fetch loop *)
(* (LC3Machine), the shutdown, and SIGINT at any moment; and then the next *)
(* process, which a script starts on the same terminal or pipe and which   *)
(* finds it as the last one left it.                                       *)
(***************************************************************************)
EXTENDS LC3Machine

CONSTANTS
  Images,        \* what the command line may name, see ImagesAssumption
  GarbageWords   \* values an uninitialised variable may hold

\* kind "usage": not exactly one argument; "missing": fopen fails.
ASSUME ImagesAssumption ==
  \A image \in Images : /\ image.kind \in {"usage", "missing", "file"}
                        /\ image.bytes \in Seq(Byte)

ASSUME ProcessAssumption == GarbageWords \subseteq Word

VARIABLES
  phase,         \* the next statement of main
  image,         \* the command line's image
  origin,        \* main's variable of that name
  original_tio,  \* the saved terminal settings; "blank" is all zeroes
  tty,           \* the terminal's settings; "none" is a pipe or a file
  status,        \* how the process ended
  inherited      \* auxiliary: the settings the process found

processVars == <<phase, image, origin, original_tio, tty, status, inherited>>
vars == <<machineVars, consoleVars, processVars>>

USER_SPACE_START == 12288

Phases == {"load", "signal", "save", "raw", "registers", "loop", "shutdown",
           "return", "ended"}
Settings == {"found", "raw", "blank"}
StdinIsTerminal == tty # "none"
Statuses == {"none", "0", "1", "2", "254", "SIGINT", "SIGABRT", "SIGSEGV"}

\* SIGINT calls handle_interrupt from here on.
HandlerInstalled ==
  phase \in {"save", "raw", "registers", "loop", "shutdown", "return"}

-----------------------------------------------------------------------------
(* The end of the process. *)

\* exit(), or a return from main: stdout is flushed.
Exit(code) == phase' = "ended" /\ status' = code /\ flushed' = Len(output')

\* A fatal signal: what stdout's buffer holds is lost.
Die(signal) ==
  phase' = "ended" /\ status' = signal /\ UNCHANGED outputVars

\* tcsetattr(STDIN_FILENO, ...), which fails unless stdin is a terminal.
SetTty(settings) == tty' = IF StdinIsTerminal THEN settings ELSE tty

-----------------------------------------------------------------------------
(* read_image and read_image_file. *)

\* fread puts a file's bytes into words of the little-endian host.
HostWord(bytes, n) == bytes[2 * n - 1] + 256 * bytes[2 * n]

\* The origin, or whatever the variable held when the file has no whole word.
Origins(bytes) ==
  IF Len(bytes) >= 2 THEN {Swap16(HostWord(bytes, 1))} ELSE GarbageWords

\* A plausible slip: the file alone says how much is read.
WordsReadMutant(bytes, at) ==
  IF Len(bytes) < 2 \/ at < USER_SPACE_START THEN 0
  ELSE (Len(bytes) - 2) \div 2

\* How many words the second fread reads: no more than memory holds.
WordsRead(bytes, at) ==
  LET max_read == WORD_MAX - at
      words == (Len(bytes) - 2) \div 2
  IN  IF Len(bytes) < 2 THEN 0 ELSE IF words < max_read THEN words ELSE max_read

\* A plausible slip: the words keep the file's byte order.
LoadedCellsMutant(bytes, at) ==
  {[a \in at .. at + WordsRead(bytes, at) - 1 |->
      HostWord(bytes, a - at + 2)]}

\* The words at their places.  Of a last odd byte fread promises nothing: the
\* cell stays 0 or holds the byte, unswapped.
LoadedCells(bytes, at) ==
  LET count == WordsRead(bytes, at)
      words == [a \in at .. at + count - 1 |->
                  Swap16(HostWord(bytes, a - at + 2))]
      odd == Len(bytes) > 2 /\ Len(bytes) % 2 = 1 /\ at + count < WORD_MAX
  IN  {words} \cup (IF odd THEN {Store(words, at + count, bytes[Len(bytes)])}
                    ELSE {})

Usage ==
  /\ phase = "load" /\ image.kind = "usage"
  /\ output' = output /\ Exit("2")
  /\ UNCHANGED <<machineVars, inputVars, image, origin, original_tio, tty,
                 inherited>>

ImageMissing ==
  /\ phase = "load" /\ image.kind = "missing"
  /\ output' = output /\ Exit("1")
  /\ UNCHANGED <<machineVars, inputVars, image, origin, original_tio, tty,
                 inherited>>

InvalidOrigin ==
  /\ phase = "load" /\ image.kind = "file"
  /\ \E at \in Origins(image.bytes) : at < USER_SPACE_START
  /\ output' = output /\ Exit("1")
  /\ UNCHANGED <<machineVars, inputVars, image, origin, original_tio, tty,
                 inherited>>

ReadImage ==
  /\ phase = "load" /\ image.kind = "file"
  /\ \E at \in Origins(image.bytes) :
       /\ at >= USER_SPACE_START
       /\ origin' = at
       /\ memory' \in LoadedCells(image.bytes, at)
  /\ phase' = "signal"
  /\ UNCHANGED <<registers, instruction, control, cursor, consoleVars, image,
                 original_tio, tty, status, inherited>>

-----------------------------------------------------------------------------
(* Setup, loop and shutdown. *)

InstallHandler ==
  /\ phase = "signal" /\ phase' = "save"
  /\ UNCHANGED <<machineVars, consoleVars, image, origin, original_tio, tty,
                 status, inherited>>

\* disable_input_buffering: tcgetattr, which reads what an earlier process
\* may have left, then tcsetattr, which only clears flags.
SaveTerminal ==
  /\ phase = "save" /\ phase' = "raw"
  /\ original_tio' = IF StdinIsTerminal THEN tty ELSE original_tio
  /\ UNCHANGED <<machineVars, consoleVars, image, origin, tty, status,
                 inherited>>

RawTerminal ==
  /\ phase = "raw" /\ phase' = "registers"
  /\ SetTty(IF original_tio = "blank" THEN "blank" ELSE "raw")
  /\ UNCHANGED <<machineVars, consoleVars, image, origin, original_tio, status,
                 inherited>>

SetRegisters ==
  /\ phase = "registers" /\ phase' = "loop"
  /\ registers' = ResetRegisters(origin)
  /\ UNCHANGED <<memory, instruction, control, cursor, consoleVars, image,
                 origin, original_tio, tty, status, inherited>>

Loop == phase = "loop" /\ MachineNext /\ UNCHANGED processVars

LeaveLoop ==
  /\ phase = "loop" /\ control = "halted" /\ phase' = "shutdown"
  /\ UNCHANGED <<machineVars, consoleVars, image, origin, original_tio, tty,
                 status, inherited>>

\* A plausible slip: the terminal is not restored.
ShutdownMutant ==
  /\ phase = "shutdown" /\ phase' = "return"
  /\ UNCHANGED <<machineVars, consoleVars, image, origin, original_tio, tty,
                 status, inherited>>

Shutdown ==
  /\ phase = "shutdown" /\ phase' = "return"
  /\ SetTty(original_tio)
  /\ UNCHANGED <<machineVars, consoleVars, image, origin, original_tio, status,
                 inherited>>

Return ==
  /\ phase = "return"
  /\ output' = output /\ Exit("0")
  /\ UNCHANGED <<machineVars, inputVars, image, origin, original_tio, tty,
                 inherited>>

\* abort(), and the end a wild read may bring.
Crash ==
  /\ phase = "loop"
  /\ \/ control = "aborted" /\ Die("SIGABRT")
     \/ control = "faulted" /\ Die("SIGSEGV")
  /\ UNCHANGED <<machineVars, inputVars, image, origin, original_tio, tty,
                 inherited>>

ProcessNext ==
  \/ Usage \/ ImageMissing \/ InvalidOrigin \/ ReadImage
  \/ InstallHandler \/ SaveTerminal \/ RawTerminal \/ SetRegisters
  \/ Loop \/ LeaveLoop \/ Shutdown \/ Return \/ Crash

-----------------------------------------------------------------------------
(* SIGINT. *)

DefaultInterrupt ==
  /\ phase \in {"load", "signal"}
  /\ Die("SIGINT")
  /\ UNCHANGED <<machineVars, inputVars, image, origin, original_tio, tty,
                 inherited>>

\* handle_interrupt restores whatever original_tio holds by now.
HandleInterrupt ==
  /\ HandlerInstalled
  /\ SetTty(original_tio)
  /\ output' = Append(output, Newline) /\ Exit("254")
  /\ UNCHANGED <<machineVars, inputVars, image, origin, original_tio,
                 inherited>>

-----------------------------------------------------------------------------
Init ==
  /\ image \in Images
  /\ memory = <<>>
  /\ registers = [code \in RegisterCodes |-> 0]
  /\ instruction = 0 /\ control = "fetch" /\ cursor = 0
  /\ ConsoleInit(FALSE)
  /\ phase = "load" /\ origin = 0 /\ status = "none"
  /\ original_tio = "blank" /\ tty \in {"found", "none"} /\ inherited = tty

\* The next process, on the terminal or pipe of the last one: what that had
\* read ahead is gone with it, what it had not read is still there.
NextProcess ==
  /\ phase = "ended"
  /\ image' \in Images
  /\ memory' = <<>>
  /\ registers' = [code \in RegisterCodes |-> 0]
  /\ instruction' = 0 /\ control' = "fetch" /\ cursor' = 0
  /\ stdinBuffer' = <<>> /\ typed' = ttyQueue /\ consumed' = <<>>
  /\ output' = <<>> /\ flushed' = 0
  /\ phase' = "load" /\ origin' = 0 /\ status' = "none"
  /\ original_tio' = "blank" /\ inherited' = tty
  /\ UNCHANGED <<ttyQueue, inputClosed, tty>>

\* A pipe can be closed; a terminal in non-canonical mode has no end of input.
Environment ==
  /\ \/ \E key \in Keys : TypeKey(key)
     \/ ~StdinIsTerminal /\ CloseInput
  /\ UNCHANGED <<machineVars, processVars>>

Ended == phase = "ended" /\ UNCHANGED vars

Next ==
  \/ ProcessNext \/ DefaultInterrupt \/ HandleInterrupt
  \/ NextProcess \/ Environment \/ Ended

\* The operating system schedules the process; nobody has to type, to
\* interrupt or to start the next one.
Spec == Init /\ [][Next]_vars /\ WF_vars(ProcessNext)

-----------------------------------------------------------------------------
TypeOK ==
  /\ MachineTypeOK /\ ConsoleTypeOK
  /\ phase \in Phases /\ image \in Images /\ origin \in Word
  /\ original_tio \in Settings /\ tty \in Settings \cup {"none"}
  /\ status \in Statuses /\ inherited \in Settings \cup {"none"}

(* The loaded program is the file: every whole word after the origin lies  *)
(* at its place with its first byte high, as far as memory reaches, and    *)
(* no cell below the origin or behind the last byte is touched.            *)
ImageInPlace ==
  phase = "signal" =>
    LET bytes == image.bytes
        word(n) == 256 * bytes[2 * n + 1] + bytes[2 * n + 2]
        inside(n) == origin + n - 1 < WORD_MAX
    IN  /\ Len(bytes) >= 2 => origin = word(0)
        /\ \A n \in 1 .. Len(bytes) :
             2 * n + 2 <= Len(bytes) /\ inside(n) =>
               Peek(memory, origin + n - 1) = word(n)
        /\ \A a \in DOMAIN memory :
             a >= origin /\ 2 * (a - origin) + 2 < Len(bytes)

(* "sanity check the origin against malformed obj files" (core/util.c): a  *)
(* program is only started from a file that has an origin.                 *)
OriginComesFromFile == phase \notin {"load", "ended"} => Len(image.bytes) >= 2

(* However the process ends, the terminal is as it was found, but for two  *)
(* cases: an abort or a fault leaves a terminal it found in order raw, and *)
(* an interrupt between signal and tcgetattr writes the settings that were *)
(* never saved.  Either is what the next process finds and hands on.       *)
TerminalAtEnd ==
  phase = "ended" =>
    \/ tty = inherited
    \/ tty = "raw" /\ inherited = "found" /\ status \in {"SIGABRT", "SIGSEGV"}
    \/ tty = "blank" /\ status = "254" /\ original_tio = "blank"

(* A process that ends by itself or by an interrupt it handles delivers    *)
(* all its output; one that aborts loses none either, because every trap   *)
(* flushed; only a string printed when memory ran out is lost.             *)
OutputDelivered ==
  phase = "ended" /\ status # "SIGSEGV" => flushed = Len(output)

(* A HALT ends the process and hands the terminal on as it was found, even *)
(* if a SIGINT arrives meanwhile.                                          *)
HaltEnds == control = "halted" ~> phase = "ended" /\ tty = inherited
=============================================================================
