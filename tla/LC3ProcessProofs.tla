-------------------------- MODULE LC3ProcessProofs --------------------------
(***************************************************************************)
(* Theorems of LC3!Spec: the process from its start to its end, and every  *)
(* process after it on the same terminal, for all images, keys and bounds. *)
(***************************************************************************)
EXTENDS LC3, LC3MachineProofs

-----------------------------------------------------------------------------
(* The image. *)

(* A byte of the image is one, and two of them make a word.                *)
LEMMA HostWords ==
  ASSUME NEW bytes \in Seq(Byte), NEW n \in Int, 1 <= n, 2 * n <= Len(bytes)
  PROVE  /\ HostWord(bytes, n) \in Word
         /\ Swap16(HostWord(bytes, n))
              = 256 * bytes[2 * n - 1] + bytes[2 * n]
<1> DEFINE hi == bytes[2 * n - 1]
           lo == bytes[2 * n]
<1>1. 2 * n - 1 \in 1 .. Len(bytes) /\ 2 * n \in 1 .. Len(bytes)
  OBVIOUS
<1>2. hi \in 0 .. 255 /\ lo \in 0 .. 255
  <2>1. \A m \in 1 .. Len(bytes) : bytes[m] \in Byte
    OBVIOUS
  <2> QED
    BY <1>1, <2>1 DEF Byte
<1>3. HostWord(bytes, n) = hi + 256 * lo
  BY DEF HostWord
<1>4. ASSUME NEW a \in 0 .. 255, NEW b \in 0 .. 255
      PROVE  /\ a + 256 * b \in Int /\ 0 <= a + 256 * b /\ a + 256 * b <= 65535
             /\ (a + 256 * b) % 256 = a /\ (a + 256 * b) \div 256 = b
  OBVIOUS
<1> HIDE DEF hi, lo
<1>5. HostWord(bytes, n) \in Word
  BY <1>2, <1>3, <1>4, BoundedIsWord
<1>6. Swap16(HostWord(bytes, n)) = 256 * hi + lo
  <2>1. /\ (hi + 256 * lo) % 256 = hi /\ (hi + 256 * lo) \div 256 = lo
    BY <1>2, <1>4
  <2>2. hi * 256 = 256 * hi
    BY <1>2
  <2> QED
    BY <1>3, <2>1, <2>2 DEF Swap16
<1> QED
  BY <1>5, <1>6 DEF hi, lo

(* The origin is a word, even one that was never read.                     *)
LEMMA OriginType ==
  ASSUME NEW bytes \in Seq(Byte), NEW at \in Origins(bytes) PROVE at \in Word
<1>1. CASE Len(bytes) >= 2
  <2>1. at = Swap16(HostWord(bytes, 1))
    BY <1>1 DEF Origins
  <2>2. HostWord(bytes, 1) \in Word
    BY <1>1, HostWords
  <2> QED
    BY <2>1, <2>2, Swap16Parts
<1>2. CASE ~(Len(bytes) >= 2)
  BY <1>2, ProcessAssumption DEF Origins
<1> QED
  BY <1>1, <1>2

(* How many words are read: whole ones behind the origin, inside memory.   *)
LEMMA WordsReadBounds ==
  ASSUME NEW bytes \in Seq(Byte), NEW at \in Word
  PROVE  LET count == WordsRead(bytes, at) IN
           /\ count \in Int /\ 0 <= count
           /\ Len(bytes) >= 2 => 2 * count + 2 <= Len(bytes)
           /\ Len(bytes) < 2 => count = 0
           /\ at + count <= WORD_MAX
           /\ \A n \in Int :
                2 * n + 2 <= Len(bytes) /\ at + n - 1 < WORD_MAX => n <= count
<1>1. /\ at \in Int /\ 0 <= at /\ at <= 65535 /\ Len(bytes) \in Nat
      /\ WORD_MAX \in Int /\ at < WORD_MAX
  BY WordBounds, WordMax
<1> QED
  BY <1>1 DEF WordsRead

(* Every cell the loader writes is a word.                                 *)
LEMMA LoadedCellsType ==
  ASSUME NEW bytes \in Seq(Byte), NEW at \in Word,
         NEW cells \in LoadedCells(bytes, at)
  PROVE  IsMemory(cells)
<1> DEFINE count == WordsRead(bytes, at)
           words == [a \in at .. at + count - 1 |->
                       Swap16(HostWord(bytes, a - at + 2))]
<1>1. /\ count \in Int /\ 0 <= count /\ at + count <= WORD_MAX
      /\ Len(bytes) >= 2 => 2 * count + 2 <= Len(bytes)
      /\ Len(bytes) < 2 => count = 0
  BY WordsReadBounds
<1>2. at \in Int /\ 0 <= at /\ WORD_MAX \in Int /\ Len(bytes) \in Nat
  BY WordBounds, WordMax
<1>3. ASSUME NEW a \in at .. at + count - 1
      PROVE  a \in Word /\ Swap16(HostWord(bytes, a - at + 2)) \in Word
  <2>1. a \in Int /\ 0 <= a /\ a < WORD_MAX
    BY <1>1, <1>2
  <2>2. a - at + 2 \in Int /\ 1 <= a - at + 2 /\ 2 * (a - at + 2) <= Len(bytes)
    BY <1>1, <1>2
  <2>3. HostWord(bytes, a - at + 2) \in Word
    BY <2>2, HostWords
  <2> QED
    BY <1>2, <2>1, <2>3, Swap16Parts DEF Word
<1>4. IsMemory(words)
  BY <1>3 DEF IsMemory
<1>5. ASSUME Len(bytes) > 2, at + count < WORD_MAX
      PROVE  IsMemory(Store(words, at + count, bytes[Len(bytes)]))
  <2>1. at + count \in Word
    BY <1>1, <1>2, <1>5 DEF Word
  <2>2. bytes[Len(bytes)] \in Word
    BY <1>5, ConstantWords
  <2> QED
    BY <1>4, <2>1, <2>2, StoreType
<1>6. \/ cells = words
      \/ /\ Len(bytes) > 2 /\ at + count < WORD_MAX
         /\ cells = Store(words, at + count, bytes[Len(bytes)])
  BY DEF LoadedCells
<1> QED
  BY <1>4, <1>5, <1>6

-----------------------------------------------------------------------------
(* The types. *)

(* A process starts with everything at rest. *)
LEMMA FreshMachine ==
  ASSUME memory = <<>>, registers = [code \in RegisterCodes |-> 0],
         instruction = 0, control = "fetch", cursor = 0
  PROVE  MachineTypeOK
<1>1. IsMemory(memory)
  <2>1. DOMAIN memory = {}
    OBVIOUS
  <2>2. memory \in [DOMAIN memory -> Word]
    BY <2>1
  <2> QED
    BY <2>1, <2>2 DEF IsMemory
<1>2. 0 \in Word /\ 0 \in 0 .. WORD_MAX + MaxOverrun
  BY ConstantWords, WordMax, MachineAssumption
<1> QED
  BY <1>1, <1>2 DEF MachineTypeOK, Running

(* exit() and a fatal signal leave what was printed as it is.              *)
LEMMA EndKeepsOutput ==
  ASSUME OutputTypeOK, output' = output, flushed' \in {flushed, Len(output')}
  PROVE  OutputTypeOK'
<1>1. output \in Seq(OutputItems) /\ flushed \in 0 .. Len(output)
      /\ Len(output) \in 0 .. Len(output)
  BY DEF OutputTypeOK
<1> QED
  BY <1>1 DEF OutputTypeOK

LEMMA InitType == Init => TypeOK
<1> SUFFICES ASSUME Init PROVE TypeOK
  OBVIOUS
<1>1. MachineTypeOK
  BY FreshMachine DEF Init
<1>2. ConsoleTypeOK
  <2>1. <<>> \in Seq(Byte) /\ <<>> \in Seq(OutputItems) /\ Len(<<>>) = 0
        /\ 0 \in 0 .. 0
    OBVIOUS
  <2>2. InputTypeOK
    BY <2>1 DEF Init, ConsoleInit, InputTypeOK
  <2>3. output = <<>> /\ flushed = 0
    BY DEF Init, ConsoleInit
  <2>4. OutputTypeOK
    BY <2>1, <2>3 DEF OutputTypeOK
  <2> QED
    BY <2>2, <2>4 DEF ConsoleTypeOK
<1> QED
  BY <1>1, <1>2, ConstantWords
     DEF Init, TypeOK, Phases, Settings, Statuses

(* The steps of main before and after the loop. *)
LEMMA SetupType ==
  ASSUME TypeOK,
         \/ Usage \/ ImageMissing \/ InvalidOrigin \/ ReadImage
         \/ InstallHandler \/ SaveTerminal \/ RawTerminal \/ SetRegisters
         \/ LeaveLoop \/ Shutdown \/ Return \/ Crash \/ DefaultInterrupt
  PROVE  TypeOK'
<1>1. CASE \/ Usage \/ ImageMissing \/ InvalidOrigin \/ Return \/ Crash
           \/ DefaultInterrupt
  <2>1. UNCHANGED <<machineVars, inputVars, image, origin, original_tio, tty,
                    inherited>>
    BY <1>1 DEF Usage, ImageMissing, InvalidOrigin, Return, Crash,
       DefaultInterrupt
  <2>2. OutputTypeOK'
    <3>1. output' = output /\ flushed' \in {flushed, Len(output')}
      BY <1>1 DEF Usage, ImageMissing, InvalidOrigin, Return, Crash,
         DefaultInterrupt, Exit, Die, outputVars
    <3> QED
      BY <3>1, EndKeepsOutput DEF TypeOK, ConsoleTypeOK
  <2>3. MachineTypeOK' /\ InputTypeOK'
    BY <2>1 DEF TypeOK, MachineTypeOK, ConsoleTypeOK, InputTypeOK,
       machineVars, inputVars
  <2>4. phase' \in Phases /\ status' \in Statuses
    BY <1>1 DEF Usage, ImageMissing, InvalidOrigin, Return, Crash,
       DefaultInterrupt, Exit, Die, Phases, Statuses
  <2> QED
    BY <2>1, <2>2, <2>3, <2>4 DEF TypeOK, ConsoleTypeOK
<1>2. CASE ReadImage
  <2>1. PICK at \in Origins(image.bytes) :
          origin' = at /\ memory' \in LoadedCells(image.bytes, at)
    BY <1>2 DEF ReadImage
  <2>2. image.bytes \in Seq(Byte)
    BY ImagesAssumption DEF TypeOK
  <2>3. origin' \in Word /\ IsMemory(memory')
    BY <2>1, <2>2, OriginType, LoadedCellsType
  <2>4. MachineTypeOK'
    BY <1>2, <2>3 DEF ReadImage, TypeOK, MachineTypeOK
  <2>5. ConsoleTypeOK'
    BY <1>2 DEF ReadImage, TypeOK, ConsoleTypeOK, InputTypeOK, OutputTypeOK,
       consoleVars
  <2> QED
    BY <1>2, <2>3, <2>4, <2>5 DEF ReadImage, TypeOK, Phases
<1>3. CASE SetRegisters
  <2>1. registers' \in [RegisterCodes -> Word]
    BY <1>3, ResetRegistersType DEF SetRegisters, TypeOK
  <2>2. MachineTypeOK'
    BY <1>3, <2>1 DEF SetRegisters, TypeOK, MachineTypeOK
  <2>3. ConsoleTypeOK'
    BY <1>3 DEF SetRegisters, TypeOK, ConsoleTypeOK, InputTypeOK,
       OutputTypeOK, consoleVars
  <2> QED
    BY <1>3, <2>2, <2>3 DEF SetRegisters, TypeOK, Phases
<1>4. CASE InstallHandler \/ SaveTerminal \/ RawTerminal \/ LeaveLoop \/ Shutdown
  <2>1. UNCHANGED <<machineVars, consoleVars, image, origin, status, inherited>>
    BY <1>4 DEF InstallHandler, SaveTerminal, RawTerminal, LeaveLoop, Shutdown
  <2>2. /\ phase' \in Phases /\ original_tio' \in Settings
        /\ tty' \in Settings \cup {"none"}
    BY <1>4 DEF InstallHandler, SaveTerminal, RawTerminal, LeaveLoop, Shutdown,
       SetTty, StdinIsTerminal, TypeOK, Phases, Settings
  <2>3. MachineTypeOK' /\ ConsoleTypeOK'
    BY <2>1 DEF TypeOK, MachineTypeOK, ConsoleTypeOK, InputTypeOK,
       OutputTypeOK, machineVars, consoleVars
  <2> QED
    BY <2>1, <2>2, <2>3 DEF TypeOK
<1> QED
  BY <1>1, <1>2, <1>3, <1>4

(* The interrupt, the user, and the next process. *)
LEMMA OutsideType ==
  ASSUME TypeOK, HandleInterrupt \/ Environment \/ NextProcess
  PROVE  TypeOK'
<1>1. CASE HandleInterrupt
  <2>1. /\ output' = Append(output, Newline) /\ flushed' = Len(output')
        /\ output \in Seq(OutputItems) /\ Newline \in OutputItems
    BY <1>1, ItemTypes
       DEF HandleInterrupt, Exit, TypeOK, ConsoleTypeOK, OutputTypeOK
  <2>2. output' \in Seq(OutputItems) /\ flushed' \in 0 .. Len(output')
    BY <2>1
  <2>3. MachineTypeOK' /\ InputTypeOK'
    BY <1>1 DEF HandleInterrupt, TypeOK, MachineTypeOK, ConsoleTypeOK,
       InputTypeOK, machineVars, inputVars
  <2>4. phase' \in Phases /\ status' \in Statuses
        /\ tty' \in Settings \cup {"none"}
    BY <1>1 DEF HandleInterrupt, Exit, SetTty, StdinIsTerminal, TypeOK, Phases,
       Statuses, Settings
  <2> QED
    BY <1>1, <2>2, <2>3, <2>4
       DEF HandleInterrupt, TypeOK, ConsoleTypeOK, OutputTypeOK
<1>2. CASE Environment
  <2>1. UNCHANGED <<machineVars, processVars, outputVars>>
    BY <1>2 DEF Environment, TypeKey, CloseInput, outputVars
  <2>2. InputTypeOK'
    <3>1. CASE CloseInput
      BY <3>1 DEF CloseInput, TypeOK, ConsoleTypeOK, InputTypeOK
    <3>2. ASSUME NEW key \in Keys, TypeKey(key) PROVE InputTypeOK'
      <4>1. key \in Byte
        BY ConsoleAssumption
      <4> QED
        BY <3>2, <4>1 DEF TypeKey, TypeOK, ConsoleTypeOK, InputTypeOK
    <3> QED
      BY <1>2, <3>1, <3>2 DEF Environment
  <2>3. MachineTypeOK' /\ OutputTypeOK'
    BY <2>1 DEF TypeOK, MachineTypeOK, ConsoleTypeOK, OutputTypeOK,
       machineVars, outputVars
  <2> QED
    BY <2>1, <2>2, <2>3 DEF TypeOK, ConsoleTypeOK, processVars
<1>3. CASE NextProcess
  <2>1. MachineTypeOK'
    <3>1. /\ memory' = <<>> /\ registers' = [code \in RegisterCodes |-> 0]
          /\ instruction' = 0 /\ control' = "fetch" /\ cursor' = 0
      BY <1>3 DEF NextProcess
    <3>2. IsMemory(memory')
      <4>1. DOMAIN memory' = {}
        BY <3>1
      <4>2. memory' \in [DOMAIN memory' -> Word]
        BY <3>1, <4>1
      <4> QED
        BY <4>1, <4>2 DEF IsMemory
    <3>3. 0 \in Word /\ 0 \in 0 .. WORD_MAX + MaxOverrun
      BY ConstantWords, WordMax, MachineAssumption
    <3> QED
      BY <3>1, <3>2, <3>3 DEF MachineTypeOK, Running
  <2>2. <<>> \in Seq(Byte) /\ <<>> \in Seq(OutputItems) /\ Len(<<>>) = 0
        /\ 0 \in 0 .. 0
    OBVIOUS
  <2>3. InputTypeOK'
    BY <1>3, <2>2 DEF NextProcess, TypeOK, ConsoleTypeOK, InputTypeOK
  <2>4. output' = <<>> /\ flushed' = 0
    BY <1>3 DEF NextProcess
  <2>5. OutputTypeOK'
    BY <2>2, <2>4 DEF OutputTypeOK
  <2> QED
    BY <1>3, <2>1, <2>3, <2>5, ConstantWords
       DEF NextProcess, TypeOK, ConsoleTypeOK, Phases, Settings, Statuses
<1> QED
  BY <1>1, <1>2, <1>3

(* Memory, registers, queues, the terminal and the exit status stay well   *)
(* formed in every process.                                                *)
THEOREM ProcessTypeCorrect == Spec => []TypeOK
<1>1. ASSUME TypeOK, [Next]_vars PROVE TypeOK'
  <2>1. CASE Loop
    BY <1>1, <2>1, MachineStepType DEF Loop, TypeOK, processVars
  <2>2. CASE Ended \/ UNCHANGED vars
    BY <1>1, <2>2 DEF Ended, vars, machineVars, consoleVars, processVars,
       TypeOK, MachineTypeOK, ConsoleTypeOK, InputTypeOK, OutputTypeOK
  <2> QED
    BY <1>1, <2>1, <2>2, SetupType, OutsideType DEF Next, ProcessNext
<1> QED
  BY <1>1, InitType, PTL DEF Spec

-----------------------------------------------------------------------------
(* The terminal. *)

\* What disable_input_buffering makes of the settings it finds, and what it
\* saves of them: nothing when standard input is no terminal.
RawOf(settings) == IF settings = "found" THEN "raw" ELSE settings
SavedOf(settings) == IF settings = "none" THEN "blank" ELSE settings

\* The terminal at every statement of main.  TerminalAtEnd is not inductive:
\* what an interrupt restores depends on whether main has saved yet.
TerminalByPhase ==
  /\ tty = "none" <=> inherited = "none"
  /\ phase \in {"load", "signal", "save"} =>
       tty = inherited /\ original_tio = "blank"
  /\ phase = "raw" => tty = inherited /\ original_tio = SavedOf(inherited)
  /\ phase \in {"registers", "loop", "shutdown"} =>
       tty = RawOf(inherited) /\ original_tio = SavedOf(inherited)
  /\ phase = "return" => tty = inherited
                           /\ original_tio = SavedOf(inherited)
  /\ TerminalAtEnd

LEMMA TerminalStep ==
  ASSUME TypeOK, TerminalByPhase, [Next]_vars PROVE TerminalByPhase'
<1> USE DEF TerminalByPhase, TerminalAtEnd, RawOf, SavedOf
<1>1. /\ phase \in Phases /\ tty \in Settings \cup {"none"}
      /\ original_tio \in Settings /\ inherited \in Settings \cup {"none"}
  BY DEF TypeOK
<1>2. CASE Usage \/ ImageMissing \/ InvalidOrigin \/ DefaultInterrupt
  BY <1>2 DEF Usage, ImageMissing, InvalidOrigin, DefaultInterrupt, Exit, Die
<1>3. CASE ReadImage \/ InstallHandler
  BY <1>3 DEF ReadImage, InstallHandler
<1>4. CASE SaveTerminal
  BY <1>4 DEF SaveTerminal, StdinIsTerminal
<1>5. CASE RawTerminal
  BY <1>1, <1>5 DEF RawTerminal, SetTty, StdinIsTerminal, Settings
<1>6. CASE SetRegisters \/ LeaveLoop
  BY <1>6 DEF SetRegisters, LeaveLoop
<1>7. CASE Shutdown
  BY <1>1, <1>7 DEF Shutdown, SetTty, StdinIsTerminal, Settings
<1>8. CASE Return
  BY <1>8 DEF Return, Exit
<1>9. CASE Crash
  BY <1>1, <1>9 DEF Crash, Die, Settings
<1>10. CASE HandleInterrupt
  BY <1>1, <1>10 DEF HandleInterrupt, HandlerInstalled, SetTty, StdinIsTerminal,
     Exit, Settings
<1>11. CASE NextProcess
  BY <1>11 DEF NextProcess
<1>12. CASE Loop \/ Environment \/ Ended \/ UNCHANGED vars
  <2>1. UNCHANGED processVars
    BY <1>12 DEF Loop, Environment, Ended, vars
  <2> QED
    BY <2>1 DEF processVars
<1> QED
  BY <1>2, <1>3, <1>4, <1>5, <1>6, <1>7, <1>8, <1>9, <1>10, <1>11, <1>12
     DEF Next, ProcessNext

(* However a process ends, the terminal is as it found it, raw after an    *)
(* abort or a fault, or blank after an interrupt before tcgetattr.         *)
THEOREM TerminalHandedOn == Spec => []TerminalAtEnd
<1>1. Init => TerminalByPhase
  BY DEF Init, TerminalByPhase, TerminalAtEnd
<1>2. TypeOK /\ TerminalByPhase /\ [Next]_vars => TerminalByPhase'
  BY TerminalStep
<1>3. TerminalByPhase => TerminalAtEnd
  BY DEF TerminalByPhase
<1> QED
  BY <1>1, <1>2, <1>3, ProcessTypeCorrect, PTL DEF Spec

-----------------------------------------------------------------------------
(* The output. *)

\* Before the loop the machine is at rest, with nothing written; from then on
\* it is as flushed as its own steps leave it.
OutputByPhase ==
  /\ phase \in Phases \ {"loop", "shutdown", "return", "ended"} =>
       control = "fetch"
  /\ FlushedBetweenInstructions
  /\ OutputDelivered

LEMMA OutputStep ==
  ASSUME TypeOK, OutputByPhase, [Next]_vars PROVE OutputByPhase'
<1> USE DEF OutputByPhase, OutputDelivered, FlushedBetweenInstructions
<1>1. phase \in Phases
  BY DEF TypeOK
<1>2. CASE Usage \/ ImageMissing \/ InvalidOrigin \/ Return
  BY <1>2 DEF Usage, ImageMissing, InvalidOrigin, Return, Exit, machineVars
<1>3. CASE DefaultInterrupt \/ Crash
  BY <1>1, <1>3 DEF DefaultInterrupt, Crash, Die, machineVars, outputVars, Phases
<1>4. CASE HandleInterrupt
  BY <1>4 DEF HandleInterrupt, Exit, machineVars
<1>5. CASE ReadImage \/ InstallHandler \/ SaveTerminal \/ RawTerminal
  BY <1>5 DEF ReadImage, InstallHandler, SaveTerminal, RawTerminal, machineVars,
     consoleVars, Phases
<1>6. CASE SetRegisters \/ LeaveLoop \/ Shutdown
  BY <1>6 DEF SetRegisters, LeaveLoop, Shutdown, machineVars, consoleVars, Phases
<1>7. CASE Loop
  <2>1. FlushedBetweenInstructions'
    BY <1>7, MachineStepFlushed DEF Loop, TypeOK
  <2>2. phase' = "loop"
    BY <1>7 DEF Loop, processVars
  <2> QED
    BY <2>1, <2>2 DEF Phases
<1>8. CASE NextProcess
  <2>1. Len(<<>>) = 0
    OBVIOUS
  <2> QED
    BY <1>8, <2>1 DEF NextProcess
<1>9. CASE Environment \/ Ended \/ UNCHANGED vars
  <2>1. UNCHANGED <<machineVars, processVars, output, flushed>>
    BY <1>9 DEF Environment, TypeKey, CloseInput, Ended, vars, consoleVars
  <2> QED
    BY <2>1 DEF machineVars, processVars
<1> QED
  BY <1>2, <1>3, <1>4, <1>5, <1>6, <1>7, <1>8, <1>9 DEF Next, ProcessNext

(* A process that does not fault delivers all its output.                  *)
THEOREM OutputIsDelivered == Spec => []OutputDelivered
<1>1. Init => OutputByPhase
  <2>1. Len(<<>>) = 0
    OBVIOUS
  <2> QED
    BY <2>1 DEF Init, ConsoleInit, OutputByPhase, OutputDelivered,
       FlushedBetweenInstructions
<1>2. TypeOK /\ OutputByPhase /\ [Next]_vars => OutputByPhase'
  BY OutputStep
<1>3. OutputByPhase => OutputDelivered
  BY DEF OutputByPhase
<1> QED
  BY <1>1, <1>2, <1>3, ProcessTypeCorrect, PTL DEF Spec

-----------------------------------------------------------------------------
(* The loaded program. *)

(* What read_image_file leaves in memory is the file, word for word.       *)
LEMMA LoadedInPlace ==
  ASSUME NEW bytes \in Seq(Byte), NEW at \in Origins(bytes),
         NEW cells \in LoadedCells(bytes, at)
  PROVE  /\ Len(bytes) >= 2 => at = 256 * bytes[1] + bytes[2]
         /\ \A n \in 1 .. Len(bytes) :
              2 * n + 2 <= Len(bytes) /\ at + n - 1 < WORD_MAX =>
                Peek(cells, at + n - 1)
                  = 256 * bytes[2 * n + 1] + bytes[2 * n + 2]
         /\ \A a \in DOMAIN cells :
              a >= at /\ 2 * (a - at) + 2 < Len(bytes)
<1> DEFINE count == WordsRead(bytes, at)
           words == [a \in at .. at + count - 1 |->
                       Swap16(HostWord(bytes, a - at + 2))]
<1>1. at \in Word /\ at \in Int /\ 0 <= at /\ WORD_MAX \in Int
      /\ Len(bytes) \in Nat
  BY OriginType, WordBounds, WordMax
<1>2. /\ count \in Int /\ 0 <= count
      /\ Len(bytes) >= 2 => 2 * count + 2 <= Len(bytes)
      /\ Len(bytes) < 2 => count = 0
      /\ \A n \in Int :
           2 * n + 2 <= Len(bytes) /\ at + n - 1 < WORD_MAX => n <= count
  BY <1>1, WordsReadBounds
<1>3. \/ cells = words
      \/ /\ Len(bytes) > 2 /\ Len(bytes) % 2 = 1
         /\ cells = Store(words, at + count, bytes[Len(bytes)])
  BY DEF LoadedCells
<1> HIDE DEF count
<1>4. Len(bytes) >= 2 => at = 256 * bytes[1] + bytes[2]
  <2> SUFFICES ASSUME Len(bytes) >= 2 PROVE at = 256 * bytes[1] + bytes[2]
    OBVIOUS
  <2>1. at = Swap16(HostWord(bytes, 1))
    BY DEF Origins
  <2>2. 2 * 1 - 1 = 1 /\ 2 * 1 = 2
    OBVIOUS
  <2> QED
    BY <2>1, <2>2, HostWords
<1>5. ASSUME NEW n \in 1 .. Len(bytes),
             2 * n + 2 <= Len(bytes), at + n - 1 < WORD_MAX
      PROVE  Peek(cells, at + n - 1)
               = 256 * bytes[2 * n + 1] + bytes[2 * n + 2]
  <2>1. n \in Int /\ 1 <= n /\ n <= count
    BY <1>1, <1>2, <1>5
  <2>2. /\ n + 1 \in Int /\ 1 <= n + 1 /\ 2 * (n + 1) <= Len(bytes)
        /\ 2 * (n + 1) - 1 = 2 * n + 1 /\ 2 * (n + 1) = 2 * n + 2
    BY <1>1, <1>5, <2>1
  <2>3. /\ at + n - 1 \in at .. at + count - 1
        /\ (at + n - 1) - at + 2 = n + 1
        /\ at + n - 1 # at + count
    BY <1>1, <1>2, <2>1
  <2>4. Swap16(HostWord(bytes, n + 1)) = 256 * bytes[2 * n + 1] + bytes[2 * n + 2]
    BY <2>2, HostWords
  <2>5. words[at + n - 1] = Swap16(HostWord(bytes, n + 1))
    BY <2>3
  <2>6. at + n - 1 \in DOMAIN words
    BY <2>3
  <2> HIDE DEF words
  <2> QED
    BY <1>3, <2>3, <2>4, <2>5, <2>6 DEF Peek, Store
<1>6. ASSUME NEW a \in DOMAIN cells
      PROVE  a >= at /\ 2 * (a - at) + 2 < Len(bytes)
  <2>1. \/ a \in at .. at + count - 1
        \/ a = at + count /\ Len(bytes) > 2 /\ Len(bytes) % 2 = 1
    BY <1>3 DEF Store
  <2>2. CASE a \in at .. at + count - 1
    <3>1. a \in Int /\ at <= a /\ a < at + count
      BY <1>1, <1>2, <2>2
    <3> QED
      BY <1>1, <1>2, <3>1
  <2>3. CASE a = at + count /\ Len(bytes) > 2 /\ Len(bytes) % 2 = 1
    <3>1. a = at + count /\ 2 * count + 2 <= Len(bytes)
      BY <1>1, <1>2, <2>3
    <3>2. 2 * count + 2 # Len(bytes)
      BY <1>1, <1>2, <2>3
    <3> QED
      BY <1>1, <1>2, <3>1, <3>2
  <2> QED
    BY <2>1, <2>2, <2>3
<1> QED
  BY <1>4, <1>5, <1>6

LEMMA ReadImageInPlace == ASSUME TypeOK, ReadImage PROVE ImageInPlace'
<1>1. image' = image /\ image.bytes \in Seq(Byte)
  BY ImagesAssumption DEF ReadImage, TypeOK
<1>2. PICK at \in Origins(image.bytes) :
        origin' = at /\ memory' \in LoadedCells(image.bytes, at)
  BY DEF ReadImage
<1>3. PICK cells \in LoadedCells(image.bytes, at) : memory' = cells
  BY <1>2
<1>4. 2 * 0 + 1 = 1 /\ 2 * 0 + 2 = 2
  OBVIOUS
<1> QED
  BY <1>1, <1>2, <1>3, <1>4, LoadedInPlace DEF ImageInPlace

(* A program is started from the words of its file, each at its place.     *)
THEOREM ImageIsInPlace == Spec => []ImageInPlace
<1>1. Init => ImageInPlace
  BY DEF Init, ImageInPlace
<1>2. ASSUME TypeOK, ImageInPlace, [Next]_vars PROVE ImageInPlace'
  <2>1. CASE ReadImage
    BY <1>2, <2>1, ReadImageInPlace
  <2>2. CASE \/ Usage \/ ImageMissing \/ InvalidOrigin \/ InstallHandler
             \/ SaveTerminal \/ RawTerminal \/ SetRegisters \/ LeaveLoop
             \/ Shutdown \/ Return \/ Crash \/ DefaultInterrupt
             \/ HandleInterrupt \/ NextProcess
    BY <2>2 DEF Usage, ImageMissing, InvalidOrigin, InstallHandler,
       SaveTerminal, RawTerminal, SetRegisters, LeaveLoop, Shutdown, Return,
       Crash, DefaultInterrupt, HandleInterrupt, NextProcess, Exit, Die,
       ImageInPlace
  <2>3. CASE Loop
    BY <2>3 DEF Loop, processVars, MachineNext, ImageInPlace
  <2>4. CASE Environment \/ Ended \/ UNCHANGED vars
    <3>1. UNCHANGED <<memory, phase, image, origin>>
      BY <2>4 DEF Environment, Ended, vars, machineVars, processVars
    <3> QED
      BY <1>2, <3>1 DEF ImageInPlace
  <2> QED
    BY <1>2, <2>1, <2>2, <2>3, <2>4 DEF Next, ProcessNext
<1> QED
  BY <1>1, <1>2, ProcessTypeCorrect, PTL DEF Spec
=============================================================================
