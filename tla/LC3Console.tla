----------------------------- MODULE LC3Console -----------------------------
(***************************************************************************)
(* Standard input and output as the virtual machine sees them.             *)
(*                                                                         *)
(* Input reaches the program through two queues: the kernel's (a terminal  *)
(* in non-canonical mode, or a pipe) and the buffer of the C library's     *)
(* stdin.  getc takes from the buffer and, when that is empty, moves       *)
(* everything the kernel holds into it.  select, which check_key calls,    *)
(* only sees the kernel's queue.                                           *)
(*                                                                         *)
(* Output goes to stdout's buffer, which every trap flushes when it is     *)
(* done.                                                                   *)
(***************************************************************************)
EXTENDS LC3Core, Sequences

CONSTANTS
  Keys,      \* the bytes that may be typed
  MaxKeys    \* bound: how many are typed in a behaviour

ASSUME ConsoleAssumption == Keys \subseteq Byte /\ MaxKeys \in Nat

VARIABLES
  ttyQueue,      \* bytes the kernel holds for the program
  stdinBuffer,   \* bytes read into stdin's buffer and not yet taken by getc
  inputClosed,   \* the writing end of the input is gone
  typed,         \* auxiliary: every byte typed so far
  consumed,      \* auxiliary: every byte getc has returned
  output,        \* bytes and messages written to stdout
  flushed        \* how many of them the program has flushed

inputVars == <<ttyQueue, stdinBuffer, inputClosed, typed, consumed>>
outputVars == <<output, flushed>>
consoleVars == <<ttyQueue, stdinBuffer, inputClosed, typed, consumed, output,
                 flushed>>

EndOfInput == WORD_MAX - 1   \* (uint16_t)EOF

\* Whole messages written with printf are one element each.
Prompt == 256        \* "Enter character: "
HaltMessage == 257   \* "Halting\n"
Newline == 10
OutputItems == 0 .. 257

\* putc((char)x, output)
CharOf(x) == x % 256

-----------------------------------------------------------------------------
ConsoleInit(closed) ==
  /\ ttyQueue = <<>> /\ stdinBuffer = <<>> /\ inputClosed = closed
  /\ typed = <<>> /\ consumed = <<>>
  /\ output = <<>> /\ flushed = 0

(* The environment. *)

TypeKey(key) ==
  /\ Len(typed) < MaxKeys
  /\ ~inputClosed
  /\ ttyQueue' = Append(ttyQueue, key)
  /\ typed' = Append(typed, key)
  /\ UNCHANGED <<stdinBuffer, inputClosed, consumed, output, flushed>>

CloseInput ==
  /\ ~inputClosed
  /\ inputClosed' = TRUE
  /\ UNCHANGED <<ttyQueue, stdinBuffer, typed, consumed, output, flushed>>

-----------------------------------------------------------------------------
(* Input. *)

\* A plausible slip: taking select's "not ready" for end of input.
check_keyMutant == ttyQueue # <<>>

\* select reports a readable descriptor, at end of input too.
check_key == ttyQueue # <<>> \/ inputClosed

Pending == stdinBuffer \o ttyQueue

\* A plausible slip: EOF stored without the conversion to uint16_t.
NextCharacterMutant == IF Pending = <<>> THEN -1 ELSE Head(Pending)

\* What getc returns, as the uint16_t it is stored in.
NextCharacter == IF Pending = <<>> THEN EndOfInput ELSE Head(Pending)

\* getc(stdin), blocking while there is neither a byte nor an end of input.
Getc ==
  /\ \/ /\ stdinBuffer # <<>>
        /\ stdinBuffer' = Tail(stdinBuffer)
        /\ ttyQueue' = ttyQueue
        /\ consumed' = Append(consumed, Head(stdinBuffer))
     \/ /\ stdinBuffer = <<>> /\ ttyQueue # <<>>
        /\ stdinBuffer' = Tail(ttyQueue)
        /\ ttyQueue' = <<>>
        /\ consumed' = Append(consumed, Head(ttyQueue))
     \/ /\ stdinBuffer = <<>> /\ ttyQueue = <<>> /\ inputClosed
        /\ UNCHANGED <<stdinBuffer, ttyQueue, consumed>>
  /\ UNCHANGED <<inputClosed, typed>>

-----------------------------------------------------------------------------
(* Output. *)

\* putc or fprintf without a flush.
Put(items) == output' = output \o items /\ flushed' = flushed

\* The same followed by fflush(output).
PutAndFlush(items) == output' = output \o items /\ flushed' = Len(output')

Flush == PutAndFlush(<<>>)

-----------------------------------------------------------------------------
InputTypeOK ==
  /\ ttyQueue \in Seq(Byte) /\ stdinBuffer \in Seq(Byte)
  /\ inputClosed \in BOOLEAN
  /\ typed \in Seq(Byte) /\ consumed \in Seq(Byte)

OutputTypeOK ==
  /\ output \in Seq(OutputItems)
  /\ flushed \in 0 .. Len(output)

ConsoleTypeOK == InputTypeOK /\ OutputTypeOK

(* Every byte typed is still waiting or was returned by getc, once and in  *)
(* the order typed.                                                        *)
InputFIFO == typed = consumed \o stdinBuffer \o ttyQueue
=============================================================================
