---------------------------- MODULE MCLifecycle -----------------------------
(***************************************************************************)
(* The process on small image files, whole and malformed.                  *)
(***************************************************************************)
EXTENDS LC3

\* The file of an image: origin and words, high byte first.
Bytes(words) ==
  [n \in 1 .. 2 * Len(words) |->
     LET word == words[(n + 1) \div 2]
     IN  IF n % 2 = 1 THEN word \div 256 ELSE word % 256]

File(bytes) == [kind |-> "file", bytes |-> bytes]
Image(words) == File(Bytes(words))

\* LEA R0 2  PUTS  HALT  "Hi"
Hello == Image(<<12288, 57346, 61474, 61477, 72, 105>>)

\* GETC  BRn 2  OUT  BR -4  HALT: echoes until the end of input
Echo == Image(<<12288, 61472, 2050, 61473, 4092, 61477>>)

\* IN  RTI
InThenAbort == Image(<<20480, 61475, 32768>>)

\* OUT  HALT at the top of memory, with two words too many
Truncated == Image(<<65534, 61473, 61477, 7, 8>>)

\* LEA R0 -1  PUTS at the top of memory: its text is the code
Overrun == Image(<<65534, 57855, 61474>>)

\* HALT and half a word
Odd == File(Append(Bytes(<<12288, 61477>>), 193))

TooLow == Image(<<12287, 61477>>)
Empty == File(<<>>)
HalfOrigin == File(<<48>>)

AnyImages ==
  {Hello, Echo, InThenAbort, Truncated, Overrun, Odd, TooLow, Empty, HalfOrigin,
   [kind |-> "usage", bytes |-> <<>>], [kind |-> "missing", bytes |-> <<>>]}

ShortImages == {Hello, HalfOrigin}
=============================================================================
