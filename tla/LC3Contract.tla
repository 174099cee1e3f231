----------------------------- MODULE LC3Contract -----------------------------
(***************************************************************************)
(* What a running lc_3 promises the outside world, whatever the program in *)
(* its memory: a filter from keys to output.  Keys wait until they are     *)
(* taken, one at a time, in the order typed; output only grows, is         *)
(* delivered as far as the last flush, which delivers all there is; and    *)
(* the end is final.                                                       *)
(***************************************************************************)
EXTENDS Naturals, Sequences

CONSTANT Key   \* what may be typed

VARIABLES
  pending,     \* keys typed and not yet received
  received,    \* keys the program has received
  closed,      \* no key will follow
  printed,     \* everything printed
  delivered,   \* how much of it has reached the outside
  ended        \* the program has come to its end

contractVars == <<pending, received, closed, printed, delivered, ended>>

ContractInit ==
  /\ pending = <<>> /\ received = <<>> /\ closed \in BOOLEAN
  /\ printed = <<>> /\ delivered = 0
  /\ ended = FALSE

-----------------------------------------------------------------------------
(* The user. *)

Type ==
  /\ ~closed
  /\ \E key \in Key : pending' = Append(pending, key)
  /\ UNCHANGED <<received, closed, printed, delivered, ended>>

Close ==
  /\ ~closed /\ closed' = TRUE
  /\ UNCHANGED <<pending, received, printed, delivered, ended>>

-----------------------------------------------------------------------------
(* The program. *)

\* The next key changes hands, or none does.
Receive ==
  \/ UNCHANGED <<pending, received>>
  \/ /\ pending # <<>>
     /\ pending' = Tail(pending)
     /\ received' = Append(received, Head(pending))

\* What is printed stays printed; a flush delivers all of it.
Write ==
  /\ Len(printed) <= Len(printed')
  /\ SubSeq(printed', 1, Len(printed)) = printed
  /\ delivered' \in {delivered, Len(printed')}

Run ==
  /\ ~ended
  /\ Receive /\ Write
  /\ ended' \in BOOLEAN
  /\ UNCHANGED closed

ContractNext == Type \/ Close \/ Run

ContractSpec == ContractInit /\ [][ContractNext]_contractVars
=============================================================================
