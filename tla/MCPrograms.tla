----------------------------- MODULE MCPrograms -----------------------------
(***************************************************************************)
(* Every small program of the instances, one behaviour each.  Those that   *)
(* read the keyboard start with an open input and a user who may type;     *)
(* those that only compute start with the input closed.                    *)
(***************************************************************************)
EXTENDS MCEcho, MCTraps, MCOperations

AllPrograms == EchoPrograms \cup TrapPrograms \cup OperationPrograms
=============================================================================
