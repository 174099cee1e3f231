------------------------------ MODULE MCWords -------------------------------
(***************************************************************************)
(* Every word, at both ends of the address space and in its middle.        *)
(***************************************************************************)
EXTENDS LC3EveryWord, MCText
=============================================================================
