------------------------------ MODULE MCExit -------------------------------
(***************************************************************************)
(* Exit for TLC: its threads can be exchanged.                             *)
(***************************************************************************)
EXTENDS Exit, TLC

Symmetry == Permutations(Tid)
=============================================================================
