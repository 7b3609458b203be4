------------------------------- MODULE MCApi --------------------------------
(***************************************************************************)
(* Api with a few threads, which are alike.                                *)
(***************************************************************************)
EXTENDS Api

Alike == Permutations(Thread)
=============================================================================
