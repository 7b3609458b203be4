----------------------------- MODULE MCThreads ------------------------------
(***************************************************************************)
(* Threads with a few threads and blocks.                                  *)
(***************************************************************************)
EXTENDS Threads, TLC

\* The blocks of the heap are alike, and so are the threads but for Main.
Alike == Permutations(Block) \cup Permutations(Thread \ {Main})

=============================================================================
