------------------------------- MODULE MCTls --------------------------------
(***************************************************************************)
(* Tls for TLC.  One thread uses three keys, which collide and wrap around *)
(* the end of a table; or two threads share one, with more references.     *)
(***************************************************************************)
EXTENDS Tls

CONSTANTS t1, t2

MCPrograms ==
    {[t \in {t1, t2} |-> IF t = t1 THEN {3, 6, 9} ELSE {}],
     [t \in {t1, t2} |-> {12}]}

MCMaxOwn == [a \in Addr |-> IF a = 12 THEN 2 ELSE 1]
=============================================================================
