------------------------------ MODULE DtorList ------------------------------
(***************************************************************************)
(* What dtor_queue.h promises of a destructor queue: it is a list, where   *)
(* elements are appended at the end, the newest element that matches a DSO *)
(* is popped, and all elements that match a DSO are removed.  Elements     *)
(* have numbers that grow, so the list is the set of them in the order of  *)
(* their numbers.                                                          *)
(***************************************************************************)
EXTENDS Naturals

CONSTANTS
    Element,    \* records with the fields `id` and `dso`
    Dso,        \* handles of modules
    NoDso       \* the null handle, which every element matches

VARIABLE list   \* the elements

Matching(d) == {e \in list : d = NoDso \/ e.dso = d}

Init == list = {}

Push(e) ==
    /\ \A x \in list : x.id < e.id
    /\ list' = list \cup {e}

PopNewest(d) ==
    \E e \in Matching(d) :
        /\ \A x \in Matching(d) : x.id <= e.id
        /\ list' = list \ {e}

RemoveAll(d) == list' = list \ Matching(d)

Next ==
    \/ \E e \in Element : Push(e)
    \/ \E d \in Dso \cup {NoDso} : PopNewest(d) \/ RemoveAll(d)

Spec == Init /\ [][Next]_list
=============================================================================
