---------------------------- MODULE CountingSem -----------------------------
(***************************************************************************)
(* What a counting semaphore with timeouts promises: sem.h.                *)
(***************************************************************************)
EXTENDS Integers, FiniteSets

CONSTANTS Thread, ValueInit, ValueMax

VARIABLES
    call,       \* the kind of wait each thread is in
    tokens      \* what has been posted and not been taken

vars == <<call, tokens>>

CallKind == {"try", "timed", "forever"}

Waiters == {t \in Thread : call[t] # "none"}

Init ==
    /\ call = [t \in Thread |-> "none"]
    /\ tokens = ValueInit

Request(t) ==
    /\ call[t] = "none"
    /\ \E k \in CallKind : call' = [call EXCEPT ![t] = k]
    /\ UNCHANGED tokens

Take(t) ==
    /\ call[t] # "none"
    /\ tokens > 0
    /\ tokens' = tokens - 1
    /\ call' = [call EXCEPT ![t] = "none"]

(***************************************************************************)
(* A call that does not wait fails only when the other waiters may claim   *)
(* all the tokens.                                                         *)
(***************************************************************************)
Fail(t) ==
    /\ \/ call[t] = "timed"
       \/ call[t] = "try" /\ tokens <= Cardinality(Waiters \ {t})
    /\ call' = [call EXCEPT ![t] = "none"]
    /\ UNCHANGED tokens

(***************************************************************************)
(* A signal is refused that would leave more tokens than ValueMax, beyond  *)
(* those that the waiters may claim.                                       *)
(***************************************************************************)
Post(n) ==
    /\ tokens + n <= ValueMax + Cardinality(Waiters)
    /\ tokens' = tokens + n
    /\ UNCHANGED call

Next ==
    \/ \E t \in Thread : Request(t) \/ Take(t) \/ Fail(t)
    \/ \E n \in 1..ValueMax : Post(n)

Spec == Init /\ [][Next]_vars
=============================================================================
