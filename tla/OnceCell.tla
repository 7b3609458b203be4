------------------------------ MODULE OnceCell ------------------------------
(***************************************************************************)
(* What a once-initialization flag promises its callers: once.h.           *)
(***************************************************************************)
CONSTANT Thread

VARIABLES
    call,       \* the kind of wait each thread is in
    phase,      \* UNLOCKED, LOCKED or READY
    runner      \* the threads whose wait has returned 1

vars == <<call, phase, runner>>

CallKind == {"try", "timed", "forever"}

Init ==
    /\ call = [t \in Thread |-> "none"]
    /\ phase = "unlocked"
    /\ runner = {}

Request(t) ==
    /\ call[t] = "none"
    /\ t \notin runner
    /\ \E k \in CallKind : call' = [call EXCEPT ![t] = k]
    /\ UNCHANGED <<phase, runner>>

Returned(t) == call' = [call EXCEPT ![t] = "none"]

(***************************************************************************)
(* Returns 1: the caller is to initialize.  Returns 0: that is done.       *)
(***************************************************************************)
Begin(t) ==
    /\ call[t] # "none"
    /\ phase = "unlocked"
    /\ phase' = "locked"
    /\ runner' = {t}
    /\ Returned(t)

Done(t) ==
    /\ call[t] # "none"
    /\ phase = "ready"
    /\ Returned(t)
    /\ UNCHANGED <<phase, runner>>

(***************************************************************************)
(* A deadline passes.  Returns -1: after a deadline, or at once while      *)
(* another thread initializes.                                             *)
(***************************************************************************)
Expire(t) ==
    /\ call[t] = "timed"
    /\ call' = [call EXCEPT ![t] = "try"]
    /\ UNCHANGED <<phase, runner>>

Fail(t) ==
    /\ phase = "locked" \/ (phase = "unlocked" /\ call[t] = "timed")
    /\ call[t] \in {"try", "timed"}
    /\ Returned(t)
    /\ UNCHANGED <<phase, runner>>

Abort(t) ==
    /\ t \in runner
    /\ phase' = "unlocked"
    /\ runner' = {}
    /\ UNCHANGED call

Complete(t) ==
    /\ t \in runner
    /\ phase' = "ready"
    /\ runner' = {}
    /\ UNCHANGED call

Next ==
    \E t \in Thread :
        \/ Request(t) \/ Begin(t) \/ Done(t) \/ Expire(t) \/ Fail(t)
        \/ Abort(t) \/ Complete(t)

Spec == Init /\ [][Next]_vars
=============================================================================
