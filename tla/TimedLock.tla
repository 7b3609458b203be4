----------------------------- MODULE TimedLock ------------------------------
(***************************************************************************)
(* What a lock with timeouts promises its callers: mutex.h for             *)
(* _MCF_mutex_lock and _MCF_mutex_unlock.                                  *)
(***************************************************************************)
CONSTANT Thread

VARIABLES
    call,       \* the kind of lock call each thread is in
    holders     \* threads whose call has returned 0 and that have not unlocked

vars == <<call, holders>>

CallKind == {"try", "timed", "forever"}

Init ==
    /\ call = [t \in Thread |-> "none"]
    /\ holders = {}

Request(t) ==
    /\ call[t] = "none"
    /\ t \notin holders
    /\ \E k \in CallKind : call' = [call EXCEPT ![t] = k]
    /\ UNCHANGED holders

Acquire(t) ==
    /\ call[t] # "none"
    /\ holders = {}
    /\ holders' = {t}
    /\ call' = [call EXCEPT ![t] = "none"]

(***************************************************************************)
(* A deadline has passed, so the call will not wait any longer.            *)
(***************************************************************************)
Expire(t) ==
    /\ call[t] = "timed"
    /\ call' = [call EXCEPT ![t] = "try"]
    /\ UNCHANGED holders

(***************************************************************************)
(* A call may return -1 when its deadline passes, or when it is not        *)
(* willing to wait and somebody holds the lock; a call without a timeout   *)
(* never does.                                                             *)
(***************************************************************************)
Fail(t) ==
    /\ \/ call[t] = "timed"
       \/ call[t] = "try" /\ holders # {}
    /\ call' = [call EXCEPT ![t] = "none"]
    /\ UNCHANGED holders

Release(t) ==
    /\ t \in holders
    /\ holders' = holders \ {t}
    /\ UNCHANGED call

Next ==
    \E t \in Thread :
        Request(t) \/ Acquire(t) \/ Expire(t) \/ Fail(t) \/ Release(t)

Spec == Init /\ [][Next]_vars

TypeOK ==
    /\ call \in [Thread -> CallKind \cup {"none"}]
    /\ holders \in SUBSET Thread

(***************************************************************************)
(* At most one thread holds the lock.                                      *)
(***************************************************************************)
MutualExclusion == \A t, u \in holders : t = u
=============================================================================
