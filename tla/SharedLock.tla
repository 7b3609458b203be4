----------------------------- MODULE SharedLock -----------------------------
(***************************************************************************)
(* What a shared mutex with timeouts keeps to its callers.  shared_mutex.h *)
(* (46-47, 70-72) lets a reader in at once unless there is a writer; this  *)
(* is less, since by src/shared_mutex.c:29 a reader also makes way for the *)
(* threads that sleep: it may be refused beside readers, but only while    *)
(* another thread is waiting or there are as many readers as there may be. *)
(***************************************************************************)
EXTENDS Naturals, FiniteSets

CONSTANTS
    Thread,
    MaxReaders

VARIABLES
    call,       \* the kind of lock call each thread is in
    mode,       \* what its last call asked for
    readers,    \* threads with shared access
    writers     \* threads with exclusive access

vars == <<call, mode, readers, writers>>

CallKind == {"try", "timed", "forever"}

Mode == {"shared", "exclusive"}

Holders == readers \cup writers

Init ==
    /\ call = [t \in Thread |-> "none"]
    /\ mode = [t \in Thread |-> "shared"]
    /\ readers = {}
    /\ writers = {}

Request(t) ==
    /\ call[t] = "none"
    /\ t \notin Holders
    /\ \E k \in CallKind : call' = [call EXCEPT ![t] = k]
    /\ \E m \in Mode : mode' = [mode EXCEPT ![t] = m]
    /\ UNCHANGED <<readers, writers>>

Returned(t) ==
    /\ call[t] # "none"
    /\ call' = [call EXCEPT ![t] = "none"]
    /\ UNCHANGED mode

Share(t) ==
    /\ mode[t] = "shared"
    /\ writers = {}
    /\ Cardinality(readers) < MaxReaders
    /\ readers' = readers \cup {t}
    /\ Returned(t)
    /\ UNCHANGED writers

Acquire(t) ==
    /\ mode[t] = "exclusive"
    /\ Holders = {}
    /\ writers' = {t}
    /\ Returned(t)
    /\ UNCHANGED readers

Expire(t) ==
    /\ call[t] = "timed"
    /\ call' = [call EXCEPT ![t] = "try"]
    /\ UNCHANGED <<mode, readers, writers>>

(***************************************************************************)
(* What a reader that does not wait may be refused for.                    *)
(***************************************************************************)
Refused(t) ==
    \/ writers # {}
    \/ Cardinality(readers) >= MaxReaders
    \/ \E u \in Thread \ {t} : call[u] \in {"timed", "forever"}

(***************************************************************************)
(* A call fails only while somebody holds the mutex: when its deadline has *)
(* passed, or when it is not willing to wait and cannot be let in; never   *)
(* when it has no timeout.                                                 *)
(***************************************************************************)
Fail(t) ==
    /\ Holders # {}
    /\ \/ call[t] = "timed"
       \/ call[t] = "try" /\ (mode[t] = "exclusive" \/ Refused(t))
    /\ Returned(t)
    /\ UNCHANGED <<readers, writers>>

Release(t) ==
    /\ t \in Holders
    /\ readers' = readers \ {t}
    /\ writers' = writers \ {t}
    /\ UNCHANGED <<call, mode>>

Next ==
    \E t \in Thread :
        Request(t) \/ Share(t) \/ Acquire(t) \/ Expire(t) \/ Fail(t) \/ Release(t)

Spec == Init /\ [][Next]_vars
=============================================================================
