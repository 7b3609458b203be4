----------------------------- MODULE SleepQueue -----------------------------
(***************************************************************************)
(* The sleeping-count protocol that mutex.c, cond.c, event.c, once.c,      *)
(* sem.c and shared_mutex.c all repeat around a keyed event, without the   *)
(* state of any one of them.                                               *)
(*                                                                         *)
(* A thread that decides to sleep first increments the count in the object *)
(* and waits on the keyed event named by the object's address afterwards.  *)
(* A thread that wakes others takes them off the count in one atomic step  *)
(* and then releases the keyed event once for each, and every release      *)
(* blocks until some waiter takes it.  A waiter whose timeout expires      *)
(* takes itself off the count, unless the count has reached zero: then     *)
(* somebody already owes a release, and leaving would strand the releaser. *)
(*                                                                         *)
(* Each primitive is shown to implement this module.                       *)
(***************************************************************************)
EXTENDS Integers, FiniteSets

CONSTANT Thread

VARIABLES
    nsleep,     \* the sleeping count in the object
    asleep,     \* threads between their increment and their wakeup or exit
    owed        \* releases that a thread has still to hand over

vars == <<nsleep, asleep, owed>>

Init ==
    /\ nsleep = 0
    /\ asleep = {}
    /\ owed = [t \in Thread |-> 0]

(***************************************************************************)
(* A thread allocates a sleeping count for itself.                         *)
(***************************************************************************)
Enlist(t) ==
    /\ t \notin asleep
    /\ owed[t] = 0
    /\ nsleep' = nsleep + 1
    /\ asleep' = asleep \cup {t}
    /\ UNCHANGED owed

\* Fault: a thread does not wait for the release that it is owed.
DepartUncounted(t) ==
    /\ t \in asleep
    /\ nsleep' = IF nsleep = 0 THEN 0 ELSE nsleep - 1
    /\ asleep' = asleep \ {t}
    /\ UNCHANGED owed

(***************************************************************************)
(* A sleeper whose timeout has expired gives its count back.               *)
(***************************************************************************)
Depart(t) ==
    /\ t \in asleep
    /\ nsleep > 0
    /\ nsleep' = nsleep - 1
    /\ asleep' = asleep \ {t}
    /\ UNCHANGED owed

\* Fault: the threads to wake stay on the count.
WakeKeepsCount(t, n) ==
    /\ t \notin asleep
    /\ owed[t] = 0
    /\ owed' = [owed EXCEPT ![t] = n]
    /\ UNCHANGED <<nsleep, asleep>>

(***************************************************************************)
(* A waker takes n sleepers off the count and now owes n releases.         *)
(***************************************************************************)
Wake(t, n) ==
    /\ t \notin asleep
    /\ owed[t] = 0
    /\ nsleep' = nsleep - n
    /\ owed' = [owed EXCEPT ![t] = n]
    /\ UNCHANGED asleep

(***************************************************************************)
(* One release by r meets one wait by w.                                   *)
(***************************************************************************)
Meet(w, r) ==
    /\ w \in asleep
    /\ owed[r] > 0
    /\ asleep' = asleep \ {w}
    /\ owed' = [owed EXCEPT ![r] = @ - 1]
    /\ UNCHANGED nsleep

Next ==
    \/ \E t \in Thread : Enlist(t) \/ Depart(t)
    \/ \E t \in Thread : \E n \in 1..nsleep : Wake(t, n)
    \/ \E w, r \in Thread : Meet(w, r)

Spec == Init /\ [][Next]_vars

-----------------------------------------------------------------------------

TypeOK ==
    /\ nsleep \in Nat
    /\ asleep \in SUBSET Thread
    /\ owed \in [Thread -> Nat]

(***************************************************************************)
(* The releases that are still owed, one pair for each.                    *)
(***************************************************************************)
Debts == UNION {{t} \X (1..owed[t]) : t \in Thread}

(***************************************************************************)
(* Every thread that is asleep is either still on the count or has one     *)
(* release coming to it; the count and the debts cover nobody else.  This  *)
(* is what lets a releaser block without a limit on its retries in         *)
(* __MCF_batch_release_common.                                             *)
(***************************************************************************)
Conservation == nsleep + Cardinality(Debts) = Cardinality(asleep)

(***************************************************************************)
(* A thread that owes a release finds somebody to take it, so the release  *)
(* loop of __MCF_batch_release_common is never stuck.                      *)
(***************************************************************************)
ReleaserIsNeverStuck ==
    \A r \in Thread : owed[r] > 0 => asleep # {}

(***************************************************************************)
(* Somebody is asleep exactly as long as the count is not zero or a        *)
(* release is owed.  So no sleeper is ever forgotten, and when the last    *)
(* one is gone no release is left over that a later object at the same     *)
(* address would get.                                                      *)
(***************************************************************************)
QuietIffEmpty ==
    asleep = {} <=> nsleep = 0 /\ \A r \in Thread : owed[r] = 0
=============================================================================
