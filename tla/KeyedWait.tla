----------------------------- MODULE KeyedWait ------------------------------
(***************************************************************************)
(* What the primitives share below their own state: the timeout of a call  *)
(* (__MCF_initialize_winnt_timeout_v3, __MCF_adjust_winnt_timeout_v3), the *)
(* keyed event of the NT kernel, and __MCF_batch_release_common.           *)
(*                                                                         *)
(* A keyed event is a rendezvous: NtWaitForKeyedEvent takes a release that *)
(* is already queued for the key or queues itself, NtReleaseKeyedEvent     *)
(* takes a queued wait or queues itself, and either leaves the queue when  *)
(* its timeout expires, atomically with respect to a match.  Which of the  *)
(* queued threads is matched is not specified, so any of them may be.  A   *)
(* thread that is about to enter the kernel cannot be told from one that   *)
(* is queued: the same pc stands for both.                                 *)
(***************************************************************************)
EXTENDS Integers, FiniteSets, TimeoutKinds

CONSTANT Thread

VARIABLES
    pc,     \* where each thread is; every primitive has pcs of its own
    tmo,    \* nt_timeout of the current call
    owed    \* `remaining` of __MCF_batch_release_common

(***************************************************************************)
(* How the caller of a function sees its timeout.                          *)
(***************************************************************************)
CallKindOf(k) ==
    IF k = "zero" THEN "try" ELSE IF k = "inf" THEN "forever" ELSE "timed"

KernelPC == {"wait", "leave", "poll", "release"}

(***************************************************************************)
(* Threads inside NtWaitForKeyedEvent, and threads that have allocated a   *)
(* sleeping count and have neither been woken nor given it back.           *)
(***************************************************************************)
Parked == {t \in Thread : pc[t] \in {"wait", "poll"}}

Asleep == {t \in Thread : pc[t] \in {"wait", "leave", "poll"}}

(***************************************************************************)
(* The wait with the caller's timeout ends with STATUS_TIMEOUT.            *)
(***************************************************************************)
WaitTimesOut(t) ==
    /\ pc[t] = "wait"
    /\ tmo[t] \in {"rel", "abs"}
    /\ pc' = [pc EXCEPT ![t] = "leave"]
    /\ UNCHANGED <<tmo, owed>>

(***************************************************************************)
(* The second wait, whose timeout is zero, finds no release queued.        *)
(***************************************************************************)
PollTimesOut(t) ==
    /\ pc[t] = "poll"
    /\ pc' = [pc EXCEPT ![t] = "leave"]
    /\ UNCHANGED <<tmo, owed>>

(***************************************************************************)
(* The release of r meets the wait of w.  w goes on at `woken` with one of *)
(* `left` as its timeout; r returns once nothing is left to release.  A    *)
(* release whose own timeout of one second expires is repeated, which      *)
(* changes nothing here.                                                   *)
(***************************************************************************)
Handoff(w, r, woken, left) ==
    /\ w \in Parked
    /\ pc[r] = "release"
    /\ owed' = [owed EXCEPT ![r] = @ - 1]
    /\ pc' = [pc EXCEPT ![w] = woken, ![r] = IF owed[r] = 1 THEN "idle" ELSE @]
    /\ \E k \in left : tmo' = [tmo EXCEPT ![w] = k]

-----------------------------------------------------------------------------
(* Steps of a call that every primitive but the mutex takes as they are.   *)

(***************************************************************************)
(* A call with some timeout begins at `entry`; a call returns.             *)
(***************************************************************************)
Enters(t, entry) ==
    /\ pc[t] = "idle"
    /\ pc' = [pc EXCEPT ![t] = entry]
    /\ \E k \in TimeoutKind : tmo' = [tmo EXCEPT ![t] = k]
    /\ UNCHANGED owed

Returns(t, to) ==
    /\ pc' = [pc EXCEPT ![t] = to]
    /\ tmo' = [tmo EXCEPT ![t] = "zero"]
    /\ UNCHANGED owed

(***************************************************************************)
(* A thread that has just allocated a sleeping count goes to wait.         *)
(***************************************************************************)
Sleeps(t) ==
    /\ pc' = [pc EXCEPT ![t] = "wait"]
    /\ UNCHANGED <<tmo, owed>>

(***************************************************************************)
(* A waiter whose timeout has expired finds that somebody owes a release   *)
(* already, and waits for it without a timeout of its own.                 *)
(***************************************************************************)
AwaitsRelease(t) ==
    /\ pc[t] = "leave"
    /\ pc' = [pc EXCEPT ![t] = "poll"]
    /\ UNCHANGED <<tmo, owed>>

(***************************************************************************)
(* A thread that has taken n sleepers off the count releases that many.    *)
(***************************************************************************)
BeginsRelease(t, n) ==
    /\ owed' = [owed EXCEPT ![t] = n]
    /\ pc' = [pc EXCEPT ![t] = IF n = 0 THEN "idle" ELSE "release"]
    /\ UNCHANGED tmo
=============================================================================
