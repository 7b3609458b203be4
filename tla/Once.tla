-------------------------------- MODULE Once --------------------------------
(***************************************************************************)
(* _MCF_once: once.h and src/once.c; and the functions that run a callback *)
(* once, which wait for the flag without a timeout, and tell it whether    *)
(* the callback has returned or has been unwound.                          *)
(***************************************************************************)
EXTENDS CountedWait

VARIABLES ready, locked     \* the fields of the flag beside __nsleep

onceVars == <<ready, locked, nsleep>>
vars == <<pc, tmo, owed, onceVars>>

PC == {"idle", "enter", "init"} \cup KernelPC

Init ==
    /\ pc = [t \in Thread |-> "idle"]
    /\ tmo = [t \in Thread |-> "zero"]
    /\ owed = [t \in Thread |-> 0]
    /\ ready = 0 /\ locked = 0 /\ nsleep = 0

-----------------------------------------------------------------------------
(* _MCF_once_wait *)

CallWait(t) ==
    /\ Enters(t, "enter")
    /\ UNCHANGED onceVars

(***************************************************************************)
(* Returns 0, 1 and -1.                                                    *)
(***************************************************************************)
WaitDone(t) ==
    /\ pc[t] = "enter"
    /\ ready = 1
    /\ Returns(t, "idle")
    /\ UNCHANGED onceVars

\* Fault: a flag that is ready is locked again.
WaitBeginAgain(t) ==
    /\ pc[t] = "enter"
    /\ locked = 0
    /\ locked' = 1
    /\ Returns(t, "init")
    /\ UNCHANGED <<ready, nsleep>>

WaitBegin(t) ==
    /\ pc[t] = "enter"
    /\ ready = 0 /\ locked = 0
    /\ locked' = 1
    /\ Returns(t, "init")
    /\ UNCHANGED <<ready, nsleep>>

WaitFail(t) ==
    /\ pc[t] = "enter"
    /\ ready = 0 /\ locked = 1
    /\ tmo[t] = "zero"
    /\ Returns(t, "idle")
    /\ UNCHANGED onceVars

WaitSleep(t) ==
    /\ pc[t] = "enter"
    /\ ready = 0 /\ locked = 1
    /\ tmo[t] # "zero"
    /\ nsleep' = nsleep + 1
    /\ Sleeps(t)
    /\ UNCHANGED <<ready, locked>>

LeaveCounted(t) ==
    /\ pc[t] = "leave"
    /\ nsleep > 0
    /\ nsleep' = nsleep - 1
    /\ Returns(t, "idle")
    /\ UNCHANGED <<ready, locked>>

LeaveOwed(t) ==
    /\ nsleep = 0
    /\ AwaitsRelease(t)
    /\ UNCHANGED onceVars

WaitTimeout(t) ==
    /\ WaitTimesOut(t) \/ PollTimesOut(t)
    /\ UNCHANGED onceVars

Wakeup(w, r) ==
    /\ Handoff(w, r, "enter", Adjusted(tmo[w]))
    /\ UNCHANGED onceVars

-----------------------------------------------------------------------------
(* _MCF_once_abort and _MCF_once_release, by the thread that initializes *)

\* Fault: nobody is woken.
AbortQuietly(t) ==
    /\ pc[t] = "init"
    /\ locked' = 0
    /\ BeginsRelease(t, 0)
    /\ UNCHANGED <<ready, nsleep>>

(***************************************************************************)
(* The flag is unlocked again and one of the sleepers may try.             *)
(***************************************************************************)
Abort(t) ==
    LET wakeOne == IF nsleep = 0 THEN 0 ELSE 1 IN
    /\ pc[t] = "init"
    /\ locked' = 0
    /\ nsleep' = nsleep - wakeOne
    /\ BeginsRelease(t, wakeOne)
    /\ UNCHANGED ready

\* Fault: the released threads stay on the count.
ReleaseKeepsCount(t) ==
    /\ pc[t] = "init"
    /\ ready' = 1 /\ locked' = 0
    /\ BeginsRelease(t, nsleep)
    /\ UNCHANGED nsleep

\* Fault: only one of the waiters is released.
ReleaseWakesOne(t) ==
    /\ pc[t] = "init"
    /\ ready' = 1 /\ locked' = 0 /\ nsleep' = 0
    /\ BeginsRelease(t, IF nsleep = 0 THEN 0 ELSE 1)

Release(t) ==
    /\ pc[t] = "init"
    /\ ready' = 1 /\ locked' = 0 /\ nsleep' = 0
    /\ BeginsRelease(t, nsleep)

-----------------------------------------------------------------------------
(* Functions that run a callback once *)

(***************************************************************************)
(* They return when _MCF_once_wait returns 0, and call the callback when   *)
(* it returns 1; it has no timeout and so does not return -1.              *)
(***************************************************************************)
WaitForever(t) ==
    /\ CallWait(t)
    /\ tmo'[t] = "inf"

CallOnceSeh(t) == WaitForever(t)
GthrOnce(t) == CallOnceSeh(t)
ExecuteOnce(t) == CallOnceSeh(t)
C11CallOnce(t) == CallOnceSeh(t)
CxxCallOnce(t) == WaitForever(t)
GuardAcquire(t) == WaitForever(t)

(***************************************************************************)
(* A callback that returns disarms the flag.  One that is unwound, by an   *)
(* exception, a jump or the exit of its thread, resets it on the way; the  *)
(* handler does nothing while a frame that handles the exception is being  *)
(* looked for.                                                             *)
(***************************************************************************)
CallbackReturns(t) == Release(t)
CallbackUnwinds(t) == Abort(t)

CallOnce(t) ==
    GthrOnce(t) \/ ExecuteOnce(t) \/ C11CallOnce(t) \/ CxxCallOnce(t) \/ GuardAcquire(t)

-----------------------------------------------------------------------------
Step(t) ==
    \/ WaitDone(t) \/ WaitBegin(t) \/ WaitFail(t) \/ WaitSleep(t)
    \/ LeaveCounted(t) \/ LeaveOwed(t) \/ WaitTimeout(t)

Next ==
    \/ \E t \in Thread :
          \/ CallWait(t) \/ CallOnce(t)
          \/ Step(t)
          \/ CallbackReturns(t) \/ CallbackUnwinds(t)
    \/ \E w, r \in Thread : Wakeup(w, r)

Spec == Init /\ [][Next]_vars

-----------------------------------------------------------------------------

TypeOK ==
    /\ pc \in [Thread -> PC]
    /\ tmo \in [Thread -> TimeoutKind]
    /\ owed \in [Thread -> Nat]
    /\ ready \in 0..1
    /\ locked \in 0..1
    /\ nsleep \in Nat

(***************************************************************************)
(* Only one thread initializes at a time, none does after a success, every *)
(* wait returns what once.h says, and only a wait with a timeout fails.    *)
(***************************************************************************)
Phase ==
    IF ready = 1 THEN "ready" ELSE IF locked = 1 THEN "locked" ELSE "unlocked"

Calls ==
    [t \in Thread |-> IF pc[t] \in {"enter", "wait", "leave", "poll"}
                      THEN CallKindOf(tmo[t]) ELSE "none"]

OC == INSTANCE OnceCell
        WITH call <- Calls, phase <- Phase, runner <- {t \in Thread : pc[t] = "init"}

IsOnceCell == OC!Spec

(***************************************************************************)
(* A failed initialization is taken over: while the flag is unlocked and   *)
(* anybody sleeps on it, some thread is about to look at the flag or owes  *)
(* a release.  A sleeper that times out must not take that chance along.   *)
(* After a success, every sleeper has a release of its own.                *)
(***************************************************************************)
NoLostWakeup ==
    /\ Phase = "unlocked" /\ Asleep # {} =>
          \E t \in Thread : pc[t] = "enter" \/ owed[t] > 0
    /\ Phase = "ready" => nsleep = 0

(***************************************************************************)
(* Every thread is scheduled, timeouts expire, and a release stays queued  *)
(* until it is taken.  An initialization may take forever.                 *)
(***************************************************************************)
Fairness ==
    \A t \in Thread :
        /\ WF_vars(Step(t))
        /\ SF_vars(\E w \in Thread : Wakeup(w, t))

FairSpec == Spec /\ Fairness

(***************************************************************************)
(* Once the flag is ready every wait returns; once it is unlocked, with    *)
(* somebody waiting, somebody initializes.                                 *)
(***************************************************************************)
ReadyEndsWaits ==
    \A t \in Thread :
        (Phase = "ready" /\ Calls[t] # "none") ~> Calls[t] = "none"

AbortPassesOn ==
    (Phase = "unlocked" /\ \E t \in Thread : Calls[t] = "forever") ~> locked = 1
=============================================================================
