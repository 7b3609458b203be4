------------------------------- MODULE Event --------------------------------
(***************************************************************************)
(* _MCF_event: event.h and src/event.c.                                    *)
(***************************************************************************)
EXTENDS CountedWait

CONSTANTS
    Value,      \* the values of the byte that the program stores
    ValueInit,  \* the argument of _MCF_EVENT_INIT
    Undesired   \* the values that the program waits to see gone

ASSUME EventParameters == Value \subseteq 0..255 /\ ValueInit \in Value

VARIABLES
    value,      \* the field beside __nsleep; __reserved_bit is never read
    undesired   \* the argument of each thread's call

eventVars == <<value, nsleep>>
vars == <<pc, tmo, owed, eventVars, undesired>>

PC == {"idle", "check"} \cup KernelPC

Init ==
    /\ pc = [t \in Thread |-> "idle"]
    /\ tmo = [t \in Thread |-> "zero"]
    /\ owed = [t \in Thread |-> 0]
    /\ value = ValueInit
    /\ nsleep = 0
    /\ undesired = [t \in Thread |-> ValueInit]

-----------------------------------------------------------------------------
(* _MCF_event_await_change *)

CallAwait(t) ==
    /\ Enters(t, "check")
    /\ \E u \in Undesired : undesired' = [undesired EXCEPT ![t] = u]
    /\ UNCHANGED eventVars

(***************************************************************************)
(* The call returns the value it sees, which is not the undesired one.     *)
(***************************************************************************)
AwaitDone(t) ==
    /\ pc[t] = "check"
    /\ value # undesired[t]
    /\ Returns(t, "idle")
    /\ UNCHANGED <<eventVars, undesired>>

AwaitFail(t) ==
    /\ pc[t] = "check"
    /\ value = undesired[t]
    /\ tmo[t] = "zero"
    /\ Returns(t, "idle")
    /\ UNCHANGED <<eventVars, undesired>>

\* Fault: the exchange does not compare the value.
AwaitSleepAnyway(t) ==
    /\ pc[t] = "check"
    /\ tmo[t] # "zero"
    /\ nsleep' = nsleep + 1
    /\ Sleeps(t)
    /\ UNCHANGED <<value, undesired>>

AwaitSleep(t) ==
    /\ pc[t] = "check"
    /\ value = undesired[t]
    /\ tmo[t] # "zero"
    /\ nsleep' = nsleep + 1
    /\ Sleeps(t)
    /\ UNCHANGED <<value, undesired>>

LeaveCounted(t) ==
    /\ pc[t] = "leave"
    /\ nsleep > 0
    /\ nsleep' = nsleep - 1
    /\ Returns(t, "idle")
    /\ UNCHANGED <<value, undesired>>

LeaveOwed(t) ==
    /\ nsleep = 0
    /\ AwaitsRelease(t)
    /\ UNCHANGED <<eventVars, undesired>>

WaitTimeout(t) ==
    /\ WaitTimesOut(t) \/ PollTimesOut(t)
    /\ UNCHANGED <<eventVars, undesired>>

(***************************************************************************)
(* A woken thread adjusts its timeout and looks at the value again.        *)
(***************************************************************************)
Wakeup(w, r) ==
    /\ Handoff(w, r, "check", Adjusted(tmo[w]))
    /\ UNCHANGED <<eventVars, undesired>>

-----------------------------------------------------------------------------
(* _MCF_event_set *)

\* Fault: the released threads stay on the count.
SetKeepsCount(t, v) ==
    /\ pc[t] = "idle"
    /\ value # v
    /\ value' = v
    /\ BeginsRelease(t, nsleep)
    /\ UNCHANGED <<nsleep, undesired>>

\* Fault: only one of the waiters is released.
SetWakesOne(t, v) ==
    /\ pc[t] = "idle"
    /\ value # v
    /\ value' = v
    /\ nsleep' = 0
    /\ BeginsRelease(t, IF nsleep = 0 THEN 0 ELSE 1)
    /\ UNCHANGED undesired

(***************************************************************************)
(* Storing another value wakes everybody who is on the count at that       *)
(* moment; storing the same value does nothing.                            *)
(***************************************************************************)
Set(t, v) ==
    /\ pc[t] = "idle"
    /\ value # v
    /\ value' = v
    /\ nsleep' = 0
    /\ BeginsRelease(t, nsleep)
    /\ UNCHANGED undesired

Step(t) ==
    \/ AwaitDone(t) \/ AwaitFail(t) \/ AwaitSleep(t)
    \/ LeaveCounted(t) \/ LeaveOwed(t) \/ WaitTimeout(t)

Next ==
    \/ \E t \in Thread : CallAwait(t) \/ Step(t)
    \/ \E t \in Thread : \E v \in Value : Set(t, v)
    \/ \E w, r \in Thread : Wakeup(w, r)

Spec == Init /\ [][Next]_vars

-----------------------------------------------------------------------------

TypeOK ==
    /\ pc \in [Thread -> PC]
    /\ tmo \in [Thread -> TimeoutKind]
    /\ owed \in [Thread -> Nat]
    /\ value \in Value
    /\ nsleep \in Nat
    /\ undesired \in [Thread -> Undesired \cup {ValueInit}]

(***************************************************************************)
(* event.h: "If this event contains the undesired value, this function     *)
(* blocks until some other value has been stored."  A thread that sleeps   *)
(* although the event holds another value has a release coming to it, or   *)
(* to a thread that it will be mistaken for.                               *)
(***************************************************************************)
ChangeIsSeen ==
    \A t \in Asleep : value # undesired[t] => \E r \in Thread : owed[r] > 0

(***************************************************************************)
(* Every thread is scheduled, timeouts expire, and a release stays queued  *)
(* until it is taken.                                                      *)
(***************************************************************************)
Fairness ==
    \A t \in Thread :
        /\ WF_vars(Step(t))
        /\ SF_vars(\E w \in Thread : Wakeup(w, t))

FairSpec == Spec /\ Fairness

(***************************************************************************)
(* Once the value has changed for good, every wait for the change ends.    *)
(***************************************************************************)
ChangeEndsWaits ==
    \A t \in Thread :
        <>[](value # undesired[t]) => []<>(pc[t] \notin {"check"} \cup KernelPC)
=============================================================================
