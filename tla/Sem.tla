-------------------------------- MODULE Sem ---------------------------------
(***************************************************************************)
(* _MCF_sem: sem.h and src/sem.c.  The sleeping count is the negative part *)
(* of the value.                                                           *)
(***************************************************************************)
EXTENDS KeyedWait, FiniteSetsExt

CONSTANTS
    ValueInit,      \* the argument of _MCF_SEM_INIT
    ValueMax,       \* _MCF_SEM_VALUE_MAX: INTPTR_MAX
    PostMax         \* bound on the signals of a behaviour, for TLC

ASSUME SemParameters ==
    /\ ValueMax \in Nat
    /\ ValueInit \in 0..ValueMax
    /\ PostMax \in Nat

VARIABLES
    value,      \* __value
    posted,     \* what the signals have added so far
    taken       \* how many waits have returned 0

vars == <<pc, tmo, owed, value, posted, taken>>

PC == {"idle", "try"} \cup KernelPC

(***************************************************************************)
(* `_MCF_dim(0, value)`: how many threads are on the sleeping count.       *)
(***************************************************************************)
Counted == IF value < 0 THEN 0 - value ELSE 0

Init ==
    /\ pc = [t \in Thread |-> "idle"]
    /\ tmo = [t \in Thread |-> "zero"]
    /\ owed = [t \in Thread |-> 0]
    /\ value = ValueInit
    /\ posted = 0
    /\ taken = 0

-----------------------------------------------------------------------------
(* _MCF_sem_wait *)

CallWait(t) ==
    /\ Enters(t, "try")
    /\ UNCHANGED <<value, posted, taken>>

\* Fault: a token is taken from an empty semaphore.
WaitTakeLast(t) ==
    /\ pc[t] = "try"
    /\ value >= 0
    /\ value' = value - 1
    /\ taken' = taken + 1
    /\ Returns(t, "idle")
    /\ UNCHANGED posted

WaitTake(t) ==
    /\ pc[t] = "try"
    /\ value > 0
    /\ value' = value - 1
    /\ taken' = taken + 1
    /\ Returns(t, "idle")
    /\ UNCHANGED posted

WaitFail(t) ==
    /\ pc[t] = "try"
    /\ value <= 0
    /\ tmo[t] = "zero"
    /\ Returns(t, "idle")
    /\ UNCHANGED <<value, posted, taken>>

WaitSleep(t) ==
    /\ pc[t] = "try"
    /\ value <= 0
    /\ tmo[t] # "zero"
    /\ value' = value - 1
    /\ Sleeps(t)
    /\ UNCHANGED <<posted, taken>>

\* Fault: the thread leaves although it has been released.
LeaveAnyway(t) ==
    /\ pc[t] = "leave"
    /\ value' = value + 1
    /\ Returns(t, "idle")
    /\ UNCHANGED <<posted, taken>>

(***************************************************************************)
(* After a timeout the thread puts back what it has taken from the value.  *)
(* A value that is not negative covers no sleeper: all are owed a release. *)
(***************************************************************************)
LeaveCounted(t) ==
    /\ pc[t] = "leave"
    /\ value < 0
    /\ value' = value + 1
    /\ Returns(t, "idle")
    /\ UNCHANGED <<posted, taken>>

LeaveOwed(t) ==
    /\ value >= 0
    /\ AwaitsRelease(t)
    /\ UNCHANGED <<value, posted, taken>>

WaitTimeout(t) ==
    /\ WaitTimesOut(t) \/ PollTimesOut(t)
    /\ UNCHANGED <<value, posted, taken>>

(***************************************************************************)
(* A woken thread returns 0 at once: the value was adjusted by the signal. *)
(***************************************************************************)
Wakeup(w, r) ==
    /\ Handoff(w, r, "idle", {"zero"})
    /\ taken' = taken + 1
    /\ UNCHANGED <<value, posted>>

-----------------------------------------------------------------------------
(* _MCF_sem_signal_some *)

\* Fault: sleepers are counted after the value has been raised.
SignalCountsLate(t, n) ==
    /\ pc[t] = "idle"
    /\ value <= ValueMax - n
    /\ posted + n <= PostMax
    /\ value' = value + n
    /\ BeginsRelease(t, Min({Counted', n}))
    /\ posted' = posted + n
    /\ UNCHANGED taken

(***************************************************************************)
(* A signal that would overflow returns -2 and changes nothing.            *)
(***************************************************************************)
Signal(t, n) ==
    /\ pc[t] = "idle"
    /\ value <= ValueMax - n
    /\ posted + n <= PostMax
    /\ value' = value + n
    /\ BeginsRelease(t, Min({Counted, n}))
    /\ posted' = posted + n
    /\ UNCHANGED taken

Step(t) ==
    \/ WaitTake(t) \/ WaitFail(t) \/ WaitSleep(t)
    \/ LeaveCounted(t) \/ LeaveOwed(t) \/ WaitTimeout(t)

Next ==
    \/ \E t \in Thread : CallWait(t) \/ Step(t)
    \/ \E t \in Thread : \E n \in 1..ValueMax : Signal(t, n)
    \/ \E w, r \in Thread : Wakeup(w, r)

Spec == Init /\ [][Next]_vars

-----------------------------------------------------------------------------

TypeOK ==
    /\ pc \in [Thread -> PC]
    /\ tmo \in [Thread -> TimeoutKind]
    /\ owed \in [Thread -> Nat]
    /\ value \in Int /\ value <= ValueMax
    /\ posted \in 0..PostMax
    /\ taken \in Nat

(***************************************************************************)
(* The sleeping count and the releases follow the protocol of SleepQueue.  *)
(***************************************************************************)
SQ == INSTANCE SleepQueue WITH nsleep <- Counted, asleep <- Asleep

SleepsProperly == SQ!Spec

(***************************************************************************)
(* The tokens that exist are those of the value and those on their way to  *)
(* a sleeper; a sleeper has taken one from the value in advance.           *)
(***************************************************************************)
Tokens == ValueInit + posted - taken

TokensConserved == value + Cardinality(Asleep) = Tokens

(***************************************************************************)
(* The semaphore hands out no token it does not have, and a wait that does *)
(* not block fails only when every token is claimed by another waiter.     *)
(***************************************************************************)
Waiting == {t \in Thread : pc[t] \in {"try", "wait", "leave", "poll"}}

Calls ==
    [t \in Thread |-> IF t \in Waiting THEN CallKindOf(tmo[t]) ELSE "none"]

CS == INSTANCE CountingSem WITH call <- Calls, tokens <- Tokens

IsCountingSem == CS!Spec

(***************************************************************************)
(* Every thread is scheduled, timeouts expire, and a release stays queued  *)
(* until it is taken.                                                      *)
(***************************************************************************)
Fairness ==
    \A t \in Thread :
        /\ WF_vars(Step(t))
        /\ SF_vars(\E w \in Thread : Wakeup(w, t))

FairSpec == Spec /\ Fairness

(***************************************************************************)
(* A signal returns, however its sleepers time out meanwhile.              *)
(***************************************************************************)
SignalReturns == \A t \in Thread : pc[t] = "release" ~> pc[t] = "idle"

(***************************************************************************)
(* A token does not lie idle while a thread sleeps: where there is a token *)
(* and a sleeper, be it only one of each, some wait takes a token at last, *)
(* unless all sleepers have given up before that.                          *)
(***************************************************************************)
TokensReachSleepers ==
    \A n \in 0..(ValueInit + PostMax) :
        taken = n /\ Tokens > 0 /\ Asleep # {} ~> taken > n \/ Asleep = {}
=============================================================================
