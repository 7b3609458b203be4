-------------------------------- MODULE Cond --------------------------------
(***************************************************************************)
(* _MCF_cond: cond.h and src/cond.c, with the lock that the callbacks of a *)
(* wait release and take again.  A wait never looks at its timeout twice,  *)
(* so that all timeouts but infinity, zero included, are "abs" here.       *)
(***************************************************************************)
EXTENDS KeyedWait, FiniteSetsExt

VARIABLES
    nsleep,     \* the field of the condition variable
    holders,    \* who holds the lock of the callbacks
    unlocked,   \* threads whose unlock callback has run and relock has not
    err         \* what the last wait of each thread has returned

vars == <<pc, tmo, owed, nsleep, holders, unlocked, err>>

PC == {"idle", "unlock", "relock"} \cup KernelPC

Init ==
    /\ pc = [t \in Thread |-> "idle"]
    /\ tmo = [t \in Thread |-> "zero"]
    /\ owed = [t \in Thread |-> 0]
    /\ nsleep = 0
    /\ holders = {}
    /\ unlocked = {}
    /\ err = [t \in Thread |-> 0]

-----------------------------------------------------------------------------
(* _MCF_cond_wait *)

(***************************************************************************)
(* The thread is on the count before it gives up the lock; one that holds  *)
(* no lock passes no callbacks and waits at once.                          *)
(***************************************************************************)
CallWait(t) ==
    /\ pc[t] = "idle"
    /\ nsleep' = nsleep + 1
    /\ pc' = [pc EXCEPT ![t] = IF t \in holders THEN "unlock" ELSE "wait"]
    /\ \E k \in {"abs", "inf"} : tmo' = [tmo EXCEPT ![t] = k]
    /\ UNCHANGED <<owed, holders, unlocked, err>>

UnlockCallback(t) ==
    /\ pc[t] = "unlock"
    /\ holders' = holders \ {t}
    /\ unlocked' = unlocked \cup {t}
    /\ Sleeps(t)
    /\ UNCHANGED <<nsleep, err>>

(***************************************************************************)
(* Where a thread goes when it has slept.                                  *)
(***************************************************************************)
Afterwards(t) == IF t \in unlocked THEN "relock" ELSE "idle"

LeaveCounted(t) ==
    /\ pc[t] = "leave"
    /\ nsleep > 0
    /\ nsleep' = nsleep - 1
    /\ Returns(t, Afterwards(t))
    /\ err' = [err EXCEPT ![t] = -1]
    /\ UNCHANGED <<holders, unlocked>>

LeaveOwed(t) ==
    /\ nsleep = 0
    /\ AwaitsRelease(t)
    /\ UNCHANGED <<nsleep, holders, unlocked, err>>

WaitTimeout(t) ==
    /\ WaitTimesOut(t) \/ PollTimesOut(t)
    /\ UNCHANGED <<nsleep, holders, unlocked, err>>

Wakeup(w, r) ==
    /\ Handoff(w, r, Afterwards(w), {"zero"})
    /\ err' = [err EXCEPT ![w] = 0]
    /\ UNCHANGED <<nsleep, holders, unlocked>>

Relock(t) ==
    /\ pc[t] = "relock"
    /\ holders' = holders \cup {t}
    /\ unlocked' = unlocked \ {t}
    /\ pc' = [pc EXCEPT ![t] = "idle"]
    /\ UNCHANGED <<tmo, owed, nsleep, err>>

-----------------------------------------------------------------------------
(* _MCF_cond_signal_some, and _MCF_cond_signal_all with a limit above all *)

\* Fault: more releases than there are sleepers.
SignalUpToLimit(t, limit) ==
    /\ pc[t] = "idle"
    /\ nsleep > 0
    /\ nsleep' = nsleep - Min({nsleep, limit})
    /\ BeginsRelease(t, limit)
    /\ UNCHANGED <<holders, unlocked, err>>

\* Fault: the count is cleared, whatever is released.
SignalClearsCount(t, limit) ==
    /\ pc[t] = "idle"
    /\ nsleep > 0
    /\ nsleep' = 0
    /\ BeginsRelease(t, Min({nsleep, limit}))
    /\ UNCHANGED <<holders, unlocked, err>>

Signal(t, limit) ==
    /\ pc[t] = "idle"
    /\ nsleep > 0
    /\ nsleep' = nsleep - Min({nsleep, limit})
    /\ BeginsRelease(t, Min({nsleep, limit}))
    /\ UNCHANGED <<holders, unlocked, err>>

-----------------------------------------------------------------------------

CondTypeOK ==
    /\ pc \in [Thread -> PC]
    /\ tmo \in [Thread -> TimeoutKind]
    /\ owed \in [Thread -> Nat]
    /\ nsleep \in Nat
    /\ holders \in SUBSET Thread
    /\ unlocked \in SUBSET Thread
    /\ err \in [Thread -> {0, -1}]

(***************************************************************************)
(* The sleeping count and the releases follow the protocol of SleepQueue,  *)
(* although a thread runs a callback after it has joined the count.        *)
(***************************************************************************)
Enlisted == Asleep \cup {t \in Thread : pc[t] = "unlock"}

SQ == INSTANCE SleepQueue WITH asleep <- Enlisted

SleepsProperly == SQ!Spec
=============================================================================
