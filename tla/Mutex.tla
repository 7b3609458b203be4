------------------------------- MODULE Mutex --------------------------------
(***************************************************************************)
(* _MCF_mutex: mutex.h and src/mutex.c.                                    *)
(*                                                                         *)
(* A compare-and-swap loop is one step here, taken when its last exchange  *)
(* succeeds: every field of `new` is computed from the `old` that was in   *)
(* memory at that moment.  The inline fast paths of mutex.h make the same  *)
(* change as the first branch of the slow functions and are not separate   *)
(* actions.                                                                *)
(***************************************************************************)
EXTENDS CountedWait

CONSTANTS
    NSlot,          \* bits in __sp_mask: 4
    NFailMax,       \* largest value of __sp_nfail: 15
    SpinThreshold,  \* __MCF_MUTEX_SP_NFAIL_THRESHOLD: 10
    SpinUnit        \* spinning turns per missing failure: 16

ASSUME SpinParameters ==
    /\ NSlot \in Nat \ {0}
    /\ NFailMax \in Nat
    /\ SpinThreshold \in 1..NFailMax
    /\ SpinUnit \in Nat \ {0}

VARIABLES
    locked, spMask, spNfail,    \* the fields of the mutex beside __nsleep
    spinByte,                   \* its bytes in mutex_spin_field
    slot,                       \* sp_mask of each thread, 0 for none
    budget                      \* sp_budget of each thread

mutexVars == <<locked, spMask, spNfail, nsleep>>
spinVars == <<slot, budget>>
vars == <<pc, tmo, owed, mutexVars, spinByte, spinVars>>

Slot == 1..NSlot

PC == {"idle", "lock", "spin", "retry", "hold", "notify"} \cup KernelPC

\* Fault: the counter does not saturate.
UnboundedFailures(n) == n + 1

(***************************************************************************)
(* do_adjust_sp_nfail: one more or one less, saturated.                    *)
(***************************************************************************)
OneMoreFailure(n) == IF n = NFailMax THEN n ELSE n + 1
OneLessFailure(n) == IF n = 0 THEN n ELSE n - 1

(***************************************************************************)
(* The lowest clear bit `~m & (m + 1)` and the lowest set bit `m & -m`.    *)
(***************************************************************************)
Lowest(S) == CHOOSE s \in S : \A r \in S : s <= r

Init ==
    /\ pc = [t \in Thread |-> "idle"]
    /\ tmo = [t \in Thread |-> "zero"]
    /\ owed = [t \in Thread |-> 0]
    /\ locked = 0 /\ spMask = {} /\ spNfail = 0 /\ nsleep = 0
    /\ spinByte = [s \in Slot |-> 0]
    /\ slot = [t \in Thread |-> 0]
    /\ budget = [t \in Thread |-> 0]

-----------------------------------------------------------------------------
(* _MCF_mutex_lock *)

CallLock(t) ==
    /\ pc[t] = "idle"
    /\ pc' = [pc EXCEPT ![t] = "lock"]
    /\ \E k \in TimeoutKind : tmo' = [tmo EXCEPT ![t] = k]
    /\ UNCHANGED <<owed, mutexVars, spinByte, spinVars>>

\* Fault: the exchange does not compare __locked.
TakeLockAnyway(t, given) ==
    /\ locked' = 1
    /\ spMask' = spMask \ given
    /\ spNfail' = OneLessFailure(spNfail)
    /\ pc' = [pc EXCEPT ![t] = "hold"]
    /\ tmo' = [tmo EXCEPT ![t] = "zero"]
    /\ slot' = [slot EXCEPT ![t] = 0]
    /\ budget' = [budget EXCEPT ![t] = 0]
    /\ UNCHANGED <<owed, nsleep, spinByte>>

(***************************************************************************)
(* The mutex is free: take it and forgive one spinning failure.  `given`   *)
(* is the slot that goes back with the same exchange.                      *)
(***************************************************************************)
TakeLock(t, given) ==
    /\ locked = 0
    /\ locked' = 1
    /\ spMask' = spMask \ given
    /\ spNfail' = OneLessFailure(spNfail)
    /\ pc' = [pc EXCEPT ![t] = "hold"]
    /\ tmo' = [tmo EXCEPT ![t] = "zero"]
    /\ slot' = [slot EXCEPT ![t] = 0]
    /\ budget' = [budget EXCEPT ![t] = 0]
    /\ UNCHANGED <<owed, nsleep, spinByte>>

\* Fault: the sleeping count grows on a free mutex as well.
GoToSleepAnyway(t, given) ==
    /\ spMask' = spMask \ given
    /\ spNfail' = OneMoreFailure(spNfail)
    /\ nsleep' = nsleep + 1
    /\ pc' = [pc EXCEPT ![t] = "wait"]
    /\ slot' = [slot EXCEPT ![t] = 0]
    /\ budget' = [budget EXCEPT ![t] = 0]
    /\ UNCHANGED <<tmo, owed, locked, spinByte>>

(***************************************************************************)
(* The mutex is locked: count a spinning failure and go to sleep.          *)
(***************************************************************************)
GoToSleep(t, given) ==
    /\ locked = 1
    /\ spMask' = spMask \ given
    /\ spNfail' = OneMoreFailure(spNfail)
    /\ nsleep' = nsleep + 1
    /\ pc' = [pc EXCEPT ![t] = "wait"]
    /\ slot' = [slot EXCEPT ![t] = 0]
    /\ budget' = [budget EXCEPT ![t] = 0]
    /\ UNCHANGED <<tmo, owed, locked, spinByte>>

LockAcquire(t) == pc[t] = "lock" /\ TakeLock(t, {})

LockFail(t) ==
    /\ pc[t] = "lock"
    /\ locked = 1
    /\ tmo[t] = "zero"
    /\ pc' = [pc EXCEPT ![t] = "idle"]
    /\ UNCHANGED <<tmo, owed, mutexVars, spinByte, spinVars>>

MaySpin == spMask # Slot /\ spNfail < SpinThreshold

LockSpin(t) ==
    /\ pc[t] = "lock"
    /\ locked = 1
    /\ tmo[t] # "zero"
    /\ MaySpin
    /\ spMask' = spMask \cup {Lowest(Slot \ spMask)}
    /\ slot' = [slot EXCEPT ![t] = Lowest(Slot \ spMask)]
    /\ budget' = [budget EXCEPT ![t] = (SpinThreshold - spNfail) * SpinUnit]
    /\ pc' = [pc EXCEPT ![t] = "spin"]
    /\ UNCHANGED <<tmo, owed, locked, spNfail, nsleep, spinByte>>

LockSleep(t) ==
    /\ pc[t] = "lock"
    /\ tmo[t] # "zero"
    /\ ~MaySpin
    /\ GoToSleep(t, {})

-----------------------------------------------------------------------------
(* The spinning loop *)

(***************************************************************************)
(* One turn: the thread exchanges its byte with zero, and goes on spinning *)
(* when nobody has set it.                                                 *)
(***************************************************************************)
SpinTurn(t) ==
    /\ pc[t] = "spin"
    /\ budget[t] > 0
    /\ slot[t] # 0
    /\ budget' = [budget EXCEPT ![t] = @ - 1]
    /\ spinByte' = [spinByte EXCEPT ![slot[t]] = 0]
    /\ pc' = [pc EXCEPT ![t] = IF spinByte[slot[t]] = 0 THEN "spin" ELSE "retry"]
    /\ UNCHANGED <<tmo, owed, mutexVars, slot>>

(***************************************************************************)
(* The thread has been notified.  It leaves its bit in the mask, since the *)
(* notifier has cleared it.                                                *)
(***************************************************************************)
RetryAcquire(t) == pc[t] = "retry" /\ TakeLock(t, {})

RetryRelocate(t) ==
    /\ pc[t] = "retry"
    /\ locked = 1
    /\ spMask # Slot
    /\ spMask' = spMask \cup {Lowest(Slot \ spMask)}
    /\ slot' = [slot EXCEPT ![t] = Lowest(Slot \ spMask)]
    /\ pc' = [pc EXCEPT ![t] = "spin"]
    /\ UNCHANGED <<tmo, owed, locked, spNfail, nsleep, spinByte, budget>>

RetryStop(t) ==
    /\ pc[t] = "retry"
    /\ locked = 1
    /\ spMask = Slot
    /\ slot' = [slot EXCEPT ![t] = 0]
    /\ pc' = [pc EXCEPT ![t] = "spin"]
    /\ UNCHANGED <<tmo, owed, mutexVars, spinByte, budget>>

(***************************************************************************)
(* The loop is over; the thread gives back the bit it believes it holds.   *)
(* The sleeping count may grow only while the mutex is locked.             *)
(***************************************************************************)
SpinOver(t) == pc[t] = "spin" /\ (budget[t] = 0 \/ slot[t] = 0)

GiveUpAcquire(t) == SpinOver(t) /\ TakeLock(t, {slot[t]})

GiveUpSleep(t) == SpinOver(t) /\ GoToSleep(t, {slot[t]})

-----------------------------------------------------------------------------
(* The sleeping loop *)

(***************************************************************************)
(* After a timeout the thread gives its sleeping count back and fails ...  *)
(***************************************************************************)
LeaveCounted(t) ==
    /\ pc[t] = "leave"
    /\ nsleep > 0
    /\ nsleep' = nsleep - 1
    /\ pc' = [pc EXCEPT ![t] = "idle"]
    /\ tmo' = [tmo EXCEPT ![t] = "zero"]
    /\ UNCHANGED <<owed, locked, spMask, spNfail, spinByte, spinVars>>

\* Fault: the thread fails without waiting for the release.
LeaveAnyway(t) ==
    /\ pc[t] = "leave"
    /\ nsleep = 0
    /\ pc' = [pc EXCEPT ![t] = "idle"]
    /\ tmo' = [tmo EXCEPT ![t] = "zero"]
    /\ UNCHANGED <<owed, mutexVars, spinByte, spinVars>>

(***************************************************************************)
(* ... unless an unlocker has taken the last count and owes a release.     *)
(***************************************************************************)
LeaveOwed(t) ==
    /\ pc[t] = "leave"
    /\ nsleep = 0
    /\ pc' = [pc EXCEPT ![t] = "poll"]
    /\ UNCHANGED <<tmo, owed, mutexVars, spinByte, spinVars>>

WaitTimeout(t) ==
    /\ WaitTimesOut(t) \/ PollTimesOut(t)
    /\ UNCHANGED <<mutexVars, spinByte, spinVars>>

(***************************************************************************)
(* A woken thread adjusts its timeout and starts over.                     *)
(***************************************************************************)
Wakeup(w, r) ==
    /\ Handoff(w, r, "lock", Adjusted(tmo[w]))
    /\ UNCHANGED <<mutexVars, spinByte, spinVars>>

-----------------------------------------------------------------------------
(* _MCF_mutex_unlock *)

\* Fault: a sleeper is woken only when there is no spinner.
UnlockWakesOneKind(t) ==
    LET wakeOne == IF nsleep = 0 \/ spMask # {} THEN 0 ELSE 1 IN
    /\ pc[t] = "hold"
    /\ locked' = 0
    /\ nsleep' = nsleep - wakeOne
    /\ owed' = [owed EXCEPT ![t] = wakeOne]
    /\ IF spMask = {}
       THEN /\ pc' = [pc EXCEPT ![t] = IF wakeOne = 1 THEN "release" ELSE "idle"]
            /\ UNCHANGED <<spMask, slot>>
       ELSE /\ pc' = [pc EXCEPT ![t] = "notify"]
            /\ spMask' = spMask \ {Lowest(spMask)}
            /\ slot' = [slot EXCEPT ![t] = Lowest(spMask)]
    /\ UNCHANGED <<tmo, spNfail, spinByte, budget>>

(***************************************************************************)
(* One exchange frees the mutex, takes the lowest spinner off the mask and *)
(* one sleeper off the count.                                              *)
(***************************************************************************)
Unlock(t) ==
    LET wakeOne == IF nsleep = 0 THEN 0 ELSE 1 IN
    /\ pc[t] = "hold"
    /\ locked' = 0
    /\ nsleep' = nsleep - wakeOne
    /\ owed' = [owed EXCEPT ![t] = wakeOne]
    /\ IF spMask = {}
       THEN /\ pc' = [pc EXCEPT ![t] = IF wakeOne = 1 THEN "release" ELSE "idle"]
            /\ UNCHANGED <<spMask, slot>>
       ELSE /\ pc' = [pc EXCEPT ![t] = "notify"]
            /\ spMask' = spMask \ {Lowest(spMask)}
            /\ slot' = [slot EXCEPT ![t] = Lowest(spMask)]
    /\ UNCHANGED <<tmo, spNfail, spinByte, budget>>

(***************************************************************************)
(* The byte of that spinner is set after the exchange.                     *)
(***************************************************************************)
Notify(t) ==
    /\ pc[t] = "notify"
    /\ spinByte' = [spinByte EXCEPT ![slot[t]] = 1]
    /\ slot' = [slot EXCEPT ![t] = 0]
    /\ pc' = [pc EXCEPT ![t] = IF owed[t] = 0 THEN "idle" ELSE "release"]
    /\ UNCHANGED <<tmo, owed, mutexVars, budget>>

(***************************************************************************)
(* Another mutex hashes to the same bytes: its spinners reset them and its *)
(* unlockers set them.                                                     *)
(***************************************************************************)
Collide(s) ==
    /\ spinByte' = [spinByte EXCEPT ![s] = 1 - @]
    /\ UNCHANGED <<pc, tmo, owed, mutexVars, spinVars>>

-----------------------------------------------------------------------------

Step(t) ==
    \/ LockAcquire(t) \/ LockFail(t) \/ LockSpin(t) \/ LockSleep(t)
    \/ SpinTurn(t) \/ RetryAcquire(t) \/ RetryRelocate(t) \/ RetryStop(t)
    \/ GiveUpAcquire(t) \/ GiveUpSleep(t)
    \/ LeaveCounted(t) \/ LeaveOwed(t) \/ WaitTimeout(t)
    \/ Notify(t)

Next ==
    \/ \E t \in Thread : CallLock(t) \/ Step(t) \/ Unlock(t)
    \/ \E w, r \in Thread : Wakeup(w, r)
    \/ \E s \in Slot : Collide(s)

Spec == Init /\ [][Next]_vars

-----------------------------------------------------------------------------
(* Safety *)

TypeOK ==
    /\ pc \in [Thread -> PC]
    /\ tmo \in [Thread -> TimeoutKind]
    /\ owed \in [Thread -> 0..1]
    /\ locked \in 0..1
    /\ spMask \in SUBSET Slot
    /\ spNfail \in 0..NFailMax
    /\ nsleep \in Nat
    /\ spinByte \in [Slot -> 0..1]
    /\ slot \in [Thread -> 0..NSlot]
    /\ budget \in [Thread -> 0..SpinThreshold * SpinUnit]

Holders == {t \in Thread : pc[t] = "hold"}

(***************************************************************************)
(* __locked is 1 exactly while one thread is between a lock that returned  *)
(* 0 and its unlock, whichever of the three ways into the mutex it took.   *)
(***************************************************************************)
MutualExclusion ==
    /\ locked = 1 <=> Holders # {}
    /\ \A t, u \in Holders : t = u

(***************************************************************************)
(* A free mutex never leaves its sleepers behind: as long as anybody       *)
(* sleeps on it, some thread is on its way to lock it or owes a release.   *)
(* This is the "IMPORTANT!" comment of _MCF_mutex_lock_slow.               *)
(***************************************************************************)
NoLostWakeup ==
    locked = 0 /\ Asleep # {} =>
        \E t \in Thread : pc[t] \in {"lock", "spin", "retry"} \/ owed[t] > 0

(***************************************************************************)
(* The mutex is a lock with timeouts: it excludes, it fails only a call    *)
(* that has a timeout, and a call that does not wait fails only while      *)
(* another thread holds the mutex.                                         *)
(***************************************************************************)
Calls ==
    [t \in Thread |-> IF pc[t] \in {"idle", "hold", "notify", "release"}
                      THEN "none" ELSE CallKindOf(tmo[t])]

TL == INSTANCE TimedLock WITH call <- Calls, holders <- Holders

IsTimedLock == TL!Spec

-----------------------------------------------------------------------------
(* Liveness *)

(***************************************************************************)
(* Every thread is scheduled and timeouts expire.  A release is repeated   *)
(* until it is taken and stays queued meanwhile, so a wait that keeps      *)
(* coming back finds it: strong fairness.  A holder unlocks in the end.    *)
(***************************************************************************)
Fairness ==
    \A t \in Thread :
        /\ WF_vars(Step(t))
        /\ WF_vars(Unlock(t))
        /\ SF_vars(\E w \in Thread : Wakeup(w, t))

FairSpec == Spec /\ Fairness

(***************************************************************************)
(* An unlocker that owes a release gets rid of it, although the sleeper it *)
(* took off the count may time out, or be replaced by one that comes late. *)
(***************************************************************************)
UnlockReturns == \A t \in Thread : pc[t] = "release" ~> pc[t] = "idle"

(***************************************************************************)
(* While somebody waits for the mutex without a timeout, somebody gets it. *)
(***************************************************************************)
Wanting(t) == pc[t] \in {"lock", "spin", "retry", "wait"} /\ tmo[t] = "inf"

SomebodyLocks == (\E t \in Thread : Wanting(t)) ~> Holders # {}
=============================================================================
