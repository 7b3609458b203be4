----------------------------- MODULE SharedMutex ----------------------------
(***************************************************************************)
(* _MCF_shared_mutex: shared_mutex.h and src/shared_mutex.c.  The inline   *)
(* functions try once on the mutex as a word, and call the slow functions, *)
(* which know its fields, when that is not enough.                         *)
(***************************************************************************)
EXTENDS CountedWait

CONSTANTS
    ShareValues,    \* how many values __nshare, of 14 bits, can have: 2^14
    WordValues      \* how many values uint32_t can have: 2^32

ASSUME WidthAssumption ==
    /\ ShareValues \in Nat /\ ShareValues > 2 /\ WordValues \in Nat
    /\ \E n \in ShareValues .. WordValues : WordValues = n * ShareValues

VARIABLES
    nshare,     \* the field of the mutex beside __nsleep
    mode        \* what each thread's last call asked for

mutexVars == <<nshare, nsleep>>
sharedVars == <<pc, tmo, owed, mutexVars, mode>>

(***************************************************************************)
(* __nshare of a mutex in exclusive mode, 0x3FFF, and below that its limit *)
(* __MCF_SHARED_MUTEX_MAX_SHARE.                                           *)
(***************************************************************************)
Exclusively == ShareValues - 1

MaxShare == Exclusively - 1

SharedPC == {"idle", "fast", "lock", "hold"} \cup KernelPC

SharedInit ==
    /\ pc = [t \in Thread |-> "idle"]
    /\ tmo = [t \in Thread |-> "zero"]
    /\ owed = [t \in Thread |-> 0]
    /\ nshare = 0 /\ nsleep = 0
    /\ mode = [t \in Thread |-> "shared"]

-----------------------------------------------------------------------------
(* The inline functions *)

(***************************************************************************)
(* The fields as one word, with __nshare in its lower bits.                *)
(***************************************************************************)
Bits == nshare + ShareValues * nsleep

(***************************************************************************)
(* `n & mask`, where mask consists of a number of lowest bits.             *)
(***************************************************************************)
LowMasked(n, mask) == n % (mask + 1)

Store(bits) ==
    /\ nshare' = bits % ShareValues
    /\ nsleep' = bits \div ShareValues

\* Fault: a writer unlocks like a reader.
OneShareLess(bits) == bits - 1

(***************************************************************************)
(* A reader takes one off; for a writer the mask is zero.  The word is not *)
(* larger than Exclusively: their difference is zero or wraps around.      *)
(***************************************************************************)
Unlocked(bits) ==
    LowMasked(bits - 1, ((bits - Exclusively) % WordValues) \div ShareValues)

(***************************************************************************)
(* _MCF_shared_mutex_lock_shared and _MCF_shared_mutex_lock_exclusive      *)
(***************************************************************************)
CallLock(t) ==
    /\ Enters(t, "fast")
    /\ \E m \in {"shared", "exclusive"} : mode' = [mode EXCEPT ![t] = m]
    /\ UNCHANGED mutexVars

ShareFast(t) ==
    /\ pc[t] = "fast" /\ mode[t] = "shared"
    /\ Bits < MaxShare
    /\ Store(Bits + 1)
    /\ Returns(t, "hold")
    /\ UNCHANGED mode

LockFast(t) ==
    /\ pc[t] = "fast" /\ mode[t] = "exclusive"
    /\ LowMasked(Bits, Exclusively) = 0
    /\ Store(Bits + Exclusively)
    /\ Returns(t, "hold")
    /\ UNCHANGED mode

(***************************************************************************)
(* Also when somebody else changes the word meanwhile.                     *)
(***************************************************************************)
LockSlowly(t) ==
    /\ pc[t] = "fast"
    /\ pc' = [pc EXCEPT ![t] = "lock"]
    /\ UNCHANGED <<tmo, owed, mutexVars, mode>>

(***************************************************************************)
(* _MCF_shared_mutex_unlock                                                *)
(***************************************************************************)
UnlockFast(t) ==
    /\ pc[t] = "hold"
    /\ Bits <= Exclusively
    /\ Store(Unlocked(Bits))
    /\ BeginsRelease(t, 0)
    /\ UNCHANGED mode

-----------------------------------------------------------------------------
(* _MCF_shared_mutex_lock_shared_slow and _MCF_shared_mutex_lock_exclusive_slow *)

\* Fault: readers do not make way for sleepers.
ShareAnyway == nshare < MaxShare

(***************************************************************************)
(* Sleepers keep new readers out, since one of them may want to write.     *)
(***************************************************************************)
CanShare == nshare < MaxShare /\ nsleep = 0

CanGrant(t) == IF mode[t] = "shared" THEN CanShare ELSE nshare = 0

LockGrant(t) ==
    /\ pc[t] = "lock"
    /\ CanGrant(t)
    /\ nshare' = IF mode[t] = "shared" THEN nshare + 1 ELSE Exclusively
    /\ Returns(t, "hold")
    /\ UNCHANGED <<nsleep, mode>>

LockFail(t) ==
    /\ pc[t] = "lock"
    /\ ~CanGrant(t)
    /\ tmo[t] = "zero"
    /\ Returns(t, "idle")
    /\ UNCHANGED <<mutexVars, mode>>

LockSleep(t) ==
    /\ pc[t] = "lock"
    /\ ~CanGrant(t)
    /\ tmo[t] # "zero"
    /\ nsleep' = nsleep + 1
    /\ Sleeps(t)
    /\ UNCHANGED <<nshare, mode>>

LockLeaveCounted(t) ==
    /\ pc[t] = "leave"
    /\ nsleep > 0
    /\ nsleep' = nsleep - 1
    /\ Returns(t, "idle")
    /\ UNCHANGED <<nshare, mode>>

LockLeaveOwed(t) ==
    /\ nsleep = 0
    /\ AwaitsRelease(t)
    /\ UNCHANGED <<mutexVars, mode>>

LockTimeout(t) ==
    /\ WaitTimesOut(t) \/ PollTimesOut(t)
    /\ UNCHANGED <<mutexVars, mode>>

LockWakeup(w, r) ==
    /\ Handoff(w, r, "lock", Adjusted(tmo[w]))
    /\ UNCHANGED <<mutexVars, mode>>

-----------------------------------------------------------------------------
(* _MCF_shared_mutex_unlock_slow *)

\* Fault: the released threads stay on the count.
UnlockKeepsCount(t) ==
    LET left == IF nshare = Exclusively THEN 0 ELSE nshare - 1
    IN  /\ pc[t] = "hold"
        /\ nshare' = left
        /\ BeginsRelease(t, IF left = 0 THEN nsleep ELSE 0)
        /\ UNCHANGED <<nsleep, mode>>

(***************************************************************************)
(* The writer or the last reader wakes everybody.                          *)
(***************************************************************************)
Unlock(t) ==
    LET left == IF nshare = Exclusively THEN 0 ELSE nshare - 1
        wakeNum == IF left = 0 THEN nsleep ELSE 0
    IN  /\ pc[t] = "hold"
        /\ nshare' = left
        /\ nsleep' = nsleep - wakeNum
        /\ BeginsRelease(t, wakeNum)
        /\ UNCHANGED mode

LockStep(t) ==
    \/ ShareFast(t) \/ LockFast(t) \/ LockSlowly(t)
    \/ LockGrant(t) \/ LockFail(t) \/ LockSleep(t)
    \/ LockLeaveCounted(t) \/ LockLeaveOwed(t) \/ LockTimeout(t)

SharedNext ==
    \/ \E t \in Thread : CallLock(t) \/ LockStep(t) \/ UnlockFast(t) \/ Unlock(t)
    \/ \E w, r \in Thread : LockWakeup(w, r)

SharedSpec == SharedInit /\ [][SharedNext]_sharedVars

-----------------------------------------------------------------------------

SharedTypeOK ==
    /\ pc \in [Thread -> SharedPC]
    /\ tmo \in [Thread -> TimeoutKind]
    /\ owed \in [Thread -> Nat]
    /\ nshare \in 0..Exclusively
    /\ nsleep \in Nat
    /\ mode \in [Thread -> {"shared", "exclusive"}]

Holding(m) == {t \in Thread : pc[t] = "hold" /\ mode[t] = m}

(***************************************************************************)
(* A writer excludes everybody, readers exclude writers only, and there    *)
(* are never more than __MCF_SHARED_MUTEX_MAX_SHARE of them.  No call      *)
(* fails on a free mutex; a reader that does not wait is refused beside    *)
(* readers only at that limit or for the sake of a thread that waits,      *)
(* where shared_mutex.h:46-47 would let it in.                             *)
(***************************************************************************)
Calls ==
    [t \in Thread |-> IF pc[t] \in {"fast", "lock", "wait", "leave", "poll"}
                      THEN CallKindOf(tmo[t]) ELSE "none"]

SL == INSTANCE SharedLock
        WITH MaxReaders <- MaxShare, call <- Calls, readers <- Holding("shared"),
             writers <- Holding("exclusive")

IsSharedLock == SL!Spec

(***************************************************************************)
(* Every thread is scheduled, timeouts expire, holders unlock, and a       *)
(* release stays queued until it is taken.                                 *)
(***************************************************************************)
SharedFairness ==
    \A t \in Thread :
        /\ WF_sharedVars(LockStep(t))
        /\ WF_sharedVars(UnlockFast(t) \/ Unlock(t))
        /\ SF_sharedVars(\E w \in Thread : LockWakeup(w, t))

SharedFairSpec == SharedSpec /\ SharedFairness

(***************************************************************************)
(* Readers that take turns do not shut out a sleeping writer: either the   *)
(* mutex is free at some time or the sleeper is woken to look again.       *)
(***************************************************************************)
ReadersDrain ==
    \A t \in Thread :
        (pc[t] = "wait" /\ tmo[t] = "inf") ~> (nshare = 0 \/ pc[t] = "lock")
=============================================================================
