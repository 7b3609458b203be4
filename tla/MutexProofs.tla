---------------------------- MODULE MutexProofs -----------------------------
(***************************************************************************)
(* Proofs about _MCF_mutex, for any finite set of threads, any number of   *)
(* spinning slots and any spinning parameters.                             *)
(***************************************************************************)
EXTENDS Mutex, FiniteSetTheorems, WellFoundedInduction, TLAPS

(***************************************************************************)
(* A set of slots that is not empty has a lowest member.                   *)
(***************************************************************************)
LEMMA LowestInSet ==
  ASSUME NEW S \in SUBSET Slot, S # {}
  PROVE  Lowest(S) \in S
<1>1. S \subseteq Nat
  BY SpinParameters DEF Slot
<1>2. PICK x \in S : \A y \in S : <<y, x>> \notin OpToRel(<, Nat)
  BY <1>1, NatLessThanWellFounded, WFMin
<1>3. ASSUME NEW y \in S PROVE x <= y
  <2>1. x \in Nat /\ y \in Nat
    BY <1>1
  <2>2. ~(y < x)
    BY <1>2, <2>1 DEF OpToRel
  <2>3. QED BY <2>1, <2>2
<1>4. QED BY <1>3 DEF Lowest

LEMMA LowestFree ==
  ASSUME NEW S \in SUBSET Slot, S # Slot
  PROVE  Lowest(Slot \ S) \in Slot \ S
<1>1. Slot \ S \in SUBSET Slot /\ Slot \ S # {}
  OBVIOUS
<1>2. QED BY <1>1, LowestInSet

(***************************************************************************)
(* Updating a function, inside or outside its domain, keeps its type.      *)
(***************************************************************************)
LEMMA UpdateTyped ==
  ASSUME NEW S, NEW T, NEW f \in [S -> T], NEW x, NEW v \in T
  PROVE  [f EXCEPT ![x] = v] \in [S -> T]
<1>1. [f EXCEPT ![x] = v] = [y \in S |-> IF y = x THEN v ELSE f[y]]
  OBVIOUS
<1>2. QED BY <1>1

(***************************************************************************)
(* The arithmetic of the two counters stays in range.                      *)
(***************************************************************************)
LEMMA FailuresInRange ==
  ASSUME NEW n \in 0..NFailMax
  PROVE  OneMoreFailure(n) \in 0..NFailMax /\ OneLessFailure(n) \in 0..NFailMax
BY SpinParameters DEF OneMoreFailure, OneLessFailure

LEMMA BudgetInRange ==
  ASSUME NEW n \in 0..NFailMax, n < SpinThreshold
  PROVE  (SpinThreshold - n) * SpinUnit \in 0..SpinThreshold * SpinUnit
<1>1. /\ SpinThreshold \in Nat /\ SpinUnit \in Nat
      /\ SpinThreshold - n \in Nat /\ SpinThreshold - n <= SpinThreshold
  BY SpinParameters
<1>2. \A a, b, c \in Nat : a <= b => a * c \in Nat /\ b * c \in Nat /\ a * c <= b * c
  OBVIOUS
<1>3. QED BY <1>1, <1>2

LEMMA BudgetStays ==
  ASSUME NEW b \in 0..SpinThreshold * SpinUnit, b > 0
  PROVE  b - 1 \in 0..SpinThreshold * SpinUnit
<1>1. SpinThreshold * SpinUnit \in Nat
  BY SpinParameters
<1>2. QED BY <1>1

LEMMA NoBudgetInRange == 0 \in 0..SpinThreshold * SpinUnit
<1>1. SpinThreshold * SpinUnit \in Nat
  BY SpinParameters
<1>2. QED BY <1>1

-----------------------------------------------------------------------------

(***************************************************************************)
(* A thread owes a release only on its way out of an unlock, and then one. *)
(***************************************************************************)
OwesInUnlock ==
    \A t \in Thread :
        /\ pc[t] = "release" => owed[t] = 1
        /\ pc[t] \notin {"notify", "release"} => owed[t] = 0

TInv == TypeOK /\ OwesInUnlock

LEMMA TakeLockTyped ==
  ASSUME TInv, NEW t \in Thread, NEW given, TakeLock(t, given),
         pc[t] \in {"lock", "retry", "spin"}
  PROVE  TInv'
<1>1. spNfail' \in 0..NFailMax /\ spMask' \in SUBSET Slot
  BY FailuresInRange DEF TInv, TypeOK, TakeLock
<1>2. slot' \in [Thread -> 0..NSlot]
  BY SpinParameters DEF TInv, TypeOK, TakeLock
<1>3. budget' \in [Thread -> 0..SpinThreshold * SpinUnit]
  BY NoBudgetInRange DEF TInv, TypeOK, TakeLock
<1>4. /\ pc' \in [Thread -> PC] /\ OwesInUnlock'
      /\ tmo' \in [Thread -> TimeoutKind]
  BY DEF TInv, OwesInUnlock, TypeOK, TakeLock, PC, KernelPC, TimeoutKind
<1>5. QED BY <1>1, <1>2, <1>3, <1>4 DEF TInv, TypeOK, TakeLock

LEMMA GoToSleepTyped ==
  ASSUME TInv, NEW t \in Thread, NEW given, GoToSleep(t, given),
         pc[t] \in {"lock", "spin"}
  PROVE  TInv'
<1>1. spNfail' \in 0..NFailMax /\ nsleep' \in Nat /\ spMask' \in SUBSET Slot
  BY FailuresInRange DEF TInv, TypeOK, GoToSleep
<1>2. slot' \in [Thread -> 0..NSlot]
  BY SpinParameters DEF TInv, TypeOK, GoToSleep
<1>3. budget' \in [Thread -> 0..SpinThreshold * SpinUnit]
  BY NoBudgetInRange DEF TInv, TypeOK, GoToSleep
<1>4. pc' \in [Thread -> PC] /\ OwesInUnlock'
  BY DEF TInv, OwesInUnlock, TypeOK, GoToSleep, PC, KernelPC
<1>5. QED BY <1>1, <1>2, <1>3, <1>4 DEF TInv, TypeOK, GoToSleep

LEMMA TInvHolds == Spec => []TInv
<1>1. Init => TInv
  BY SpinParameters, NoBudgetInRange
     DEF Init, TInv, OwesInUnlock, TypeOK, PC, TimeoutKind
<1>2. TInv /\ [Next]_vars => TInv'
  <2> SUFFICES ASSUME TInv, [Next]_vars PROVE TInv'
    OBVIOUS
  <2> USE DEF PC, KernelPC, TimeoutKind, mutexVars, spinVars, TInv, OwesInUnlock
  <2>1. ASSUME NEW t \in Thread, CallLock(t) PROVE TInv'
    BY <2>1 DEF CallLock, TypeOK
  <2>2. ASSUME NEW t \in Thread, LockAcquire(t) \/ RetryAcquire(t) \/ GiveUpAcquire(t)
        PROVE  TInv'
    BY <2>2, TakeLockTyped DEF LockAcquire, RetryAcquire, GiveUpAcquire, SpinOver
  <2>3. ASSUME NEW t \in Thread, LockSleep(t) \/ GiveUpSleep(t)
        PROVE  TInv'
    BY <2>3, GoToSleepTyped DEF LockSleep, GiveUpSleep, SpinOver
  <2>4. ASSUME NEW t \in Thread, LockFail(t) PROVE TInv'
    BY <2>4 DEF LockFail, TypeOK
  <2>5. ASSUME NEW t \in Thread, LockSpin(t) PROVE TInv'
    <3>1. Lowest(Slot \ spMask) \in Slot
      BY <2>5, LowestFree DEF LockSpin, MaySpin, TypeOK
    <3>2. (SpinThreshold - spNfail) * SpinUnit \in 0..SpinThreshold * SpinUnit
      BY <2>5, BudgetInRange DEF LockSpin, MaySpin, TypeOK
    <3>3. Lowest(Slot \ spMask) \in 0..NSlot
      BY <3>1, SpinParameters DEF Slot
    <3>4. QED BY <2>5, <3>1, <3>2, <3>3 DEF LockSpin, TypeOK
  <2>6. ASSUME NEW t \in Thread, SpinTurn(t) PROVE TInv'
    <3>1. budget[t] - 1 \in 0..SpinThreshold * SpinUnit
      BY <2>6, BudgetStays DEF SpinTurn, TypeOK
    <3>2. QED BY <2>6, <3>1 DEF SpinTurn, TypeOK
  <2>7. ASSUME NEW t \in Thread, RetryRelocate(t) PROVE TInv'
    <3>1. Lowest(Slot \ spMask) \in Slot
      BY <2>7, LowestFree DEF RetryRelocate, TypeOK
    <3>2. Lowest(Slot \ spMask) \in 0..NSlot
      BY <3>1, SpinParameters DEF Slot
    <3>3. QED BY <2>7, <3>1, <3>2 DEF RetryRelocate, TypeOK
  <2>8. ASSUME NEW t \in Thread, RetryStop(t) PROVE TInv'
    BY <2>8, SpinParameters DEF RetryStop, TypeOK
  <2>9. ASSUME NEW t \in Thread, LeaveCounted(t) \/ LeaveOwed(t) PROVE TInv'
    BY <2>9 DEF LeaveCounted, LeaveOwed, TypeOK
  <2>10. ASSUME NEW t \in Thread, WaitTimeout(t) PROVE TInv'
    BY <2>10 DEF WaitTimeout, WaitTimesOut, PollTimesOut, TypeOK
  <2>11. ASSUME NEW t \in Thread, Notify(t) PROVE TInv'
    <3>0. slot' \in [Thread -> 0..NSlot]
      BY <2>11, SpinParameters DEF Notify, TypeOK
    <3>1. spinByte' \in [Slot -> 0..1]
      <4>1. spinByte' = [spinByte EXCEPT ![slot[t]] = 1]
        BY <2>11 DEF Notify
      <4>2. spinByte \in [Slot -> 0..1]
        BY DEF TypeOK
      <4>3. [spinByte EXCEPT ![slot[t]] = 1] \in [Slot -> 0..1]
        <5>1. 1 \in 0..1
          OBVIOUS
        <5>2. QED BY <4>2, <5>1, UpdateTyped, Zenon
      <4>4. QED BY <4>1, <4>3
    <3>2. pc' \in [Thread -> PC] /\ OwesInUnlock'
      BY <2>11 DEF Notify, TypeOK
    <3>3. QED BY <2>11, <3>0, <3>1, <3>2 DEF Notify, TypeOK
  <2>12. ASSUME NEW t \in Thread, Unlock(t) PROVE TInv'
    <3>1. spMask # {} => Lowest(spMask) \in Slot
      BY LowestInSet DEF TypeOK
    <3>2. spMask # {} => Lowest(spMask) \in 0..NSlot
      BY <3>1, SpinParameters DEF Slot
    <3>3. QED BY <2>12, <3>2 DEF Unlock, TypeOK
  <2>13. ASSUME NEW w \in Thread, NEW r \in Thread, Wakeup(w, r) PROVE TInv'
    <3>1. w # r
      BY <2>13 DEF Wakeup, Handoff, Parked
    <3>2. owed' = [owed EXCEPT ![r] = 0] /\ owed[r] = 1 /\ owed[w] = 0
      <4>1. owed[r] = 1 /\ owed[w] = 0
        BY <2>13 DEF Wakeup, Handoff, Parked
      <4>2. owed' = [owed EXCEPT ![r] = owed[r] - 1]
        BY <2>13 DEF Wakeup, Handoff
      <4>3. QED BY <4>1, <4>2
    <3>3. pc' = [pc EXCEPT ![w] = "lock", ![r] = "idle"]
      BY <2>13, <3>1, <3>2 DEF Wakeup, Handoff, TypeOK
    <3>4. tmo' \in [Thread -> TimeoutKind]
      BY <2>13 DEF Wakeup, Handoff, Adjusted, TypeOK
    <3>5. OwesInUnlock'
      BY <3>1, <3>2, <3>3 DEF TypeOK
    <3>6. QED BY <2>13, <3>2, <3>3, <3>4, <3>5 DEF Wakeup, TypeOK
  <2>14. ASSUME NEW s \in Slot, Collide(s) PROVE TInv'
    BY <2>14 DEF Collide, TypeOK
  <2>15. CASE UNCHANGED vars
    BY <2>15 DEF vars, TypeOK
  <2>16. QED
    BY <2>1, <2>2, <2>3, <2>4, <2>5, <2>6, <2>7, <2>8, <2>9, <2>10, <2>11,
       <2>12, <2>13, <2>14, <2>15 DEF Next, Step
<1>3. QED BY <1>1, <1>2, PTL DEF Spec

(***************************************************************************)
(* The state of the mutex and of its threads is well typed.                *)
(***************************************************************************)
THEOREM TypeCorrect == Spec => []TypeOK
BY TInvHolds, PTL DEF TInv

-----------------------------------------------------------------------------

LEMMA InitExcludes == Init => MutualExclusion
BY DEF Init, MutualExclusion, Holders

(***************************************************************************)
(* Steps that leave __locked alone and move nobody into or out of the      *)
(* critical section.                                                       *)
(***************************************************************************)
LEMMA HoldersKept ==
  ASSUME MutualExclusion, locked' = locked,
         \A t \in Thread : pc'[t] = "hold" <=> pc[t] = "hold"
  PROVE  MutualExclusion'
BY DEF MutualExclusion, Holders

LEMMA TakeLockExcludes ==
  ASSUME TypeOK, MutualExclusion,
         NEW t \in Thread, NEW given, TakeLock(t, given)
  PROVE  MutualExclusion'
<1>1. Holders = {} /\ locked' = 1
  BY DEF TakeLock, MutualExclusion
<1>2. Holders' = {t}
  BY <1>1 DEF TakeLock, Holders, TypeOK
<1>3. QED BY <1>1, <1>2 DEF MutualExclusion

LEMMA UnlockExcludes ==
  ASSUME TypeOK, MutualExclusion, NEW t \in Thread, Unlock(t)
  PROVE  MutualExclusion'
<1>1. t \in Holders /\ locked' = 0
  BY DEF Unlock, Holders
<1>2. pc'[t] # "hold" /\ \A u \in Thread : u # t => pc'[u] = pc[u]
  BY DEF Unlock, TypeOK
<1>3. Holders' = {}
  BY <1>1, <1>2 DEF MutualExclusion, Holders
<1>4. QED BY <1>1, <1>3 DEF MutualExclusion

(***************************************************************************)
(* __locked is 1 exactly while one thread holds the mutex.                 *)
(***************************************************************************)
THEOREM HoldersExclude == Spec => []MutualExclusion
<1>1. TypeOK /\ MutualExclusion /\ [Next]_vars => MutualExclusion'
  <2> SUFFICES ASSUME TypeOK, MutualExclusion, [Next]_vars PROVE MutualExclusion'
    OBVIOUS
  <2> USE DEF mutexVars, spinVars, TypeOK
  <2>1. ASSUME NEW t \in Thread, CallLock(t) PROVE MutualExclusion'
    BY <2>1, HoldersKept DEF CallLock
  <2>2. ASSUME NEW t \in Thread, LockAcquire(t) \/ RetryAcquire(t) \/ GiveUpAcquire(t)
        PROVE  MutualExclusion'
    BY <2>2, TakeLockExcludes DEF LockAcquire, RetryAcquire, GiveUpAcquire
  <2>3. ASSUME NEW t \in Thread, LockSleep(t) \/ GiveUpSleep(t)
        PROVE  MutualExclusion'
    <3>1. /\ locked' = locked
          /\ pc[t] \in {"lock", "spin"}
          /\ pc' = [pc EXCEPT ![t] = "wait"]
      BY <2>3 DEF LockSleep, GiveUpSleep, SpinOver, GoToSleep
    <3>2. QED BY <3>1, HoldersKept
  <2>4. ASSUME NEW t \in Thread, LockFail(t) \/ LockSpin(t) PROVE MutualExclusion'
    BY <2>4, HoldersKept DEF LockFail, LockSpin
  <2>5. ASSUME NEW t \in Thread, SpinTurn(t) \/ RetryRelocate(t) \/ RetryStop(t)
        PROVE  MutualExclusion'
    BY <2>5, HoldersKept DEF SpinTurn, RetryRelocate, RetryStop
  <2>6. ASSUME NEW t \in Thread, LeaveCounted(t) \/ LeaveOwed(t) \/ WaitTimeout(t)
        PROVE  MutualExclusion'
    BY <2>6, HoldersKept
       DEF LeaveCounted, LeaveOwed, WaitTimeout, WaitTimesOut, PollTimesOut
  <2>7. ASSUME NEW t \in Thread, Notify(t) PROVE MutualExclusion'
    BY <2>7, HoldersKept DEF Notify
  <2>8. ASSUME NEW t \in Thread, Unlock(t) PROVE MutualExclusion'
    BY <2>8, UnlockExcludes
  <2>9. ASSUME NEW w \in Thread, NEW r \in Thread, Wakeup(w, r) PROVE MutualExclusion'
    BY <2>9, HoldersKept DEF Wakeup, Handoff, Parked
  <2>10. ASSUME NEW s \in Slot, Collide(s) PROVE MutualExclusion'
    BY <2>10, HoldersKept DEF Collide
  <2>11. CASE UNCHANGED vars
    BY <2>11, HoldersKept DEF vars
  <2>12. QED
    BY <2>1, <2>2, <2>3, <2>4, <2>5, <2>6, <2>7, <2>8, <2>9, <2>10, <2>11
       DEF Next, Step
<1>2. QED BY <1>1, InitExcludes, TypeCorrect, PTL DEF Spec

-----------------------------------------------------------------------------

(***************************************************************************)
(* Steps that change neither the count, the debts nor the set of sleepers  *)
(* are invisible to SleepQueue.                                            *)
(***************************************************************************)
LEMMA SleepersKept ==
  ASSUME nsleep' = nsleep, owed' = owed,
         \A t \in Thread : pc'[t] \in {"wait", "leave", "poll"}
                           <=> pc[t] \in {"wait", "leave", "poll"}
  PROVE  UNCHANGED SQ!vars
BY DEF SQ!vars, Asleep

LEMMA TakeLockSleeps ==
  ASSUME TInv, NEW t \in Thread, NEW given, TakeLock(t, given),
         pc[t] \in {"lock", "retry", "spin"}
  PROVE  UNCHANGED SQ!vars
BY SleepersKept DEF TInv, TypeOK, TakeLock

LEMMA GoToSleepEnlists ==
  ASSUME TInv, NEW t \in Thread, NEW given, GoToSleep(t, given),
         pc[t] \in {"lock", "spin"}
  PROVE  SQ!Enlist(t)
<1>1. t \notin Asleep /\ owed[t] = 0
  BY DEF TInv, OwesInUnlock, Asleep
<1>2. Asleep' = Asleep \cup {t}
  BY DEF Asleep, TInv, TypeOK, GoToSleep
<1>3. QED BY <1>1, <1>2 DEF GoToSleep, SQ!Enlist

LEMMA UnlockWakes ==
  ASSUME TInv, NEW t \in Thread, Unlock(t)
  PROVE  (SQ!Wake(t, 1) /\ 1 \in 1..nsleep) \/ UNCHANGED SQ!vars
<1>1. t \notin Asleep /\ owed[t] = 0 /\ nsleep \in Nat
  BY DEF TInv, TypeOK, OwesInUnlock, Asleep, Unlock
<1>2. Asleep' = Asleep
  BY DEF Asleep, TInv, TypeOK, Unlock
<1>3. CASE nsleep = 0
  <2>1. owed' = owed /\ nsleep' = nsleep
    BY <1>1, <1>3 DEF Unlock, TInv, TypeOK
  <2>2. QED BY <1>2, <2>1 DEF SQ!vars
<1>4. CASE nsleep # 0
  <2>1. owed' = [owed EXCEPT ![t] = 1] /\ nsleep' = nsleep - 1
    BY <1>4 DEF Unlock
  <2>2. QED BY <1>1, <1>2, <1>4, <2>1 DEF SQ!Wake
<1>5. QED BY <1>3, <1>4

LEMMA WakeupMeets ==
  ASSUME TInv, NEW w \in Thread, NEW r \in Thread, Wakeup(w, r)
  PROVE  SQ!Meet(w, r)
<1>1. w \in Asleep /\ w # r /\ owed[r] = 1
  BY DEF TInv, OwesInUnlock, Wakeup, Handoff, Parked, Asleep
<1>2. pc' = [pc EXCEPT ![w] = "lock", ![r] = "idle"]
  BY <1>1 DEF Wakeup, Handoff
<1>3. Asleep' = Asleep \ {w}
  BY <1>1, <1>2 DEF TInv, TypeOK, Asleep, Wakeup, Handoff
<1>4. owed' = [owed EXCEPT ![r] = @ - 1] /\ nsleep' = nsleep
  BY DEF Wakeup, Handoff, mutexVars
<1>5. QED BY <1>1, <1>3, <1>4 DEF SQ!Meet

(***************************************************************************)
(* The sleeping count of the mutex follows the protocol of SleepQueue.     *)
(***************************************************************************)
THEOREM MutexSleepsProperly == Spec => SleepsProperly
<1>1. Init => SQ!Init
  BY DEF Init, SQ!Init, Asleep
<1>2. TInv /\ [Next]_vars => [SQ!Next]_(SQ!vars)
  <2> SUFFICES ASSUME TInv, [Next]_vars PROVE SQ!Next \/ UNCHANGED SQ!vars
    BY DEF SQ!vars
  <2> USE DEF mutexVars, spinVars
  <2>1. ASSUME NEW t \in Thread, CallLock(t) PROVE UNCHANGED SQ!vars
    BY <2>1, SleepersKept DEF CallLock, TInv, TypeOK
  <2>2. ASSUME NEW t \in Thread, LockAcquire(t) \/ RetryAcquire(t) \/ GiveUpAcquire(t)
        PROVE  UNCHANGED SQ!vars
    BY <2>2, TakeLockSleeps DEF LockAcquire, RetryAcquire, GiveUpAcquire, SpinOver
  <2>3. ASSUME NEW t \in Thread, LockSleep(t) \/ GiveUpSleep(t) PROVE SQ!Next
    <3>1. SQ!Enlist(t)
      BY <2>3, GoToSleepEnlists DEF LockSleep, GiveUpSleep, SpinOver
    <3>2. QED BY <3>1 DEF SQ!Next
  <2>4. ASSUME NEW t \in Thread, LockFail(t) \/ LockSpin(t)
        PROVE  UNCHANGED SQ!vars
    BY <2>4, SleepersKept DEF LockFail, LockSpin, TInv, TypeOK
  <2>5. ASSUME NEW t \in Thread, SpinTurn(t) \/ RetryRelocate(t) \/ RetryStop(t)
        PROVE  UNCHANGED SQ!vars
    BY <2>5, SleepersKept DEF SpinTurn, RetryRelocate, RetryStop, TInv, TypeOK
  <2>6. ASSUME NEW t \in Thread, LeaveCounted(t) PROVE SQ!Next
    <3>1. t \in Asleep /\ Asleep' = Asleep \ {t}
      BY <2>6 DEF LeaveCounted, TInv, TypeOK, Asleep
    <3>2. SQ!Depart(t)
      BY <2>6, <3>1 DEF LeaveCounted, SQ!Depart
    <3>3. QED BY <3>2 DEF SQ!Next
  <2>7. ASSUME NEW t \in Thread, LeaveOwed(t) \/ WaitTimeout(t)
        PROVE  UNCHANGED SQ!vars
    BY <2>7, SleepersKept
       DEF LeaveOwed, WaitTimeout, WaitTimesOut, PollTimesOut, TInv, TypeOK
  <2>8. ASSUME NEW t \in Thread, Notify(t) PROVE UNCHANGED SQ!vars
    BY <2>8, SleepersKept DEF Notify, TInv, TypeOK
  <2>9. ASSUME NEW t \in Thread, Unlock(t) PROVE SQ!Next \/ UNCHANGED SQ!vars
    BY <2>9, UnlockWakes DEF SQ!Next
  <2>10. ASSUME NEW w \in Thread, NEW r \in Thread, Wakeup(w, r) PROVE SQ!Next
    BY <2>10, WakeupMeets DEF SQ!Next
  <2>11. ASSUME NEW s \in Slot, Collide(s) PROVE UNCHANGED SQ!vars
    BY <2>11, SleepersKept DEF Collide
  <2>12. CASE UNCHANGED vars
    BY <2>12, SleepersKept DEF vars
  <2>13. QED
    BY <2>1, <2>2, <2>3, <2>4, <2>5, <2>6, <2>7, <2>8, <2>9, <2>10, <2>11,
       <2>12 DEF Next, Step
<1>3. QED BY <1>1, <1>2, TInvHolds, PTL DEF Spec, SleepsProperly, SQ!Spec

-----------------------------------------------------------------------------

(***************************************************************************)
(* The theorems of SleepQueue therefore hold of the mutex.                 *)
(***************************************************************************)
SQP == INSTANCE SleepQueueProofs WITH asleep <- Asleep

LEMMA SleepersCovered == Spec => []SQ!QuietIffEmpty /\ []SQ!ReleaserIsNeverStuck
<1> USE DEF SQ!Init, SQP!Init, SQ!vars, SQP!vars, SQ!Next, SQP!Next,
            SQ!Enlist, SQP!Enlist, SQ!Depart, SQP!Depart, SQ!Wake, SQP!Wake,
            SQ!Meet, SQP!Meet, SQ!Spec, SQP!Spec
<1>1. SQ!Spec => []SQ!QuietIffEmpty
  BY SQP!NobodyForgotten, PTL DEF SQ!QuietIffEmpty, SQP!QuietIffEmpty
<1>2. SQ!Spec => []SQ!ReleaserIsNeverStuck
  BY SQP!ReleaserFindsSleeper, PTL
     DEF SQ!ReleaserIsNeverStuck, SQP!ReleaserIsNeverStuck
<1> HIDE DEF SQ!Spec
<1>3. QED BY <1>1, <1>2, MutexSleepsProperly, PTL DEF SleepsProperly

(***************************************************************************)
(* NoLostWakeup speaks of all sleepers; what the steps preserve is the     *)
(* same for those that are still on the count.                             *)
(***************************************************************************)
SomebodyActs ==
    \E t \in Thread : pc[t] \in {"lock", "spin", "retry"} \/ owed[t] > 0

CountedAreServed == locked = 0 /\ nsleep > 0 => SomebodyActs

LEMMA ActorKept ==
  ASSUME CountedAreServed, locked' = locked, nsleep' <= nsleep, owed' = owed,
         nsleep \in Nat, nsleep' \in Nat,
         \A t \in Thread : pc[t] \in {"lock", "spin", "retry"}
                           => pc'[t] \in {"lock", "spin", "retry"}
  PROVE  CountedAreServed'
BY DEF CountedAreServed, SomebodyActs

LEMMA CountedServed == Spec => []CountedAreServed
<1>1. Init => CountedAreServed
  BY DEF Init, CountedAreServed
<1>2. TypeOK /\ TypeOK' /\ CountedAreServed /\ [Next]_vars => CountedAreServed'
  <2> SUFFICES ASSUME TypeOK, TypeOK', CountedAreServed, [Next]_vars
               PROVE  CountedAreServed'
    OBVIOUS
  <2>0. nsleep \in Nat /\ nsleep' \in Nat
    BY DEF TypeOK
  <2> USE DEF mutexVars, spinVars
  <2>1. ASSUME NEW t \in Thread, CallLock(t) PROVE CountedAreServed'
    BY <2>1 DEF CallLock, TypeOK, CountedAreServed, SomebodyActs
  <2>2. ASSUME NEW t \in Thread, LockAcquire(t) \/ RetryAcquire(t) \/ GiveUpAcquire(t)
        PROVE  CountedAreServed'
    BY <2>2 DEF LockAcquire, RetryAcquire, GiveUpAcquire, TakeLock, CountedAreServed
  <2>3. ASSUME NEW t \in Thread, LockSleep(t) \/ GiveUpSleep(t)
        PROVE  CountedAreServed'
    BY <2>3 DEF LockSleep, GiveUpSleep, GoToSleep, CountedAreServed
  <2>4. ASSUME NEW t \in Thread,
               LockFail(t) \/ LockSpin(t) \/ RetryRelocate(t) \/ RetryStop(t)
        PROVE  CountedAreServed'
    BY <2>4 DEF LockFail, LockSpin, RetryRelocate, RetryStop, CountedAreServed
  <2>5. ASSUME NEW t \in Thread, SpinTurn(t) PROVE CountedAreServed'
    BY <2>0, <2>5, ActorKept DEF SpinTurn, TypeOK
  <2>6. ASSUME NEW t \in Thread, LeaveCounted(t) PROVE CountedAreServed'
    BY <2>0, <2>6, ActorKept DEF LeaveCounted, TypeOK
  <2>7. ASSUME NEW t \in Thread, LeaveOwed(t) \/ WaitTimeout(t) \/ Notify(t)
        PROVE  CountedAreServed'
    BY <2>0, <2>7, ActorKept
       DEF LeaveOwed, WaitTimeout, WaitTimesOut, PollTimesOut, Notify, TypeOK
  <2>8. ASSUME NEW t \in Thread, Unlock(t) PROVE CountedAreServed'
    <3>1. nsleep' > 0 => owed'[t] = 1
      BY <2>0, <2>8 DEF Unlock, TypeOK
    <3>2. QED BY <3>1 DEF CountedAreServed, SomebodyActs
  <2>9. ASSUME NEW w \in Thread, NEW r \in Thread, Wakeup(w, r)
        PROVE  CountedAreServed'
    <3>1. pc'[w] = "lock"
      BY <2>9 DEF Wakeup, Handoff, Parked, TypeOK
    <3>2. QED BY <3>1 DEF CountedAreServed, SomebodyActs
  <2>10. ASSUME NEW s \in Slot, Collide(s) PROVE CountedAreServed'
    BY <2>0, <2>10, ActorKept DEF Collide
  <2>11. CASE UNCHANGED vars
    BY <2>0, <2>11, ActorKept DEF vars
  <2>12. QED
    BY <2>1, <2>2, <2>3, <2>4, <2>5, <2>6, <2>7, <2>8, <2>9, <2>10, <2>11
       DEF Next, Step
<1>3. QED BY <1>1, <1>2, TypeCorrect, PTL DEF Spec

(***************************************************************************)
(* A free mutex never leaves its sleepers behind.  A sleeper that is off   *)
(* the count has a release coming, and whoever owes it acts.               *)
(***************************************************************************)
THEOREM SleepersAreServed == Spec => []NoLostWakeup
<1>1. TypeOK /\ SQ!QuietIffEmpty /\ CountedAreServed => NoLostWakeup
  <2> SUFFICES ASSUME TypeOK, SQ!QuietIffEmpty, CountedAreServed,
                      locked = 0, Asleep # {}
               PROVE  SomebodyActs
    BY DEF NoLostWakeup, SomebodyActs
  <2>1. nsleep # 0 \/ \E t \in Thread : owed[t] # 0
    BY DEF SQ!QuietIffEmpty
  <2>2. CASE nsleep # 0
    BY <2>2 DEF CountedAreServed, TypeOK
  <2>3. CASE \E t \in Thread : owed[t] # 0
    BY <2>3 DEF SomebodyActs, TypeOK
  <2>4. QED BY <2>1, <2>2, <2>3
<1>2. QED BY <1>1, TypeCorrect, SleepersCovered, CountedServed, PTL

-----------------------------------------------------------------------------

(***************************************************************************)
(* Only a wait that has a timeout can be over before it is notified.       *)
(***************************************************************************)
LeaversHaveTimeouts ==
    \A t \in Thread : pc[t] \in {"leave", "poll"} => tmo[t] \in {"rel", "abs"}

LEMMA LeaversHoldTimeouts == Spec => []LeaversHaveTimeouts
<1>1. Init => LeaversHaveTimeouts
  BY DEF Init, LeaversHaveTimeouts
<1>2. TypeOK /\ LeaversHaveTimeouts /\ [Next]_vars => LeaversHaveTimeouts'
  <2> SUFFICES ASSUME TypeOK, LeaversHaveTimeouts, [Next]_vars
               PROVE  LeaversHaveTimeouts'
    OBVIOUS
  <2> USE DEF TypeOK, LeaversHaveTimeouts
  <2>1. ASSUME NEW t \in Thread, CallLock(t) PROVE LeaversHaveTimeouts'
    BY <2>1 DEF CallLock
  <2>2. ASSUME NEW t \in Thread, LockAcquire(t) \/ RetryAcquire(t) \/ GiveUpAcquire(t)
        PROVE  LeaversHaveTimeouts'
    BY <2>2 DEF LockAcquire, RetryAcquire, GiveUpAcquire, TakeLock
  <2>3. ASSUME NEW t \in Thread, LockSleep(t) \/ GiveUpSleep(t)
        PROVE  LeaversHaveTimeouts'
    BY <2>3 DEF LockSleep, GiveUpSleep, GoToSleep
  <2>4. ASSUME NEW t \in Thread, LockFail(t) \/ LockSpin(t) \/ SpinTurn(t)
                                 \/ RetryRelocate(t) \/ RetryStop(t)
        PROVE  LeaversHaveTimeouts'
    BY <2>4 DEF LockFail, LockSpin, SpinTurn, RetryRelocate, RetryStop
  <2>5. ASSUME NEW t \in Thread, LeaveCounted(t) \/ LeaveOwed(t) \/ WaitTimeout(t)
        PROVE  LeaversHaveTimeouts'
    BY <2>5 DEF LeaveCounted, LeaveOwed, WaitTimeout, WaitTimesOut, PollTimesOut
  <2>6. ASSUME NEW t \in Thread, Notify(t) \/ Unlock(t)
        PROVE  LeaversHaveTimeouts'
    BY <2>6 DEF Notify, Unlock
  <2>7. ASSUME NEW w \in Thread, NEW r \in Thread, Wakeup(w, r)
        PROVE  LeaversHaveTimeouts'
    <3>1. /\ pc'[w] \in {"lock", "idle", "release"}
          /\ \A u \in Thread : u # w => tmo'[u] = tmo[u]
          /\ \A u \in Thread : u # w /\ pc'[u] # pc[u] => pc'[u] = "idle"
      BY <2>7 DEF Wakeup, Handoff, Parked
    <3>2. QED BY <3>1
  <2>8. ASSUME NEW s \in Slot, Collide(s) PROVE LeaversHaveTimeouts'
    BY <2>8 DEF Collide
  <2>9. CASE UNCHANGED vars
    BY <2>9 DEF vars
  <2>10. QED
    BY <2>1, <2>2, <2>3, <2>4, <2>5, <2>6, <2>7, <2>8, <2>9 DEF Next, Step
<1>3. QED BY <1>1, <1>2, TypeCorrect, PTL DEF Spec

(***************************************************************************)
(* What a caller sees of a thread, and steps it sees nothing of.           *)
(***************************************************************************)
Quiet == {"idle", "hold", "notify", "release"}

LEMMA CallerSeesNothing ==
  ASSUME TypeOK, tmo' = tmo,
         \A t \in Thread : pc'[t] \in Quiet <=> pc[t] \in Quiet,
         \A t \in Thread : pc'[t] = "hold" <=> pc[t] = "hold"
  PROVE  UNCHANGED TL!vars
<1>1. Calls' = Calls
  BY DEF Calls, Quiet
<1>2. Holders' = Holders
  BY DEF Holders
<1>3. QED BY <1>1, <1>2 DEF TL!vars

LEMMA CallerAcquires ==
  ASSUME TypeOK, MutualExclusion,
         NEW t \in Thread, NEW given, TakeLock(t, given),
         pc[t] \in {"lock", "retry", "spin"}
  PROVE  TL!Acquire(t)
<1>1. Calls[t] # "none"
  BY DEF Calls, CallKindOf, TypeOK, TimeoutKind
<1>2. Holders = {}
  BY DEF TakeLock, MutualExclusion
<1>3. Holders' = {t}
  BY <1>2 DEF TakeLock, Holders, TypeOK
<1>4. Calls' = [Calls EXCEPT ![t] = "none"]
  BY DEF Calls, TakeLock, TypeOK
<1>5. QED BY <1>1, <1>2, <1>3, <1>4 DEF TL!Acquire

LEMMA CallerFails ==
  ASSUME TypeOK, MutualExclusion, LeaversHaveTimeouts,
         NEW t \in Thread, LockFail(t) \/ LeaveCounted(t)
  PROVE  TL!Fail(t)
<1>1. Calls[t] = "timed" \/ (Calls[t] = "try" /\ Holders # {})
  <2>1. CASE LockFail(t)
    BY <2>1 DEF LockFail, Calls, CallKindOf, MutualExclusion
  <2>2. CASE LeaveCounted(t)
    BY <2>2 DEF LeaveCounted, LeaversHaveTimeouts, Calls, CallKindOf
  <2>3. QED BY <2>1, <2>2
<1>2. Holders' = Holders
  BY DEF LockFail, LeaveCounted, Holders, TypeOK
<1>3. Calls' = [Calls EXCEPT ![t] = "none"]
  BY DEF Calls, LockFail, LeaveCounted, TypeOK
<1>4. QED BY <1>1, <1>2, <1>3 DEF TL!Fail

LEMMA CallerRequests ==
  ASSUME TypeOK, NEW t \in Thread, CallLock(t)
  PROVE  TL!Request(t)
<1>1. Calls[t] = "none" /\ t \notin Holders
  BY DEF CallLock, Calls, Holders
<1>2. PICK k \in TimeoutKind : tmo' = [tmo EXCEPT ![t] = k]
  BY DEF CallLock
<1>3. Calls' = [Calls EXCEPT ![t] = CallKindOf(k)]
  BY <1>2 DEF CallLock, Calls, TypeOK
<1>4. CallKindOf(k) \in TL!CallKind
  BY DEF CallKindOf, TL!CallKind
<1>5. Holders' = Holders
  BY DEF CallLock, Holders, TypeOK
<1>6. QED BY <1>1, <1>3, <1>4, <1>5 DEF TL!Request

LEMMA CallerReleases ==
  ASSUME TypeOK, NEW t \in Thread, Unlock(t)
  PROVE  TL!Release(t)
<1>1. pc[t] = "hold" /\ \E p \in {"notify", "release", "idle"} :
                          pc' = [pc EXCEPT ![t] = p]
  BY DEF Unlock
<1>2. Holders' = Holders \ {t} /\ t \in Holders
  BY <1>1 DEF Holders, TypeOK
<1>3. Calls' = Calls
  BY <1>1 DEF Unlock, Calls, TypeOK
<1>4. QED BY <1>2, <1>3 DEF TL!Release

LEMMA CallerWoken ==
  ASSUME TypeOK, OwesInUnlock, NEW w \in Thread, NEW r \in Thread, Wakeup(w, r)
  PROVE  TL!Expire(w) \/ UNCHANGED TL!vars
<1>1. /\ pc' = [pc EXCEPT ![w] = "lock", ![r] = "idle"]
      /\ pc[w] \in {"wait", "poll"} /\ pc[r] = "release" /\ w # r
  BY DEF Wakeup, Handoff, Parked, OwesInUnlock
<1>2. Holders' = Holders
  BY <1>1 DEF Holders, TypeOK
<1>3. PICK k \in Adjusted(tmo[w]) : tmo' = [tmo EXCEPT ![w] = k]
  BY DEF Wakeup, Handoff
<1>4. Calls' = [Calls EXCEPT ![w] = CallKindOf(k)] /\ Calls[w] = CallKindOf(tmo[w])
  <2>1. ASSUME NEW t \in Thread
        PROVE  Calls'[t] = IF t = w THEN CallKindOf(k) ELSE Calls[t]
    <3>1. CASE t = w
      BY <1>1, <1>3, <3>1 DEF Calls, TypeOK
    <3>2. CASE t = r
      BY <1>1, <1>3, <3>2 DEF Calls, TypeOK
    <3>3. CASE t # w /\ t # r
      BY <1>1, <1>3, <3>3 DEF Calls, TypeOK
    <3>4. QED BY <3>1, <3>2, <3>3
  <2>2. Calls' = [Calls EXCEPT ![w] = CallKindOf(k)]
    BY <2>1 DEF Calls
  <2>3. Calls[w] = CallKindOf(tmo[w])
    BY <1>1 DEF Calls
  <2>4. QED BY <2>2, <2>3
<1>5. CASE k = tmo[w]
  <2>1. Calls' = Calls
    BY <1>4, <1>5 DEF Calls
  <2>2. QED BY <1>2, <2>1 DEF TL!vars
<1>6. CASE k # tmo[w]
  <2>1. k = "zero" /\ tmo[w] = "rel"
    BY <1>3, <1>6 DEF Adjusted
  <2>2. Calls[w] = "timed" /\ Calls' = [Calls EXCEPT ![w] = "try"]
    BY <1>4, <2>1 DEF CallKindOf
  <2>3. QED BY <1>2, <2>2 DEF TL!Expire
<1>7. QED BY <1>5, <1>6

(***************************************************************************)
(* To its callers the mutex is a lock with timeouts.                       *)
(***************************************************************************)
THEOREM MutexIsTimedLock == Spec => IsTimedLock
<1>1. Init => TL!Init
  BY DEF Init, TL!Init, Calls, Holders
<1>2. TInv /\ MutualExclusion /\ LeaversHaveTimeouts /\ [Next]_vars
      => [TL!Next]_(TL!vars)
  <2> SUFFICES ASSUME TInv, MutualExclusion, LeaversHaveTimeouts, [Next]_vars
               PROVE  TL!Next \/ UNCHANGED TL!vars
    BY DEF TL!vars
  <2>0. TypeOK /\ OwesInUnlock
    BY DEF TInv
  <2> USE DEF TL!Next
  <2>1. ASSUME NEW t \in Thread, CallLock(t) PROVE TL!Next
    BY <2>0, <2>1, CallerRequests
  <2>2. ASSUME NEW t \in Thread, LockAcquire(t) \/ RetryAcquire(t) \/ GiveUpAcquire(t)
        PROVE  TL!Next
    BY <2>0, <2>2, CallerAcquires
       DEF LockAcquire, RetryAcquire, GiveUpAcquire, SpinOver
  <2>3. ASSUME NEW t \in Thread, LockSleep(t) \/ GiveUpSleep(t)
        PROVE  UNCHANGED TL!vars
    BY <2>0, <2>3, CallerSeesNothing
       DEF LockSleep, GiveUpSleep, GoToSleep, SpinOver, Quiet, TypeOK
  <2>4. ASSUME NEW t \in Thread, LockFail(t) \/ LeaveCounted(t) PROVE TL!Next
    BY <2>0, <2>4, CallerFails
  <2>5. ASSUME NEW t \in Thread,
               LockSpin(t) \/ SpinTurn(t) \/ RetryRelocate(t) \/ RetryStop(t)
        PROVE  UNCHANGED TL!vars
    BY <2>0, <2>5, CallerSeesNothing
       DEF LockSpin, SpinTurn, RetryRelocate, RetryStop, Quiet, TypeOK
  <2>6. ASSUME NEW t \in Thread, LeaveOwed(t) \/ WaitTimeout(t) \/ Notify(t)
        PROVE  UNCHANGED TL!vars
    BY <2>0, <2>6, CallerSeesNothing
       DEF LeaveOwed, WaitTimeout, WaitTimesOut, PollTimesOut, Notify, Quiet, TypeOK
  <2>7. ASSUME NEW t \in Thread, Unlock(t) PROVE TL!Next
    BY <2>0, <2>7, CallerReleases
  <2>8. ASSUME NEW w \in Thread, NEW r \in Thread, Wakeup(w, r)
        PROVE  TL!Next \/ UNCHANGED TL!vars
    BY <2>0, <2>8, CallerWoken
  <2>9. ASSUME NEW s \in Slot, Collide(s) PROVE UNCHANGED TL!vars
    BY <2>0, <2>9, CallerSeesNothing DEF Collide
  <2>10. CASE UNCHANGED vars
    BY <2>0, <2>10, CallerSeesNothing DEF vars
  <2>11. QED
    BY <2>1, <2>2, <2>3, <2>4, <2>5, <2>6, <2>7, <2>8, <2>9, <2>10 DEF Next, Step
<1>3. QED BY <1>1, <1>2, TInvHolds, HoldersExclude, LeaversHoldTimeouts, PTL
             DEF Spec, IsTimedLock, TL!Spec
=============================================================================
