----------------------------- MODULE OnceProofs -----------------------------
(***************************************************************************)
(* Proofs about the once flag, for any set of threads.                     *)
(***************************************************************************)
EXTENDS Once, TLAPS

(***************************************************************************)
(* Only a wait with a timeout sleeps, only one that may expire leaves, and *)
(* a thread releases as long as it owes anything.                          *)
(***************************************************************************)
WaitsAsCalled ==
    \A t \in Thread :
        /\ pc[t] = "wait" => tmo[t] # "zero"
        /\ pc[t] \in {"leave", "poll"} => tmo[t] \in {"rel", "abs"}
        /\ pc[t] = "release" <=> owed[t] > 0

(***************************************************************************)
(* The flag is locked for one thread, which initializes, and is not ready  *)
(* then; once it is ready nobody is on its count.                          *)
(***************************************************************************)
Initializers == {t \in Thread : pc[t] = "init"}

LockedForOne ==
    /\ locked = 1 => \E t \in Thread : Initializers = {t}
    /\ locked = 0 => Initializers = {}
    /\ ready = 1 => locked = 0 /\ nsleep = 0

(***************************************************************************)
(* Somebody on the count of an unlocked flag is not left alone with it.    *)
(***************************************************************************)
LookedAfter ==
    ready = 0 /\ locked = 0 /\ nsleep > 0 => \E t \in Thread : pc[t] = "enter" \/ owed[t] > 0

TInv == TypeOK /\ WaitsAsCalled

LEMMA TInvHolds == Spec => []TInv
<1> USE DEF TInv, TypeOK, WaitsAsCalled, PC, KernelPC, TimeoutKind
<1>1. Init => TInv
  BY DEF Init
<1>2. TInv /\ [Next]_vars => TInv'
  <2> SUFFICES ASSUME TInv, [Next]_vars PROVE TInv'
    OBVIOUS
  <2> USE DEF onceVars
  <2>1. ASSUME NEW t \in Thread, CallWait(t) PROVE TInv'
    BY <2>1 DEF CallWait, Enters
  <2>2. ASSUME NEW t \in Thread, WaitDone(t) \/ WaitBegin(t) \/ WaitFail(t) PROVE TInv'
    BY <2>2 DEF WaitDone, WaitBegin, WaitFail, Returns
  <2>3. ASSUME NEW t \in Thread, WaitSleep(t) PROVE TInv'
    BY <2>3 DEF WaitSleep, Sleeps
  <2>4. ASSUME NEW t \in Thread, LeaveCounted(t) PROVE TInv'
    BY <2>4 DEF LeaveCounted, Returns
  <2>5. ASSUME NEW t \in Thread, LeaveOwed(t) PROVE TInv'
    BY <2>5 DEF LeaveOwed, AwaitsRelease
  <2>6. ASSUME NEW t \in Thread, WaitTimeout(t) PROVE TInv'
    BY <2>6 DEF WaitTimeout, WaitTimesOut, PollTimesOut
  <2>7. ASSUME NEW t \in Thread, Abort(t) PROVE TInv'
    BY <2>7 DEF Abort, BeginsRelease
  <2>8. ASSUME NEW t \in Thread, Release(t) PROVE TInv'
    BY <2>8 DEF Release, BeginsRelease
  <2>9. ASSUME NEW w \in Thread, NEW r \in Thread, Wakeup(w, r) PROVE TInv'
    <3>1. w # r /\ w \in Thread /\ owed[r] > 0
      BY <2>9 DEF Wakeup, Handoff, Parked
    <3>2. QED BY <2>9, <3>1 DEF Wakeup, Handoff, Adjusted, Parked
  <2>10. CASE UNCHANGED vars
    BY <2>10 DEF vars
  <2>11. QED
    BY <2>1, <2>2, <2>3, <2>4, <2>5, <2>6, <2>7, <2>8, <2>9, <2>10
       DEF Next, Step, CallOnce, GthrOnce, ExecuteOnce, C11CallOnce, CxxCallOnce,
           GuardAcquire, CallOnceSeh, WaitForever, CallbackReturns, CallbackUnwinds
<1>3. QED BY <1>1, <1>2, PTL DEF Spec

(***************************************************************************)
(* The fields of the flag stay within their types.                         *)
(***************************************************************************)
THEOREM TypeCorrect == Spec => []TypeOK
BY TInvHolds, PTL DEF TInv

(***************************************************************************)
(* The calls that run a callback are waits, a release or an abort.         *)
(***************************************************************************)
LEMMA NextCases ==
  Next <=>
    \/ \E t \in Thread : CallWait(t) \/ Step(t) \/ Release(t) \/ Abort(t)
    \/ \E w, r \in Thread : Wakeup(w, r)
BY DEF Next, CallOnce, GthrOnce, ExecuteOnce, C11CallOnce, CxxCallOnce,
       GuardAcquire, CallOnceSeh, WaitForever, CallbackReturns, CallbackUnwinds

-----------------------------------------------------------------------------

LEMMA LockedInit == Init => LockedForOne
BY DEF Init, LockedForOne, Initializers

LEMMA LockedNext == TInv /\ LockedForOne /\ [Next]_vars => LockedForOne'
<1> SUFFICES ASSUME TInv, LockedForOne, [Next]_vars PROVE LockedForOne'
  OBVIOUS
<1> USE DEF onceVars
<1>1. ASSUME Initializers' = Initializers, UNCHANGED <<ready, locked>>,
             ready = 1 => nsleep' = 0
      PROVE  LockedForOne'
  BY <1>1 DEF LockedForOne
<1> USE DEF Initializers, TInv, TypeOK
<1>2. ASSUME NEW t \in Thread, CallWait(t) PROVE LockedForOne'
  BY <1>1, <1>2 DEF CallWait, Enters, LockedForOne
<1>3. ASSUME NEW t \in Thread, WaitDone(t) \/ WaitFail(t) PROVE LockedForOne'
  BY <1>1, <1>3 DEF WaitDone, WaitFail, Returns, LockedForOne
<1>4. ASSUME NEW t \in Thread, WaitBegin(t) PROVE LockedForOne'
  <2>1. Initializers' = {t}
    BY <1>4 DEF WaitBegin, Returns, LockedForOne
  <2>2. QED BY <1>4, <2>1 DEF WaitBegin, LockedForOne
<1>5. ASSUME NEW t \in Thread, WaitSleep(t) PROVE LockedForOne'
  BY <1>1, <1>5 DEF WaitSleep, Sleeps, LockedForOne
<1>6. ASSUME NEW t \in Thread, LeaveCounted(t) PROVE LockedForOne'
  BY <1>1, <1>6 DEF LeaveCounted, Returns, LockedForOne
<1>7. ASSUME NEW t \in Thread, LeaveOwed(t) \/ WaitTimeout(t) PROVE LockedForOne'
  BY <1>1, <1>7
     DEF LeaveOwed, AwaitsRelease, WaitTimeout, WaitTimesOut, PollTimesOut, LockedForOne
<1>8. ASSUME NEW t \in Thread, Abort(t) \/ Release(t) PROVE LockedForOne'
  <2>1. Initializers = {t} /\ ready = 0
    BY <1>8 DEF LockedForOne, Abort, Release
  <2>2. Initializers' = {} /\ locked' = 0
    BY <1>8, <2>1 DEF Abort, Release, BeginsRelease
  <2>3. ready' = 1 => nsleep' = 0
    BY <1>8, <2>1 DEF Abort, Release
  <2>4. QED BY <2>2, <2>3 DEF LockedForOne
<1>9. ASSUME NEW w \in Thread, NEW r \in Thread, Wakeup(w, r) PROVE LockedForOne'
  BY <1>1, <1>9 DEF Wakeup, Handoff, Parked, LockedForOne
<1>10. CASE UNCHANGED vars
  BY <1>1, <1>10 DEF vars, LockedForOne
<1>11. QED
  BY <1>2, <1>3, <1>4, <1>5, <1>6, <1>7, <1>8, <1>9, <1>10, NextCases DEF Step

LEMMA LockedHolds == Spec => []LockedForOne
BY LockedInit, LockedNext, TInvHolds, PTL DEF Spec
-----------------------------------------------------------------------------

LEMMA SleepersKept ==
  ASSUME \A t \in Thread : pc'[t] \in {"wait", "leave", "poll"}
                            <=> pc[t] \in {"wait", "leave", "poll"},
         UNCHANGED <<nsleep, owed>>
  PROVE  UNCHANGED SQ!vars
BY DEF SQ!vars, Asleep

LEMMA SleepEnlists ==
  ASSUME TInv, NEW t \in Thread, WaitSleep(t)
  PROVE  SQ!Enlist(t)
<1>1. t \notin Asleep /\ owed[t] = 0
  BY DEF TInv, TypeOK, WaitsAsCalled, Asleep, WaitSleep
<1>2. Asleep' = Asleep \cup {t}
  BY DEF Asleep, TInv, TypeOK, WaitSleep, Sleeps
<1>3. QED BY <1>1, <1>2 DEF WaitSleep, Sleeps, SQ!Enlist

LEMMA LeaverDeparts ==
  ASSUME TInv, NEW t \in Thread, LeaveCounted(t)
  PROVE  SQ!Depart(t)
<1>1. t \in Asleep /\ Asleep' = Asleep \ {t}
  BY DEF LeaveCounted, Returns, TInv, TypeOK, Asleep
<1>2. QED BY <1>1 DEF LeaveCounted, Returns, SQ!Depart

LEMMA WakerWakes ==
  ASSUME TInv, NEW t \in Thread, NEW n \in 0..nsleep,
         pc[t] = "init", nsleep' = nsleep - n, BeginsRelease(t, n)
  PROVE  (SQ!Wake(t, n) /\ n \in 1..nsleep) \/ UNCHANGED SQ!vars
<1>1. t \notin Asleep /\ owed[t] = 0 /\ nsleep \in Nat /\ n \in Nat
  BY DEF TInv, TypeOK, WaitsAsCalled, Asleep
<1>2. Asleep' = Asleep /\ owed' = [owed EXCEPT ![t] = n]
  BY DEF Asleep, TInv, TypeOK, BeginsRelease
<1>3. CASE n = 0
  BY <1>1, <1>2, <1>3 DEF SQ!vars, TInv, TypeOK
<1>4. CASE n # 0
  BY <1>1, <1>2, <1>4 DEF SQ!Wake
<1>5. QED BY <1>3, <1>4

LEMMA WakeupMeets ==
  ASSUME TInv, NEW w \in Thread, NEW r \in Thread, Wakeup(w, r)
  PROVE  SQ!Meet(w, r)
<1>1. w \in Asleep /\ w # r /\ owed[r] > 0
  BY DEF TInv, WaitsAsCalled, Wakeup, Handoff, Parked, Asleep
<1>2. Asleep' = Asleep \ {w}
  BY <1>1 DEF TInv, TypeOK, Asleep, Wakeup, Handoff
<1>3. owed' = [owed EXCEPT ![r] = @ - 1] /\ nsleep' = nsleep
  BY DEF Wakeup, Handoff, onceVars
<1>4. QED BY <1>1, <1>2, <1>3 DEF SQ!Meet

(***************************************************************************)
(* The sleeping count of the flag follows the protocol of SleepQueue: an   *)
(* abort releases one sleeper and a release all of them.                   *)
(***************************************************************************)
THEOREM OnceSleepsProperly == Spec => SleepsProperly
<1>1. Init => SQ!Init
  BY DEF Init, SQ!Init, Asleep
<1>2. TInv /\ [Next]_vars => [SQ!Next]_(SQ!vars)
  <2> SUFFICES ASSUME TInv, [Next]_vars PROVE SQ!Next \/ UNCHANGED SQ!vars
    BY DEF SQ!vars
  <2> USE DEF onceVars
  <2>1. ASSUME NEW t \in Thread, CallWait(t) PROVE UNCHANGED SQ!vars
    BY <2>1, SleepersKept DEF CallWait, Enters, TInv, TypeOK
  <2>2. ASSUME NEW t \in Thread, WaitDone(t) \/ WaitBegin(t) \/ WaitFail(t)
        PROVE  UNCHANGED SQ!vars
    BY <2>2, SleepersKept DEF WaitDone, WaitBegin, WaitFail, Returns, TInv, TypeOK
  <2>3. ASSUME NEW t \in Thread, WaitSleep(t) PROVE SQ!Next
    BY <2>3, SleepEnlists DEF SQ!Next
  <2>4. ASSUME NEW t \in Thread, LeaveCounted(t) PROVE SQ!Next
    BY <2>4, LeaverDeparts DEF SQ!Next
  <2>5. ASSUME NEW t \in Thread, LeaveOwed(t) \/ WaitTimeout(t) PROVE UNCHANGED SQ!vars
    BY <2>5, SleepersKept
       DEF LeaveOwed, AwaitsRelease, WaitTimeout, WaitTimesOut, PollTimesOut, TInv, TypeOK
  <2>6. ASSUME NEW t \in Thread, Abort(t) PROVE SQ!Next \/ UNCHANGED SQ!vars
    <3> DEFINE n == IF nsleep = 0 THEN 0 ELSE 1
    <3>1. n \in 0..nsleep
      BY DEF TInv, TypeOK
    <3>2. QED BY <2>6, <3>1, WakerWakes DEF Abort, SQ!Next
  <2>7. ASSUME NEW t \in Thread, Release(t) PROVE SQ!Next \/ UNCHANGED SQ!vars
    <3>1. nsleep \in 0..nsleep /\ nsleep' = nsleep - nsleep
      BY <2>7 DEF TInv, TypeOK, Release
    <3>2. QED BY <2>7, <3>1, WakerWakes DEF Release, SQ!Next
  <2>8. ASSUME NEW w \in Thread, NEW r \in Thread, Wakeup(w, r) PROVE SQ!Next
    BY <2>8, WakeupMeets DEF SQ!Next
  <2>9. CASE UNCHANGED vars
    BY <2>9, SleepersKept DEF vars
  <2>10. QED
    BY <2>1, <2>2, <2>3, <2>4, <2>5, <2>6, <2>7, <2>8, <2>9, NextCases DEF Step
<1>3. QED BY <1>1, <1>2, TInvHolds, PTL DEF Spec, SleepsProperly, SQ!Spec

(***************************************************************************)
(* The theorems of SleepQueue therefore hold of the flag.                  *)
(***************************************************************************)
SQP == INSTANCE SleepQueueProofs WITH asleep <- Asleep

LEMMA SleepersCovered == Spec => []SQ!QuietIffEmpty
<1> USE DEF SQ!Init, SQP!Init, SQ!vars, SQP!vars, SQ!Next, SQP!Next,
            SQ!Enlist, SQP!Enlist, SQ!Depart, SQP!Depart, SQ!Wake, SQP!Wake,
            SQ!Meet, SQP!Meet, SQ!Spec, SQP!Spec
<1>1. SQ!Spec => []SQ!QuietIffEmpty
  BY SQP!NobodyForgotten, PTL DEF SQ!QuietIffEmpty, SQP!QuietIffEmpty
<1> HIDE DEF SQ!Spec
<1>2. QED BY <1>1, OnceSleepsProperly, PTL DEF SleepsProperly

-----------------------------------------------------------------------------

LEMMA LookedAfterNext == TInv /\ LockedForOne /\ LookedAfter /\ [Next]_vars => LookedAfter'
<1> SUFFICES ASSUME TInv, LockedForOne, LookedAfter, [Next]_vars PROVE LookedAfter'
  OBVIOUS
<1> USE DEF onceVars, LookedAfter, TInv, TypeOK
<1>1. ASSUME NEW t \in Thread, CallWait(t) PROVE LookedAfter'
  BY <1>1 DEF CallWait, Enters
<1>2. ASSUME NEW t \in Thread, WaitDone(t) \/ WaitFail(t) \/ WaitBegin(t) \/ WaitSleep(t)
      PROVE  LookedAfter'
  BY <1>2 DEF WaitDone, WaitFail, WaitBegin, WaitSleep
<1>3. ASSUME NEW t \in Thread, LeaveCounted(t) PROVE LookedAfter'
  BY <1>3 DEF LeaveCounted, Returns
<1>4. ASSUME NEW t \in Thread, LeaveOwed(t) \/ WaitTimeout(t) PROVE LookedAfter'
  BY <1>4 DEF LeaveOwed, AwaitsRelease, WaitTimeout, WaitTimesOut, PollTimesOut
<1>5. ASSUME NEW t \in Thread, Abort(t) PROVE LookedAfter'
  BY <1>5 DEF Abort, BeginsRelease
<1>6. ASSUME NEW t \in Thread, Release(t) PROVE LookedAfter'
  BY <1>6 DEF Release
<1>7. ASSUME NEW w \in Thread, NEW r \in Thread, Wakeup(w, r) PROVE LookedAfter'
  <2>1. w # r
    BY <1>7 DEF Wakeup, Handoff, Parked
  <2>2. pc'[w] = "enter"
    BY <1>7, <2>1 DEF Wakeup, Handoff
  <2>3. QED BY <2>2
<1>8. CASE UNCHANGED vars
  BY <1>8 DEF vars
<1>9. QED BY <1>1, <1>2, <1>3, <1>4, <1>5, <1>6, <1>7, <1>8, NextCases DEF Step

(***************************************************************************)
(* A failed initialization is always taken over: somebody looks at the     *)
(* flag or is about to be released, whatever times out meanwhile.          *)
(***************************************************************************)
THEOREM FailurePassesOn == Spec => []NoLostWakeup
<1>1. Init => LookedAfter
  BY DEF Init, LookedAfter
<1>2. TInv /\ LockedForOne /\ LookedAfter /\ SQ!QuietIffEmpty => NoLostWakeup
  <2> SUFFICES ASSUME TInv, LockedForOne, LookedAfter, SQ!QuietIffEmpty PROVE NoLostWakeup
    OBVIOUS
  <2>1. ASSUME Phase = "unlocked", Asleep # {}
        PROVE  \E t \in Thread : pc[t] = "enter" \/ owed[t] > 0
    <3>1. ready = 0 /\ locked = 0 /\ nsleep \in Nat
      BY <2>1 DEF Phase, TInv, TypeOK
    <3>2. CASE nsleep > 0
      BY <3>1, <3>2 DEF LookedAfter
    <3>3. CASE nsleep = 0
      <4>1. PICK r \in Thread : owed[r] # 0
        BY <2>1, <3>3 DEF SQ!QuietIffEmpty
      <4>2. QED BY <4>1 DEF TInv, TypeOK
    <3>4. QED BY <3>1, <3>2, <3>3
  <2>2. Phase = "ready" => nsleep = 0
    BY DEF Phase, LockedForOne
  <2>3. QED BY <2>1, <2>2 DEF NoLostWakeup
<1>3. QED
  BY <1>1, <1>2, LookedAfterNext, LockedHolds, TInvHolds, SleepersCovered, PTL DEF Spec

-----------------------------------------------------------------------------

(***************************************************************************)
(* A step that changes no thread's call, nor the flag, is a stutter of     *)
(* OnceCell.                                                               *)
(***************************************************************************)
LEMMA CellKept ==
  ASSUME UNCHANGED <<Calls, Phase, Initializers>>
  PROVE  UNCHANGED OC!vars
BY DEF OC!vars, Initializers

LEMMA PhaseKept ==
  ASSUME UNCHANGED <<ready, locked>>
  PROVE  Phase' = Phase
BY DEF Phase

LEMMA CallRequests ==
  ASSUME TInv, NEW t \in Thread, CallWait(t)
  PROVE  OC!Request(t)
<1>1. PICK k \in TimeoutKind : tmo' = [tmo EXCEPT ![t] = k]
  BY DEF CallWait, Enters
<1>2. Calls[t] = "none" /\ t \notin Initializers /\ Initializers' = Initializers
  BY DEF CallWait, Enters, Calls, Initializers, TInv, TypeOK
<1>3. Calls' = [Calls EXCEPT ![t] = CallKindOf(k)]
  BY <1>1 DEF CallWait, Enters, Calls, TInv, TypeOK
<1>4. CallKindOf(k) \in OC!CallKind
  BY DEF CallKindOf, OC!CallKind
<1>5. Phase' = Phase
  BY PhaseKept DEF CallWait, onceVars
<1>6. QED BY <1>2, <1>3, <1>4, <1>5 DEF OC!Request, Initializers

(***************************************************************************)
(* What a thread that returns leaves of its call.                          *)
(***************************************************************************)
LEMMA ReturnClearsCall ==
  ASSUME TInv, NEW t \in Thread, NEW to \in {"idle", "init"}, Returns(t, to),
         pc[t] \in {"enter", "leave"}
  PROVE  /\ Calls' = [Calls EXCEPT ![t] = "none"]
         /\ Calls[t] = CallKindOf(tmo[t]) /\ Calls[t] # "none"
         /\ Initializers' = IF to = "init" THEN Initializers \cup {t} ELSE Initializers
BY DEF Returns, Calls, CallKindOf, Initializers, TInv, TypeOK

LEMMA WaitReturns ==
  ASSUME TInv, LockedForOne, NEW t \in Thread,
         WaitDone(t) \/ WaitBegin(t) \/ WaitFail(t) \/ LeaveCounted(t)
  PROVE  OC!Next
<1> USE DEF OC!Returned, Initializers
<1>1. CASE WaitDone(t)
  <2>1. Phase = "ready" /\ Phase' = Phase
    BY <1>1, PhaseKept DEF WaitDone, Phase, onceVars
  <2>2. OC!Done(t)
    BY <1>1, <2>1, ReturnClearsCall DEF WaitDone, OC!Done
  <2>3. QED BY <2>2 DEF OC!Next
<1>2. CASE WaitBegin(t)
  <2>1. Phase = "unlocked" /\ Phase' = "locked"
    BY <1>2 DEF WaitBegin, Phase
  <2>2. Initializers = {}
    BY <1>2 DEF WaitBegin, LockedForOne
  <2>3. OC!Begin(t)
    BY <1>2, <2>1, <2>2, ReturnClearsCall DEF WaitBegin, OC!Begin
  <2>4. QED BY <2>3 DEF OC!Next
<1>3. CASE WaitFail(t)
  <2>1. Phase = "locked" /\ Phase' = Phase
    BY <1>3, PhaseKept DEF WaitFail, Phase, onceVars
  <2>2. Calls[t] = "try"
    BY <1>3, ReturnClearsCall DEF WaitFail, CallKindOf
  <2>3. OC!Fail(t)
    BY <1>3, <2>1, <2>2, ReturnClearsCall DEF WaitFail, OC!Fail
  <2>4. QED BY <2>3 DEF OC!Next
<1>4. CASE LeaveCounted(t)
  <2>1. Phase' = Phase
    BY <1>4, PhaseKept DEF LeaveCounted
  <2>2. Phase # "ready"
    BY <1>4 DEF LeaveCounted, Phase, LockedForOne
  <2>3. Calls[t] = "timed"
    BY <1>4, ReturnClearsCall DEF LeaveCounted, CallKindOf, TInv, WaitsAsCalled
  <2>4. OC!Fail(t)
    BY <1>4, <2>1, <2>2, <2>3, ReturnClearsCall DEF LeaveCounted, OC!Fail, Phase
  <2>5. QED BY <2>4 DEF OC!Next
<1>5. QED BY <1>1, <1>2, <1>3, <1>4

LEMMA InitializerEnds ==
  ASSUME TInv, LockedForOne, NEW t \in Thread, Abort(t) \/ Release(t)
  PROVE  OC!Next
<1>1. t \in Initializers /\ Initializers = {t} /\ ready = 0 /\ locked = 1
  BY DEF Abort, Release, LockedForOne, Initializers, TInv, TypeOK
<1>2. Initializers' = {}
  BY <1>1 DEF Abort, Release, BeginsRelease, Initializers, TInv, TypeOK
<1>3. Calls' = Calls
  BY DEF Abort, Release, BeginsRelease, Calls, TInv, TypeOK
<1>4. CASE Abort(t)
  <2>1. Phase' = "unlocked"
    BY <1>1, <1>4 DEF Abort, Phase
  <2>2. QED BY <1>1, <1>2, <1>3, <2>1 DEF OC!Abort, OC!Next, Initializers
<1>5. CASE Release(t)
  <2>1. Phase' = "ready"
    BY <1>5 DEF Release, Phase
  <2>2. QED BY <1>1, <1>2, <1>3, <2>1 DEF OC!Complete, OC!Next, Initializers
<1>6. QED BY <1>4, <1>5

(***************************************************************************)
(* A wakeup leaves the call as it is or lets its deadline pass.            *)
(***************************************************************************)
LEMMA WakeupExpires ==
  ASSUME TInv, NEW w \in Thread, NEW r \in Thread, Wakeup(w, r)
  PROVE  OC!Next \/ UNCHANGED OC!vars
<1>1. PICK k \in Adjusted(tmo[w]) : tmo' = [tmo EXCEPT ![w] = k]
  BY DEF Wakeup, Handoff
<1>2. w # r /\ pc[w] \in {"wait", "poll"} /\ pc[r] = "release"
  BY DEF Wakeup, Handoff, Parked
<1>3. Initializers' = Initializers /\ Phase' = Phase
  BY <1>2, PhaseKept DEF Wakeup, Handoff, Initializers, TInv, TypeOK, onceVars
<1>4. Calls' = [Calls EXCEPT ![w] = CallKindOf(k)] /\ Calls[w] = CallKindOf(tmo[w])
  BY <1>1, <1>2 DEF Wakeup, Handoff, Calls, TInv, TypeOK
<1>5. CASE k = tmo[w]
  <2>1. Calls' = Calls
    BY <1>4, <1>5 DEF Calls
  <2>2. QED BY <1>3, <2>1, CellKept
<1>6. CASE k # tmo[w]
  <2>1. Calls[w] = "timed" /\ CallKindOf(k) = "try"
    BY <1>4, <1>6 DEF Adjusted, CallKindOf
  <2>2. OC!Expire(w)
    BY <1>3, <1>4, <2>1 DEF OC!Expire, Initializers
  <2>3. QED BY <2>2 DEF OC!Next
<1>7. QED BY <1>5, <1>6

LEMMA SleepingKeepsCell ==
  ASSUME TInv, NEW t \in Thread, WaitSleep(t) \/ LeaveOwed(t) \/ WaitTimeout(t)
  PROVE  UNCHANGED OC!vars
<1>1. Calls' = Calls /\ Initializers' = Initializers
  BY DEF WaitSleep, Sleeps, LeaveOwed, AwaitsRelease, WaitTimeout, WaitTimesOut,
         PollTimesOut, Calls, Initializers, TInv, TypeOK
<1>2. Phase' = Phase
  BY PhaseKept DEF WaitSleep, LeaveOwed, WaitTimeout, onceVars
<1>3. QED BY <1>1, <1>2, CellKept

(***************************************************************************)
(* The flag keeps what once.h promises: one initializer at a time, none    *)
(* after a success, and -1 only from a wait with a timeout.                *)
(***************************************************************************)
THEOREM OnceImplementsCell == Spec => IsOnceCell
<1>1. Init => OC!Init
  BY DEF Init, OC!Init, Calls, Phase
<1>2. TInv /\ LockedForOne /\ [Next]_vars => [OC!Next]_(OC!vars)
  <2> SUFFICES ASSUME TInv, LockedForOne, [Next]_vars PROVE OC!Next \/ UNCHANGED OC!vars
    BY DEF OC!vars
  <2>1. ASSUME NEW t \in Thread, CallWait(t) PROVE OC!Next
    BY <2>1, CallRequests DEF OC!Next
  <2>2. ASSUME NEW t \in Thread, Step(t) PROVE OC!Next \/ UNCHANGED OC!vars
    BY <2>2, WaitReturns, SleepingKeepsCell DEF Step
  <2>3. ASSUME NEW t \in Thread, Abort(t) \/ Release(t) PROVE OC!Next
    BY <2>3, InitializerEnds
  <2>4. ASSUME NEW w \in Thread, NEW r \in Thread, Wakeup(w, r)
        PROVE  OC!Next \/ UNCHANGED OC!vars
    BY <2>4, WakeupExpires
  <2>5. CASE UNCHANGED vars
    BY <2>5, CellKept, PhaseKept DEF vars, onceVars, Calls, Initializers
  <2>6. QED BY <2>1, <2>2, <2>3, <2>4, <2>5, NextCases
<1>3. QED BY <1>1, <1>2, TInvHolds, LockedHolds, PTL DEF Spec, IsOnceCell, OC!Spec
=============================================================================
