----------------------------- MODULE SemProofs ------------------------------
(***************************************************************************)
(* Proofs about the semaphore, for any set of threads, any initial and     *)
(* maximum value and any number of signals.                                *)
(***************************************************************************)
EXTENDS Sem, FiniteSetTheorems, TLAPS

(***************************************************************************)
(* Only a wait with a timeout leaves, and a thread releases as long as it  *)
(* owes anything.                                                          *)
(***************************************************************************)
WaitsAsCalled ==
    \A t \in Thread :
        /\ pc[t] \in {"leave", "poll"} => tmo[t] \in {"rel", "abs"}
        /\ pc[t] = "release" <=> owed[t] > 0

TInv == TypeOK /\ WaitsAsCalled

LEMMA LesserOfTwo ==
  ASSUME NEW a \in Nat, NEW b \in Nat
  PROVE  Min({a, b}) = IF a <= b THEN a ELSE b
BY DEF Min

LEMMA TInvHolds == Spec => []TInv
<1> USE SemParameters DEF TInv, TypeOK, WaitsAsCalled, PC, KernelPC, TimeoutKind
<1>1. Init => TInv
  BY DEF Init
<1>2. TInv /\ [Next]_vars => TInv'
  <2> SUFFICES ASSUME TInv, [Next]_vars PROVE TInv'
    OBVIOUS
  <2>1. ASSUME NEW t \in Thread, CallWait(t) PROVE TInv'
    BY <2>1 DEF CallWait, Enters
  <2>2. ASSUME NEW t \in Thread, WaitTake(t) \/ WaitFail(t) PROVE TInv'
    BY <2>2 DEF WaitTake, WaitFail, Returns
  <2>3. ASSUME NEW t \in Thread, WaitSleep(t) PROVE TInv'
    BY <2>3 DEF WaitSleep, Sleeps
  <2>4. ASSUME NEW t \in Thread, LeaveCounted(t) PROVE TInv'
    BY <2>4 DEF LeaveCounted, Returns
  <2>5. ASSUME NEW t \in Thread, LeaveOwed(t) PROVE TInv'
    BY <2>5 DEF LeaveOwed, AwaitsRelease
  <2>6. ASSUME NEW t \in Thread, WaitTimeout(t) PROVE TInv'
    BY <2>6 DEF WaitTimeout, WaitTimesOut, PollTimesOut
  <2>7. ASSUME NEW t \in Thread, NEW n \in 1..ValueMax, Signal(t, n) PROVE TInv'
    <3>1. Counted \in Nat /\ n \in Nat
      BY DEF Counted
    <3>2. Min({Counted, n}) \in Nat
      BY <3>1, LesserOfTwo
    <3>3. value' \in Int /\ value' <= ValueMax /\ posted' \in 0..PostMax
      BY <2>7, <3>1 DEF Signal
    <3>4. QED BY <2>7, <3>2, <3>3 DEF Signal, BeginsRelease
  <2>8. ASSUME NEW w \in Thread, NEW r \in Thread, Wakeup(w, r) PROVE TInv'
    <3>1. w # r /\ owed[r] > 0
      BY <2>8 DEF Wakeup, Handoff, Parked
    <3>2. QED BY <2>8, <3>1 DEF Wakeup, Handoff, Parked
  <2>9. CASE UNCHANGED vars
    BY <2>9 DEF vars
  <2>10. QED
    BY <2>1, <2>2, <2>3, <2>4, <2>5, <2>6, <2>7, <2>8, <2>9 DEF Next, Step
<1>3. QED BY <1>1, <1>2, PTL DEF Spec

(***************************************************************************)
(* The value never exceeds its maximum.                                    *)
(***************************************************************************)
THEOREM TypeCorrect == Spec => []TypeOK
BY TInvHolds, PTL DEF TInv

-----------------------------------------------------------------------------

LEMMA SleepersKept ==
  ASSUME \A t \in Thread : pc'[t] \in {"wait", "leave", "poll"}
                            <=> pc[t] \in {"wait", "leave", "poll"}
  PROVE  Asleep' = Asleep
BY DEF Asleep

LEMMA SleepEnlists ==
  ASSUME TInv, NEW t \in Thread, WaitSleep(t)
  PROVE  SQ!Enlist(t)
<1>1. t \notin Asleep /\ owed[t] = 0
  BY DEF TInv, TypeOK, WaitsAsCalled, Asleep, WaitSleep
<1>2. Asleep' = Asleep \cup {t}
  BY DEF Asleep, TInv, TypeOK, WaitSleep, Sleeps
<1>3. Counted' = Counted + 1
  BY DEF WaitSleep, Counted, TInv, TypeOK
<1>4. QED BY <1>1, <1>2, <1>3 DEF WaitSleep, Sleeps, SQ!Enlist

LEMMA LeaverDeparts ==
  ASSUME TInv, NEW t \in Thread, LeaveCounted(t)
  PROVE  SQ!Depart(t)
<1>1. t \in Asleep /\ Asleep' = Asleep \ {t}
  BY DEF LeaveCounted, Returns, TInv, TypeOK, Asleep
<1>2. Counted > 0 /\ Counted' = Counted - 1
  BY DEF LeaveCounted, Counted, TInv, TypeOK
<1>3. QED BY <1>1, <1>2 DEF LeaveCounted, Returns, SQ!Depart

(***************************************************************************)
(* A signal takes off the count as many sleepers as the value rises by     *)
(* below zero.                                                             *)
(***************************************************************************)
LEMMA SignalWakes ==
  ASSUME TInv, NEW t \in Thread, NEW n \in 1..ValueMax, Signal(t, n)
  PROVE  \/ \E k \in 1..Counted : SQ!Wake(t, k)
         \/ UNCHANGED SQ!vars
<1> DEFINE k == Min({Counted, n})
<1>0. Counted \in Nat /\ n \in Nat /\ n > 0
  BY SemParameters DEF Counted, TInv, TypeOK
<1>1. k = IF Counted <= n THEN Counted ELSE n
  BY <1>0, LesserOfTwo
<1>2. Counted' = Counted - k
  BY <1>0, <1>1 DEF Counted, Signal, TInv, TypeOK
<1>3. t \notin Asleep /\ owed[t] = 0
  BY DEF TInv, TypeOK, WaitsAsCalled, Asleep, Signal
<1>4. Asleep' = Asleep /\ owed' = [owed EXCEPT ![t] = k]
  BY DEF Asleep, TInv, TypeOK, Signal, BeginsRelease
<1> HIDE DEF k
<1>5. CASE k = 0
  BY <1>0, <1>2, <1>3, <1>4, <1>5 DEF SQ!vars, TInv, TypeOK
<1>6. CASE k # 0
  <2>1. k \in 1..Counted
    BY <1>0, <1>1, <1>6
  <2>2. SQ!Wake(t, k)
    BY <1>2, <1>3, <1>4 DEF SQ!Wake
  <2>3. QED BY <2>1, <2>2
<1>7. QED BY <1>5, <1>6

LEMMA WakeupMeets ==
  ASSUME TInv, NEW w \in Thread, NEW r \in Thread, Wakeup(w, r)
  PROVE  SQ!Meet(w, r)
<1>1. w \in Asleep /\ w # r /\ owed[r] > 0
  BY DEF TInv, WaitsAsCalled, Wakeup, Handoff, Parked, Asleep
<1>2. Asleep' = Asleep \ {w}
  BY <1>1 DEF TInv, TypeOK, Asleep, Wakeup, Handoff
<1>3. owed' = [owed EXCEPT ![r] = @ - 1] /\ Counted' = Counted
  BY DEF Wakeup, Handoff, Counted
<1>4. QED BY <1>1, <1>2, <1>3 DEF SQ!Meet

(***************************************************************************)
(* Steps of a call that sleeps and wakes nobody.                           *)
(***************************************************************************)
LEMMA QuietSteps ==
  ASSUME TInv, NEW t \in Thread,
         CallWait(t) \/ WaitTake(t) \/ WaitFail(t) \/ LeaveOwed(t) \/ WaitTimeout(t)
  PROVE  UNCHANGED SQ!vars
<1>1. Asleep' = Asleep
  BY DEF CallWait, Enters, WaitTake, WaitFail, Returns, LeaveOwed, AwaitsRelease,
         WaitTimeout, WaitTimesOut, PollTimesOut, Asleep, TInv, TypeOK
<1>2. Counted' = Counted
  BY DEF CallWait, WaitTake, WaitFail, LeaveOwed, WaitTimeout, Counted, TInv, TypeOK
<1>3. QED
  BY <1>1, <1>2
     DEF CallWait, Enters, WaitTake, WaitFail, Returns, LeaveOwed, AwaitsRelease,
         WaitTimeout, WaitTimesOut, PollTimesOut, SQ!vars

(***************************************************************************)
(* The negative part of the value follows the protocol of SleepQueue.      *)
(***************************************************************************)
THEOREM SemSleepsProperly == Spec => SleepsProperly
<1>1. Init => SQ!Init
  BY SemParameters DEF Init, SQ!Init, Asleep, Counted
<1>2. TInv /\ [Next]_vars => [SQ!Next]_(SQ!vars)
  <2> SUFFICES ASSUME TInv, [Next]_vars PROVE SQ!Next \/ UNCHANGED SQ!vars
    BY DEF SQ!vars
  <2>1. ASSUME NEW t \in Thread,
               CallWait(t) \/ WaitTake(t) \/ WaitFail(t) \/ LeaveOwed(t) \/ WaitTimeout(t)
        PROVE  UNCHANGED SQ!vars
    BY <2>1, QuietSteps
  <2>2. ASSUME NEW t \in Thread, WaitSleep(t) PROVE SQ!Next
    BY <2>2, SleepEnlists DEF SQ!Next
  <2>3. ASSUME NEW t \in Thread, LeaveCounted(t) PROVE SQ!Next
    BY <2>3, LeaverDeparts DEF SQ!Next
  <2>4. ASSUME NEW t \in Thread, NEW n \in 1..ValueMax, Signal(t, n)
        PROVE  SQ!Next \/ UNCHANGED SQ!vars
    BY <2>4, SignalWakes DEF SQ!Next
  <2>5. ASSUME NEW w \in Thread, NEW r \in Thread, Wakeup(w, r) PROVE SQ!Next
    BY <2>5, WakeupMeets DEF SQ!Next
  <2>6. CASE UNCHANGED vars
    BY <2>6 DEF vars, SQ!vars, Asleep, Counted
  <2>7. QED BY <2>1, <2>2, <2>3, <2>4, <2>5, <2>6 DEF Next, Step
<1>3. QED BY <1>1, <1>2, TInvHolds, PTL DEF Spec, SleepsProperly, SQ!Spec

(***************************************************************************)
(* The theorems of SleepQueue therefore hold of the semaphore.             *)
(***************************************************************************)
SQP == INSTANCE SleepQueueProofs WITH nsleep <- Counted, asleep <- Asleep

(***************************************************************************)
(* More threads are asleep than are on the count while a release is owed.  *)
(***************************************************************************)
DebtsCovered == \A r \in Thread : owed[r] > 0 => Cardinality(Asleep) > Counted

LEMMA DebtsHolds == Spec => []DebtsCovered
<1>1. SQ!Spec => []SQP!IInv
  BY SQP!IInvHolds, PTL
     DEF SQ!Init, SQP!Init, SQ!vars, SQP!vars, SQ!Next, SQP!Next,
         SQ!Enlist, SQP!Enlist, SQ!Depart, SQP!Depart, SQ!Wake, SQP!Wake,
         SQ!Meet, SQP!Meet, SQ!Spec, SQP!Spec
<1>2. TInv /\ SQP!IInv => DebtsCovered
  <2> SUFFICES ASSUME TInv, SQP!IInv, NEW r \in Thread, owed[r] > 0
               PROVE  Cardinality(Asleep) > Counted
    BY DEF DebtsCovered
  <2>1. IsFiniteSet(SQP!Debts) /\ Counted + Cardinality(SQP!Debts) = Cardinality(Asleep)
    BY DEF SQP!IInv, SQP!Conservation, SQP!IsFiniteSet, IsFiniteSet,
           SQP!Cardinality, Cardinality
  <2>2. <<r, 1>> \in SQP!Debts
    BY DEF SQP!Debts, TInv, TypeOK
  <2>3. Cardinality(SQP!Debts) \in Nat /\ Cardinality(SQP!Debts) # 0
    BY <2>1, <2>2, FS_CardinalityType, FS_EmptySet
  <2>4. QED BY <2>1, <2>3 DEF Counted, TInv, TypeOK
<1>3. QED BY <1>1, <1>2, SemSleepsProperly, TInvHolds, PTL DEF SleepsProperly

-----------------------------------------------------------------------------

(***************************************************************************)
(* Only finitely many threads ever wait.                                   *)
(***************************************************************************)
FinitelyMany == IsFiniteSet(Waiting)

LEMMA AsleepWait ==
  ASSUME FinitelyMany
  PROVE  Asleep \subseteq Waiting /\ IsFiniteSet(Asleep)
<1>1. Asleep \subseteq Waiting
  BY DEF Asleep, Waiting
<1>2. QED BY <1>1, FS_Subset DEF FinitelyMany

LEMMA FinitelyManyNext == TInv /\ FinitelyMany /\ [Next]_vars => FinitelyMany'
<1> SUFFICES ASSUME TInv, FinitelyMany, [Next]_vars PROVE FinitelyMany'
  OBVIOUS
<1> USE DEF Waiting, TInv, TypeOK
<1>1. ASSUME NEW t \in Thread, CallWait(t) \/ Step(t) PROVE Waiting' \subseteq Waiting \cup {t}
  BY <1>1 DEF CallWait, Enters, Step, WaitTake, WaitFail, Returns, WaitSleep, Sleeps,
              LeaveCounted, LeaveOwed, AwaitsRelease, WaitTimeout, WaitTimesOut, PollTimesOut
<1>2. ASSUME NEW t \in Thread, NEW n \in 1..ValueMax, Signal(t, n) PROVE Waiting' \subseteq Waiting
  BY <1>2 DEF Signal, BeginsRelease
<1>3. ASSUME NEW w \in Thread, NEW r \in Thread, Wakeup(w, r) PROVE Waiting' \subseteq Waiting
  BY <1>3 DEF Wakeup, Handoff, Parked
<1>4. ASSUME UNCHANGED vars PROVE Waiting' \subseteq Waiting
  BY <1>4 DEF vars
<1>5. \E t : Waiting' \subseteq Waiting \cup {t}
  BY <1>1, <1>2, <1>3, <1>4 DEF Next
<1> HIDE DEF Waiting
<1>6. QED BY <1>5, FS_AddElement, FS_Subset DEF FinitelyMany

LEMMA FinitelyManyHolds == Spec => []FinitelyMany
<1>1. Init => FinitelyMany
  <2> SUFFICES ASSUME Init PROVE FinitelyMany
    OBVIOUS
  <2>1. Waiting = {}
    BY DEF Init, Waiting
  <2>2. QED BY <2>1, FS_EmptySet DEF FinitelyMany
<1>2. QED BY <1>1, FinitelyManyNext, TInvHolds, PTL DEF Spec

-----------------------------------------------------------------------------

LEMMA TokensInit == Init => TokensConserved
<1> SUFFICES ASSUME Init PROVE TokensConserved
  OBVIOUS
<1>1. Asleep = {}
  BY DEF Init, Asleep
<1>2. QED BY <1>1, FS_EmptySet, SemParameters DEF Init, TokensConserved, Tokens

LEMMA TokensNext ==
  TInv /\ FinitelyMany /\ TokensConserved /\ [Next]_vars => TokensConserved'
<1> SUFFICES ASSUME TInv, FinitelyMany, TokensConserved, [Next]_vars
             PROVE  TokensConserved'
  OBVIOUS
<1> USE SemParameters DEF TokensConserved, Tokens
<1>0. IsFiniteSet(Asleep) /\ Cardinality(Asleep) \in Nat
  BY AsleepWait, FS_CardinalityType
<1> USE <1>0
<1>1. ASSUME NEW t \in Thread, CallWait(t) \/ WaitTake(t) \/ WaitFail(t)
      PROVE  TokensConserved'
  <2>1. Asleep' = Asleep
    BY <1>1 DEF CallWait, Enters, WaitTake, WaitFail, Returns, Asleep, TInv, TypeOK
  <2>2. QED BY <1>1, <2>1 DEF CallWait, WaitTake, WaitFail, TInv, TypeOK
<1>2. ASSUME NEW t \in Thread, LeaveOwed(t) \/ WaitTimeout(t) PROVE TokensConserved'
  <2>1. Asleep' = Asleep
    BY <1>2 DEF LeaveOwed, AwaitsRelease, WaitTimeout, WaitTimesOut, PollTimesOut,
                Asleep, TInv, TypeOK
  <2>2. QED BY <1>2, <2>1 DEF LeaveOwed, WaitTimeout
<1>3. ASSUME NEW t \in Thread, WaitSleep(t) PROVE TokensConserved'
  <2>1. Asleep' = Asleep \cup {t} /\ t \notin Asleep
    BY <1>3, SleepEnlists DEF SQ!Enlist
  <2>2. Cardinality(Asleep') = Cardinality(Asleep) + 1
    BY <2>1, FS_AddElement
  <2>3. QED BY <1>3, <2>2 DEF WaitSleep, TInv, TypeOK
<1>4. ASSUME NEW t \in Thread, LeaveCounted(t) PROVE TokensConserved'
  <2>1. Asleep' = Asleep \ {t} /\ t \in Asleep
    BY <1>4, LeaverDeparts DEF SQ!Depart
  <2>2. Cardinality(Asleep') = Cardinality(Asleep) - 1
    BY <2>1, FS_RemoveElement
  <2>3. QED BY <1>4, <2>2 DEF LeaveCounted, TInv, TypeOK
<1>5. ASSUME NEW t \in Thread, NEW n \in 1..ValueMax, Signal(t, n) PROVE TokensConserved'
  <2>1. Asleep' = Asleep
    BY <1>5 DEF Signal, BeginsRelease, Asleep, TInv, TypeOK
  <2>2. QED BY <1>5, <2>1 DEF Signal, TInv, TypeOK
<1>6. ASSUME NEW w \in Thread, NEW r \in Thread, Wakeup(w, r) PROVE TokensConserved'
  <2>1. Asleep' = Asleep \ {w} /\ w \in Asleep
    BY <1>6, WakeupMeets DEF SQ!Meet
  <2>2. Cardinality(Asleep') = Cardinality(Asleep) - 1
    BY <2>1, FS_RemoveElement
  <2>3. QED BY <1>6, <2>2 DEF Wakeup, TInv, TypeOK
<1>7. CASE UNCHANGED vars
  BY <1>7 DEF vars, Asleep
<1>8. QED BY <1>1, <1>2, <1>3, <1>4, <1>5, <1>6, <1>7 DEF Next, Step

(***************************************************************************)
(* No token is lost or made: those that have been posted and not been      *)
(* taken are in the value or on their way to a sleeper.                    *)
(***************************************************************************)
THEOREM TokensAreConserved == Spec => []TokensConserved
BY TokensInit, TokensNext, TInvHolds, FinitelyManyHolds, PTL DEF Spec

-----------------------------------------------------------------------------

(***************************************************************************)
(* What the steps of the calls rest on.                                    *)
(***************************************************************************)
SInv == TInv /\ FinitelyMany /\ TokensConserved /\ DebtsCovered

LEMMA CallerRequests ==
  ASSUME SInv, NEW t \in Thread, CallWait(t)
  PROVE  CS!Request(t)
<1> USE DEF SInv, TInv, TypeOK
<1>1. PICK k \in TimeoutKind : tmo' = [tmo EXCEPT ![t] = k]
  BY DEF CallWait, Enters
<1>2. Calls[t] = "none" /\ Tokens' = Tokens
  BY DEF CallWait, Enters, Calls, Waiting, Tokens
<1>3. Calls' = [Calls EXCEPT ![t] = CallKindOf(k)]
  BY <1>1 DEF CallWait, Enters, Calls, Waiting
<1>4. CallKindOf(k) \in CS!CallKind
  BY DEF CallKindOf, CS!CallKind
<1>5. QED BY <1>2, <1>3, <1>4 DEF CS!Request

LEMMA ReturnClearsCall ==
  ASSUME SInv, NEW t \in Thread, Returns(t, "idle"), pc[t] \in {"try", "leave"}
  PROVE  /\ Calls' = [Calls EXCEPT ![t] = "none"]
         /\ Calls[t] = CallKindOf(tmo[t]) /\ Calls[t] # "none"
BY DEF Returns, Calls, Waiting, CallKindOf, SInv, TInv, TypeOK

LEMMA CallerTakes ==
  ASSUME SInv, NEW t \in Thread, WaitTake(t)
  PROVE  CS!Take(t)
<1>1. Cardinality(Asleep) \in Nat
  BY AsleepWait, FS_CardinalityType DEF SInv
<1>2. Tokens > 0 /\ Tokens' = Tokens - 1
  BY <1>1, SemParameters DEF WaitTake, TokensConserved, Tokens, SInv, TInv, TypeOK
<1>3. QED BY <1>2, ReturnClearsCall DEF WaitTake, CS!Take

(***************************************************************************)
(* All who sleep have claimed their tokens in advance, so a call that does *)
(* not wait finds none when there are no more than other waiters.          *)
(***************************************************************************)
LEMMA CallerFails ==
  ASSUME SInv, NEW t \in Thread, WaitFail(t) \/ LeaveCounted(t)
  PROVE  CS!Fail(t)
<1>1. Tokens' = Tokens
  BY DEF WaitFail, LeaveCounted, Tokens
<1>2. CASE LeaveCounted(t)
  <2>1. Calls[t] = "timed"
    BY <1>2, ReturnClearsCall DEF LeaveCounted, CallKindOf, SInv, TInv, WaitsAsCalled
  <2>2. QED BY <1>1, <1>2, <2>1, ReturnClearsCall DEF LeaveCounted, CS!Fail
<1>3. CASE WaitFail(t)
  <2>1. Calls[t] = "try"
    BY <1>3, ReturnClearsCall DEF WaitFail, CallKindOf
  <2>2. CS!Waiters = Waiting
    BY DEF CS!Waiters, Calls, CallKindOf, Waiting
  <2>3. Asleep \subseteq Waiting \ {t}
    BY <1>3, AsleepWait DEF WaitFail, Asleep, SInv
  <2>4. IsFiniteSet(Waiting \ {t})
    BY FS_Subset DEF SInv, FinitelyMany
  <2>5. /\ Cardinality(Asleep) <= Cardinality(Waiting \ {t})
        /\ Cardinality(Asleep) \in Nat /\ Cardinality(Waiting \ {t}) \in Nat
    BY <2>3, <2>4, FS_Subset, FS_CardinalityType
  <2>6. Tokens <= Cardinality(Waiting \ {t})
    BY <1>3, <2>5 DEF WaitFail, TokensConserved, SInv, TInv, TypeOK
  <2>7. Tokens <= CS!Cardinality(CS!Waiters \ {t})
    BY <2>2, <2>6 DEF CS!Cardinality, Cardinality
  <2>8. QED BY <1>1, <1>3, <2>1, <2>7, ReturnClearsCall DEF WaitFail, CS!Fail
<1>4. QED BY <1>2, <1>3

LEMMA CallerWoken ==
  ASSUME SInv, NEW w \in Thread, NEW r \in Thread, Wakeup(w, r)
  PROVE  CS!Take(w)
<1>1. w # r /\ pc[w] \in {"wait", "poll"} /\ owed[r] > 0
  BY DEF Wakeup, Handoff, Parked, SInv, TInv, WaitsAsCalled
<1>2. Calls[w] # "none"
  BY <1>1 DEF Calls, Waiting, CallKindOf
<1>3. Calls' = [Calls EXCEPT ![w] = "none"]
  BY <1>1 DEF Wakeup, Handoff, Calls, Waiting, SInv, TInv, TypeOK
<1>4. Cardinality(Asleep) > Counted /\ Cardinality(Asleep) \in Nat
  BY <1>1, AsleepWait, FS_CardinalityType DEF SInv, DebtsCovered
<1>5. Tokens > 0 /\ Tokens' = Tokens - 1
  BY <1>4, SemParameters
     DEF Wakeup, Counted, TokensConserved, Tokens, SInv, TInv, TypeOK
<1>6. QED BY <1>2, <1>3, <1>5 DEF CS!Take

(***************************************************************************)
(* The value stays below its maximum, and what the tokens have in excess   *)
(* of it is claimed by the sleepers.                                       *)
(***************************************************************************)
LEMMA SignalPosts ==
  ASSUME SInv, NEW t \in Thread, NEW n \in 1..ValueMax, Signal(t, n)
  PROVE  CS!Post(n)
<1>1. Calls' = Calls
  BY DEF Signal, BeginsRelease, Calls, Waiting, SInv, TInv, TypeOK
<1>2. Tokens' = Tokens + n
  BY SemParameters DEF Signal, Tokens, SInv, TInv, TypeOK
<1>3. CS!Waiters = Waiting
  BY DEF CS!Waiters, Calls, CallKindOf, Waiting
<1>4. /\ Cardinality(Asleep) <= Cardinality(Waiting)
      /\ Cardinality(Asleep) \in Nat /\ Cardinality(Waiting) \in Nat
  BY AsleepWait, FS_Subset, FS_CardinalityType DEF SInv, FinitelyMany
<1>5. Tokens + n <= ValueMax + Cardinality(Waiting)
  BY <1>4, SemParameters DEF Signal, TokensConserved, SInv, TInv, TypeOK
<1>6. Tokens + n <= ValueMax + CS!Cardinality(CS!Waiters)
  BY <1>3, <1>5 DEF CS!Cardinality, Cardinality
<1>7. QED BY <1>1, <1>2, <1>6 DEF CS!Post

LEMMA SleepingKeepsCalls ==
  ASSUME SInv, NEW t \in Thread, WaitSleep(t) \/ LeaveOwed(t) \/ WaitTimeout(t)
  PROVE  UNCHANGED CS!vars
BY DEF WaitSleep, Sleeps, LeaveOwed, AwaitsRelease, WaitTimeout, WaitTimesOut,
       PollTimesOut, Calls, Waiting, Tokens, CS!vars, SInv, TInv, TypeOK

(***************************************************************************)
(* To its callers the semaphore is a counter of tokens: nobody takes one   *)
(* that is not there, and sem_wait fails without waiting only when others  *)
(* claim all that there are.                                               *)
(***************************************************************************)
THEOREM SemIsCounter == Spec => IsCountingSem
<1>1. Init => CS!Init
  BY SemParameters DEF Init, CS!Init, Calls, Waiting, Tokens
<1>2. SInv /\ [Next]_vars => [CS!Next]_(CS!vars)
  <2> SUFFICES ASSUME SInv, [Next]_vars PROVE CS!Next \/ UNCHANGED CS!vars
    BY DEF CS!vars
  <2>1. ASSUME NEW t \in Thread, CallWait(t) PROVE CS!Next
    BY <2>1, CallerRequests DEF CS!Next
  <2>2. ASSUME NEW t \in Thread, WaitTake(t) PROVE CS!Next
    BY <2>2, CallerTakes DEF CS!Next
  <2>3. ASSUME NEW t \in Thread, WaitFail(t) \/ LeaveCounted(t) PROVE CS!Next
    BY <2>3, CallerFails DEF CS!Next
  <2>4. ASSUME NEW t \in Thread, WaitSleep(t) \/ LeaveOwed(t) \/ WaitTimeout(t)
        PROVE  UNCHANGED CS!vars
    BY <2>4, SleepingKeepsCalls
  <2>5. ASSUME NEW t \in Thread, NEW n \in 1..ValueMax, Signal(t, n) PROVE CS!Next
    BY <2>5, SignalPosts DEF CS!Next
  <2>6. ASSUME NEW w \in Thread, NEW r \in Thread, Wakeup(w, r) PROVE CS!Next
    BY <2>6, CallerWoken DEF CS!Next
  <2>7. CASE UNCHANGED vars
    BY <2>7 DEF vars, Calls, Waiting, Tokens, CS!vars
  <2>8. QED BY <2>1, <2>2, <2>3, <2>4, <2>5, <2>6, <2>7 DEF Next, Step
<1>3. QED
  BY <1>1, <1>2, TInvHolds, FinitelyManyHolds, TokensAreConserved, DebtsHolds, PTL
     DEF Spec, IsCountingSem, CS!Spec, SInv
=============================================================================
