---------------------------- MODULE BroadcastProofs --------------------------
(***************************************************************************)
(* Proofs about the two primitives that wake all their sleepers: the event *)
(* and the shared mutex, for any set of threads, any values, and any       *)
(* widths of the fields.                                                   *)
(***************************************************************************)
EXTENDS Event, SharedMutex, FiniteSetTheorems, TLAPS

(***************************************************************************)
(* A thread releases as long as it owes anything, and a thread in a call   *)
(* waits for one of the values that the program waits for.                 *)
(***************************************************************************)
OwesInRelease == \A t \in Thread : pc[t] = "release" <=> owed[t] > 0

WaitsForUndesired ==
    \A t \in Thread : pc[t] \in {"check", "wait", "leave", "poll"} => undesired[t] \in Undesired

TInv == TypeOK /\ OwesInRelease /\ WaitsForUndesired

LEMMA TInvHolds == Spec => []TInv
<1> USE DEF TInv, TypeOK, OwesInRelease, WaitsForUndesired, PC, KernelPC, TimeoutKind
<1>1. Init => TInv
  BY EventParameters DEF Init
<1>2. TInv /\ [Next]_vars => TInv'
  <2> SUFFICES ASSUME TInv, [Next]_vars PROVE TInv'
    OBVIOUS
  <2> USE DEF eventVars
  <2>1. ASSUME NEW t \in Thread, CallAwait(t) PROVE TInv'
    BY <2>1 DEF CallAwait, Enters
  <2>2. ASSUME NEW t \in Thread, AwaitDone(t) \/ AwaitFail(t) PROVE TInv'
    BY <2>2 DEF AwaitDone, AwaitFail, Returns
  <2>3. ASSUME NEW t \in Thread, AwaitSleep(t) PROVE TInv'
    BY <2>3 DEF AwaitSleep, Sleeps
  <2>4. ASSUME NEW t \in Thread, LeaveCounted(t) PROVE TInv'
    BY <2>4 DEF LeaveCounted, Returns
  <2>5. ASSUME NEW t \in Thread, LeaveOwed(t) PROVE TInv'
    BY <2>5 DEF LeaveOwed, AwaitsRelease
  <2>6. ASSUME NEW t \in Thread, WaitTimeout(t) PROVE TInv'
    BY <2>6 DEF WaitTimeout, WaitTimesOut, PollTimesOut
  <2>7. ASSUME NEW t \in Thread, NEW v \in Value, Set(t, v) PROVE TInv'
    BY <2>7 DEF Set, BeginsRelease
  <2>8. ASSUME NEW w \in Thread, NEW r \in Thread, Wakeup(w, r) PROVE TInv'
    BY <2>8 DEF Wakeup, Handoff, Adjusted, Parked
  <2>9. CASE UNCHANGED vars
    BY <2>9 DEF vars
  <2>10. QED
    BY <2>1, <2>2, <2>3, <2>4, <2>5, <2>6, <2>7, <2>8, <2>9 DEF Next, Step
<1>3. QED BY <1>1, <1>2, PTL DEF Spec

(***************************************************************************)
(* The fields of the event stay within their types.                        *)
(***************************************************************************)
THEOREM TypeCorrect == Spec => []TypeOK
BY TInvHolds, PTL DEF TInv

-----------------------------------------------------------------------------

LEMMA SleepersKept ==
  ASSUME \A t \in Thread : pc'[t] \in {"wait", "leave", "poll"}
                            <=> pc[t] \in {"wait", "leave", "poll"},
         UNCHANGED <<nsleep, owed>>
  PROVE  UNCHANGED SQ!vars
BY DEF SQ!vars, Asleep

LEMMA SleepEnlists ==
  ASSUME TInv, NEW t \in Thread, AwaitSleep(t)
  PROVE  SQ!Enlist(t)
<1>1. t \notin Asleep /\ owed[t] = 0
  BY DEF TInv, TypeOK, OwesInRelease, Asleep, AwaitSleep
<1>2. Asleep' = Asleep \cup {t}
  BY DEF Asleep, TInv, TypeOK, AwaitSleep, Sleeps
<1>3. QED BY <1>1, <1>2 DEF AwaitSleep, Sleeps, SQ!Enlist

LEMMA LeaverDeparts ==
  ASSUME TInv, NEW t \in Thread, LeaveCounted(t)
  PROVE  SQ!Depart(t)
<1>1. t \in Asleep /\ Asleep' = Asleep \ {t}
  BY DEF LeaveCounted, Returns, TInv, TypeOK, Asleep
<1>2. QED BY <1>1 DEF LeaveCounted, Returns, SQ!Depart

LEMMA SetWakes ==
  ASSUME TInv, NEW t \in Thread, NEW v \in Value, Set(t, v)
  PROVE  (SQ!Wake(t, nsleep) /\ nsleep \in 1..nsleep) \/ UNCHANGED SQ!vars
<1>1. t \notin Asleep /\ owed[t] = 0 /\ nsleep \in Nat
  BY DEF TInv, TypeOK, OwesInRelease, Asleep, Set
<1>2. Asleep' = Asleep /\ owed' = [owed EXCEPT ![t] = nsleep] /\ nsleep' = 0
  BY DEF Asleep, TInv, TypeOK, Set, BeginsRelease
<1>3. CASE nsleep = 0
  BY <1>1, <1>2, <1>3 DEF SQ!vars, TInv, TypeOK
<1>4. CASE nsleep # 0
  <2>1. nsleep' = nsleep - nsleep /\ nsleep \in 1..nsleep
    BY <1>1, <1>2, <1>4
  <2>2. QED BY <1>1, <1>2, <2>1 DEF SQ!Wake
<1>5. QED BY <1>3, <1>4

LEMMA WakeupMeets ==
  ASSUME TInv, NEW w \in Thread, NEW r \in Thread, Wakeup(w, r)
  PROVE  SQ!Meet(w, r)
<1>1. w \in Asleep /\ w # r /\ owed[r] > 0
  BY DEF TInv, OwesInRelease, Wakeup, Handoff, Parked, Asleep
<1>2. Asleep' = Asleep \ {w}
  BY <1>1 DEF TInv, TypeOK, Asleep, Wakeup, Handoff
<1>3. owed' = [owed EXCEPT ![r] = @ - 1] /\ nsleep' = nsleep
  BY DEF Wakeup, Handoff, eventVars
<1>4. QED BY <1>1, <1>2, <1>3 DEF SQ!Meet

(***************************************************************************)
(* The sleeping count of the event follows the protocol of SleepQueue.     *)
(***************************************************************************)
THEOREM EventSleepsProperly == Spec => SleepsProperly
<1>1. Init => SQ!Init
  BY DEF Init, SQ!Init, Asleep
<1>2. TInv /\ [Next]_vars => [SQ!Next]_(SQ!vars)
  <2> SUFFICES ASSUME TInv, [Next]_vars PROVE SQ!Next \/ UNCHANGED SQ!vars
    BY DEF SQ!vars
  <2> USE DEF eventVars
  <2>1. ASSUME NEW t \in Thread, CallAwait(t) PROVE UNCHANGED SQ!vars
    BY <2>1, SleepersKept DEF CallAwait, Enters, TInv, TypeOK
  <2>2. ASSUME NEW t \in Thread, AwaitDone(t) \/ AwaitFail(t) PROVE UNCHANGED SQ!vars
    BY <2>2, SleepersKept DEF AwaitDone, AwaitFail, Returns, TInv, TypeOK
  <2>3. ASSUME NEW t \in Thread, AwaitSleep(t) PROVE SQ!Next
    BY <2>3, SleepEnlists DEF SQ!Next
  <2>4. ASSUME NEW t \in Thread, LeaveCounted(t) PROVE SQ!Next
    BY <2>4, LeaverDeparts DEF SQ!Next
  <2>5. ASSUME NEW t \in Thread, LeaveOwed(t) \/ WaitTimeout(t) PROVE UNCHANGED SQ!vars
    BY <2>5, SleepersKept
       DEF LeaveOwed, AwaitsRelease, WaitTimeout, WaitTimesOut, PollTimesOut, TInv, TypeOK
  <2>6. ASSUME NEW t \in Thread, NEW v \in Value, Set(t, v)
        PROVE  SQ!Next \/ UNCHANGED SQ!vars
    BY <2>6, SetWakes DEF SQ!Next
  <2>7. ASSUME NEW w \in Thread, NEW r \in Thread, Wakeup(w, r) PROVE SQ!Next
    BY <2>7, WakeupMeets DEF SQ!Next
  <2>8. CASE UNCHANGED vars
    BY <2>8, SleepersKept DEF vars
  <2>9. QED
    BY <2>1, <2>2, <2>3, <2>4, <2>5, <2>6, <2>7, <2>8 DEF Next, Step
<1>3. QED BY <1>1, <1>2, TInvHolds, PTL DEF Spec, SleepsProperly, SQ!Spec

-----------------------------------------------------------------------------

(***************************************************************************)
(* The theorems of SleepQueue therefore hold of the event, and where they  *)
(* are needed of the shared mutex.                                         *)
(***************************************************************************)
SQP == INSTANCE SleepQueueProofs WITH asleep <- Asleep

LEMMA CountIsQuiet == SQ!Spec => []SQ!QuietIffEmpty
<1> USE DEF SQ!Init, SQP!Init, SQ!vars, SQP!vars, SQ!Next, SQP!Next,
            SQ!Enlist, SQP!Enlist, SQ!Depart, SQP!Depart, SQ!Wake, SQP!Wake,
            SQ!Meet, SQP!Meet, SQ!Spec, SQP!Spec
<1> QED
  BY SQP!NobodyForgotten, PTL DEF SQ!QuietIffEmpty, SQP!QuietIffEmpty

LEMMA SleepersCovered == Spec => []SQ!QuietIffEmpty
BY CountIsQuiet, EventSleepsProperly, PTL DEF SleepsProperly

(***************************************************************************)
(* When all wait for the same value to go away, nobody is on the count     *)
(* while it is gone: a set clears the count, and nobody joins.             *)
(***************************************************************************)
NobodyCounted == \A u \in Undesired : value # u => nsleep = 0

LEMMA CountCleared ==
  ASSUME NEW u, Undesired = {u}
  PROVE  Spec => []NobodyCounted
<1>1. Init => NobodyCounted
  BY DEF Init, NobodyCounted
<1>2. TInv /\ NobodyCounted /\ [Next]_vars => NobodyCounted'
  <2> SUFFICES ASSUME TInv, NobodyCounted, [Next]_vars PROVE NobodyCounted'
    OBVIOUS
  <2> USE DEF NobodyCounted, eventVars
  <2>1. ASSUME NEW t \in Thread, CallAwait(t) \/ AwaitDone(t) \/ AwaitFail(t)
        PROVE  NobodyCounted'
    BY <2>1 DEF CallAwait, AwaitDone, AwaitFail
  <2>2. ASSUME NEW t \in Thread, AwaitSleep(t) PROVE NobodyCounted'
    BY <2>2 DEF AwaitSleep, TInv, WaitsForUndesired
  <2>3. ASSUME NEW t \in Thread, LeaveCounted(t) PROVE NobodyCounted'
    BY <2>3 DEF LeaveCounted, TInv, TypeOK
  <2>4. ASSUME NEW t \in Thread, LeaveOwed(t) \/ WaitTimeout(t) PROVE NobodyCounted'
    BY <2>4 DEF LeaveOwed, WaitTimeout
  <2>5. ASSUME NEW t \in Thread, NEW v \in Value, Set(t, v) PROVE NobodyCounted'
    BY <2>5 DEF Set
  <2>6. ASSUME NEW w \in Thread, NEW r \in Thread, Wakeup(w, r) PROVE NobodyCounted'
    BY <2>6 DEF Wakeup
  <2>7. CASE UNCHANGED vars
    BY <2>7 DEF vars
  <2>8. QED BY <2>1, <2>2, <2>3, <2>4, <2>5, <2>6, <2>7 DEF Next, Step
<1>3. QED BY <1>1, <1>2, TInvHolds, PTL DEF Spec

(***************************************************************************)
(* A change is seen by every sleeper when all wait for the same value to   *)
(* go away, as the callers in this library do, whatever is stored.         *)
(***************************************************************************)
THEOREM ChangeReachesSleepers ==
  ASSUME NEW u, Undesired = {u}
  PROVE  Spec => []ChangeIsSeen
<1>1. TInv /\ NobodyCounted /\ SQ!QuietIffEmpty => ChangeIsSeen
  <2> SUFFICES ASSUME TInv, NobodyCounted, SQ!QuietIffEmpty,
                      NEW t \in Asleep, value # undesired[t]
               PROVE  \E r \in Thread : owed[r] > 0
    BY DEF ChangeIsSeen
  <2>1. t \in Thread /\ undesired[t] \in Undesired
    BY DEF Asleep, TInv, WaitsForUndesired
  <2>2. nsleep = 0
    BY <2>1 DEF NobodyCounted
  <2>3. PICK r \in Thread : owed[r] # 0
    BY <2>2 DEF SQ!QuietIffEmpty
  <2>4. QED BY <2>3 DEF TInv, TypeOK
<1>2. QED BY <1>1, TInvHolds, CountCleared, SleepersCovered, PTL
-----------------------------------------------------------------------------
(* The shared mutex *)

(***************************************************************************)
(* The arithmetic of the inline functions.  The parts of a word, and what  *)
(* is left when one is added to the part that has room for it.             *)
(***************************************************************************)
LEMMA Divided ==
  ASSUME NEW n \in Nat \ {0}, NEW r \in 0 .. n - 1, NEW q \in Nat
  PROVE  (r + n * q) % n = r /\ (r + n * q) \div n = q
OBVIOUS

LEMMA Widths ==
  /\ ShareValues \in Nat \ {0, 1, 2} /\ WordValues \in Nat \ {0}
  /\ Exclusively \in Nat /\ Exclusively = ShareValues - 1
  /\ MaxShare \in Nat \ {0} /\ MaxShare = ShareValues - 2
BY WidthAssumption DEF Exclusively, MaxShare

LEMMA WordParts ==
  ASSUME SharedTypeOK
  PROVE  /\ Bits \in Nat
         /\ Bits % ShareValues = nshare /\ Bits \div ShareValues = nsleep
         /\ Bits <= Exclusively => nsleep = 0 /\ Bits = nshare
<1> USE Widths DEF SharedTypeOK
<1>1. ShareValues * nsleep \in Nat
  OBVIOUS
<1>2. Bits \in Nat
  BY <1>1 DEF Bits
<1>3. Bits % ShareValues = nshare /\ Bits \div ShareValues = nsleep
  BY Divided DEF Bits
<1>4. nsleep > 0 => ShareValues * nsleep >= ShareValues
  OBVIOUS
<1>5. nsleep = 0 => Bits = nshare
  BY DEF Bits
<1>6. ASSUME Bits <= Exclusively PROVE nsleep = 0
  BY <1>1, <1>4, <1>6 DEF Bits
<1>7. QED BY <1>2, <1>3, <1>5, <1>6

(***************************************************************************)
(* _MCF_shared_mutex_unlock on a word whose sleeping count is zero: the    *)
(* mask is all ones for a reader, and zero for a writer.                   *)
(***************************************************************************)
LEMMA UnlockedWord ==
  ASSUME NEW n \in 1 .. Exclusively
  PROVE  Unlocked(n) = IF n = Exclusively THEN 0 ELSE n - 1
<1> USE Widths
<1> DEFINE d == n - Exclusively
<1>1. CASE n = Exclusively
  <2>1. d % WordValues = 0
    BY <1>1
  <2>2. (d % WordValues) \div ShareValues = 0
    BY <2>1
  <2>3. Unlocked(n) = (n - 1) % 1
    BY <2>2 DEF Unlocked, LowMasked
  <2>4. QED BY <1>1, <2>3
<1>2. CASE n # Exclusively
  <2>1. PICK k \in ShareValues .. WordValues : WordValues = k * ShareValues
    BY WidthAssumption
  <2>2. d \in Int /\ d < 0 /\ d + ShareValues >= 2 /\ d + WordValues \in 0 .. WordValues - 1
    <3>1. WordValues >= ShareValues
      BY <2>1
    <3>2. QED BY <1>2, <3>1
  <2>3. d % WordValues = d + WordValues
    BY <2>2
  <2>4. d + WordValues = (d + ShareValues) + ShareValues * (k - 1)
    BY <2>1, <2>2
  <2>5. (d % WordValues) \div ShareValues = k - 1
    <3>1. d + ShareValues \in 0 .. ShareValues - 1 /\ k - 1 \in Nat
      BY <2>1, <2>2
    <3>2. ((d + ShareValues) + ShareValues * (k - 1)) \div ShareValues = k - 1
      BY <3>1, Divided
    <3>3. QED BY <2>3, <2>4, <3>2
  <2>6. Unlocked(n) = (n - 1) % k
    BY <2>1, <2>5 DEF Unlocked, LowMasked
  <2>7. n - 1 \in 0 .. k - 1
    BY <2>1
  <2>8. QED BY <1>2, <2>1, <2>6, <2>7
<1>3. QED BY <1>1, <1>2

-----------------------------------------------------------------------------

(***************************************************************************)
(* The inline functions do what the functions they stand for would do: a   *)
(* grant is the same on either way, and so is an unlock.                   *)
(***************************************************************************)
Granted(t) ==
    /\ pc[t] \in {"fast", "lock"}
    /\ \/ mode[t] = "shared" /\ nshare < MaxShare /\ nshare' = nshare + 1
       \/ mode[t] = "exclusive" /\ nshare = 0 /\ nshare' = Exclusively
    /\ Returns(t, "hold")
    /\ UNCHANGED <<nsleep, mode>>

LEMMA SharesAlike ==
  ASSUME SharedTypeOK, NEW t \in Thread, ShareFast(t)
  PROVE  Granted(t)
<1> USE Widths DEF SharedTypeOK, ShareFast, Store
<1>1. nsleep = 0 /\ Bits = nshare /\ nshare < MaxShare
  BY WordParts
<1>2. nshare + 1 \in 0 .. ShareValues - 1
  BY <1>1
<1>3. (nshare + 1) % ShareValues = nshare + 1 /\ (nshare + 1) \div ShareValues = 0
  BY <1>2
<1>4. QED BY <1>1, <1>3 DEF Granted

LEMMA LocksAlike ==
  ASSUME SharedTypeOK, NEW t \in Thread, LockFast(t)
  PROVE  Granted(t)
<1> USE Widths DEF SharedTypeOK, LockFast
<1>1. nshare = 0
  BY WordParts DEF LowMasked
<1>2. Bits + Exclusively = Exclusively + ShareValues * nsleep
  BY <1>1 DEF Bits
<1>3. /\ (Exclusively + ShareValues * nsleep) % ShareValues = Exclusively
      /\ (Exclusively + ShareValues * nsleep) \div ShareValues = nsleep
  BY Divided
<1>4. nshare' = Exclusively /\ nsleep' = nsleep
  BY <1>2, <1>3 DEF Store
<1>5. QED BY <1>1, <1>4 DEF Granted

LEMMA GrantsAlike ==
  ASSUME SharedTypeOK, NEW t \in Thread, ShareFast(t) \/ LockFast(t) \/ LockGrant(t)
  PROVE  Granted(t)
<1>1. CASE LockGrant(t)
  BY <1>1 DEF LockGrant, Granted, CanGrant, CanShare, SharedTypeOK
<1>2. QED BY <1>1, SharesAlike, LocksAlike

LEMMA UnlocksAlike ==
  ASSUME SharedTypeOK, nshare > 0, NEW t \in Thread, UnlockFast(t)
  PROVE  Unlock(t)
<1> USE Widths DEF SharedTypeOK, UnlockFast
<1> DEFINE left == IF nshare = Exclusively THEN 0 ELSE nshare - 1
<1>1. nsleep = 0 /\ Bits = nshare
  BY WordParts
<1>2. Unlocked(Bits) = left
  BY <1>1, UnlockedWord
<1>3. left \in 0 .. ShareValues - 1
  OBVIOUS
<1>4. left % ShareValues = left /\ left \div ShareValues = 0
  BY <1>3
<1>5. nshare' = left /\ nsleep' = 0
  BY <1>2, <1>4 DEF Store
<1>6. QED BY <1>1, <1>5 DEF Unlock

-----------------------------------------------------------------------------

(***************************************************************************)
(* __nshare counts the readers, or says that there is one writer; while    *)
(* anybody sleeps on the count somebody holds the mutex; a thread that     *)
(* leaves has a timeout that has passed, and only who is willing to wait   *)
(* sleeps.                                                                 *)
(***************************************************************************)
Readers == Holding("shared")

Writers == Holding("exclusive")

SharesCounted ==
    \/ /\ nshare <= MaxShare /\ Writers = {}
       /\ IsFiniteSet(Readers) /\ Cardinality(Readers) = nshare
    \/ /\ nshare = Exclusively /\ Readers = {}
       /\ \E t \in Thread : Writers = {t}

SleepersSeeHolder == nsleep > 0 => nshare > 0

LeaversCanExpire ==
    \A t \in Thread :
        /\ pc[t] \in {"leave", "poll"} => tmo[t] \in {"rel", "abs"}
        /\ pc[t] = "wait" => tmo[t] # "zero"

SharedInv ==
    /\ SharedTypeOK /\ OwesInRelease /\ LeaversCanExpire
    /\ SharesCounted /\ SleepersSeeHolder

LEMMA HolderIsCounted ==
  ASSUME SharedTypeOK, SharesCounted, NEW t \in Thread, pc[t] = "hold"
  PROVE  nshare > 0
<1> USE Widths
<1>1. t \in Readers \/ t \in Writers
  BY DEF Readers, Writers, Holding, SharedTypeOK
<1>2. CASE nshare = 0
  <2>1. Writers = {} /\ IsFiniteSet(Readers) /\ Cardinality(Readers) = 0
    BY <1>2 DEF SharesCounted
  <2>2. Readers = {}
    BY <2>1, FS_EmptySet
  <2>3. QED BY <1>1, <2>1, <2>2
<1>3. QED BY <1>2 DEF SharedTypeOK

LEMMA HoldersKept ==
  ASSUME SharesCounted, nshare' = nshare,
         \A t \in Thread : /\ pc'[t] = "hold" <=> pc[t] = "hold"
                           /\ pc[t] = "hold" => mode'[t] = mode[t]
  PROVE  SharesCounted' /\ Readers' = Readers /\ Writers' = Writers
<1>1. Readers' = Readers /\ Writers' = Writers
  BY DEF Readers, Writers, Holding
<1>2. QED BY <1>1 DEF SharesCounted, MaxShare, Exclusively

LEMMA GrantIsCounted ==
  ASSUME SharedTypeOK, SharesCounted, NEW t \in Thread, Granted(t)
  PROVE  SharesCounted'
<1> USE Widths
<1>1. pc[t] # "hold" /\ pc' = [pc EXCEPT ![t] = "hold"] /\ mode' = mode
  BY DEF Granted, Returns
<1>2. t \notin Readers /\ t \notin Writers
  BY <1>1 DEF Readers, Writers, Holding
<1>3. CASE mode[t] = "shared"
  <2>1. nshare < MaxShare /\ nshare' = nshare + 1 /\ nshare' <= MaxShare /\ nshare # Exclusively
    BY <1>3 DEF Granted, SharedTypeOK
  <2>2. Readers' = Readers \cup {t} /\ Writers' = Writers
    BY <1>1, <1>3 DEF Readers, Writers, Holding, SharedTypeOK
  <2>3. Writers = {} /\ IsFiniteSet(Readers) /\ Cardinality(Readers) = nshare
    BY <2>1 DEF SharesCounted
  <2>4. IsFiniteSet(Readers') /\ Cardinality(Readers') = nshare'
    BY <1>2, <2>1, <2>2, <2>3, FS_AddElement
  <2>5. MaxShare' = MaxShare
    BY DEF MaxShare, Exclusively
  <2>6. QED BY <2>1, <2>2, <2>3, <2>4, <2>5 DEF SharesCounted
<1>4. CASE mode[t] = "exclusive"
  <2>1. nshare = 0 /\ nshare' = Exclusively
    BY <1>4 DEF Granted
  <2>2. Writers = {} /\ Readers = {}
    BY <2>1, FS_EmptySet DEF SharesCounted
  <2>3. Readers' = {} /\ Writers' = {t}
    BY <1>1, <1>4, <2>2 DEF Readers, Writers, Holding, SharedTypeOK
  <2>4. Exclusively' = Exclusively
    BY DEF Exclusively
  <2>5. QED BY <2>1, <2>3, <2>4 DEF SharesCounted
<1>5. QED BY <1>3, <1>4 DEF SharedTypeOK

LEMMA UnlockIsCounted ==
  ASSUME SharedTypeOK, SharesCounted, NEW t \in Thread, Unlock(t)
  PROVE  /\ SharesCounted'
         /\ Readers' = Readers \ {t} /\ Writers' = Writers \ {t}
         /\ t \in Readers \cup Writers
<1> USE Widths
<1>1. pc[t] = "hold" /\ (\E p \in {"idle", "release"} : pc' = [pc EXCEPT ![t] = p]) /\ mode' = mode
  BY DEF Unlock, BeginsRelease
<1>2. Readers' = Readers \ {t} /\ Writers' = Writers \ {t} /\ t \in Readers \cup Writers
  BY <1>1 DEF Readers, Writers, Holding, SharedTypeOK
<1>3. nshare > 0
  BY <1>1, HolderIsCounted
<1>4. MaxShare' = MaxShare
  BY DEF MaxShare, Exclusively
<1>5. CASE nshare = Exclusively
  <2>1. nshare' = 0
    BY <1>5 DEF Unlock
  <2>2. Readers = {} /\ \E u \in Thread : Writers = {u}
    BY <1>5 DEF SharesCounted
  <2>3. Readers' = {} /\ Writers' = {}
    BY <1>2, <2>2
  <2>4. QED BY <1>2, <1>4, <2>1, <2>3, FS_EmptySet DEF SharesCounted
<1>6. CASE nshare # Exclusively
  <2>1. nshare' = nshare - 1 /\ nshare' <= MaxShare
    BY <1>6 DEF Unlock, SharedTypeOK
  <2>2. Writers = {} /\ IsFiniteSet(Readers) /\ Cardinality(Readers) = nshare
    BY <1>6 DEF SharesCounted
  <2>3. IsFiniteSet(Readers') /\ Cardinality(Readers') = nshare'
    BY <1>2, <2>1, <2>2, FS_RemoveElement
  <2>4. QED BY <1>2, <1>4, <2>1, <2>2, <2>3 DEF SharesCounted
<1>7. QED BY <1>5, <1>6

LEMMA SharedInvInit == SharedInit => SharedInv
<1> SUFFICES ASSUME SharedInit PROVE SharedInv
  OBVIOUS
<1> USE Widths
<1>1. SharedTypeOK /\ OwesInRelease /\ LeaversCanExpire /\ SleepersSeeHolder
  BY DEF SharedInit, SharedTypeOK, SharedPC, TimeoutKind, OwesInRelease, LeaversCanExpire,
         SleepersSeeHolder
<1>2. Readers = {} /\ Writers = {}
  BY DEF SharedInit, Readers, Writers, Holding
<1>3. SharesCounted
  BY <1>2, FS_EmptySet DEF SharedInit, SharesCounted
<1>4. QED BY <1>1, <1>3 DEF SharedInv

(***************************************************************************)
(* What each action does to types, debts and timeouts.                     *)
(***************************************************************************)
SharedLocal == SharedTypeOK /\ OwesInRelease /\ LeaversCanExpire

LEMMA SharedLocalNext ==
  ASSUME SharedLocal, SharesCounted, [SharedNext]_sharedVars
  PROVE  SharedLocal'
<1> USE Widths
    DEF SharedLocal, SharedTypeOK, OwesInRelease, LeaversCanExpire, SharedPC, KernelPC,
        TimeoutKind, mutexVars
<1>0. Exclusively' = Exclusively
  BY DEF Exclusively
<1>1. ASSUME NEW t \in Thread, CallLock(t) PROVE SharedLocal'
  BY <1>0, <1>1 DEF CallLock, Enters
<1>2. ASSUME NEW t \in Thread, Granted(t) PROVE SharedLocal'
  BY <1>0, <1>2 DEF Granted, Returns
<1>3. ASSUME NEW t \in Thread, LockSlowly(t) \/ LockFail(t) PROVE SharedLocal'
  BY <1>0, <1>3 DEF LockSlowly, LockFail, Returns
<1>4. ASSUME NEW t \in Thread, LockSleep(t) PROVE SharedLocal'
  BY <1>0, <1>4 DEF LockSleep, Sleeps
<1>5. ASSUME NEW t \in Thread, LockLeaveCounted(t) \/ LockLeaveOwed(t) PROVE SharedLocal'
  BY <1>0, <1>5 DEF LockLeaveCounted, LockLeaveOwed, Returns, AwaitsRelease
<1>6. ASSUME NEW t \in Thread, LockTimeout(t) PROVE SharedLocal'
  BY <1>0, <1>6 DEF LockTimeout, WaitTimesOut, PollTimesOut
<1>7. ASSUME NEW t \in Thread, Unlock(t) PROVE SharedLocal'
  <2>1. nshare > 0
    BY <1>7, HolderIsCounted DEF Unlock
  <2>2. nshare' \in 0 .. Exclusively /\ nsleep' \in Nat
    BY <1>7, <2>1 DEF Unlock
  <2>3. QED BY <1>0, <1>7, <2>2 DEF Unlock, BeginsRelease
<1>8. ASSUME NEW t \in Thread, UnlockFast(t) PROVE SharedLocal'
  BY <1>7, <1>8, UnlocksAlike, HolderIsCounted DEF UnlockFast
<1>9. ASSUME NEW w \in Thread, NEW r \in Thread, LockWakeup(w, r) PROVE SharedLocal'
  BY <1>0, <1>9 DEF LockWakeup, Handoff, Adjusted, Parked
<1>10. CASE UNCHANGED sharedVars
  BY <1>0, <1>10 DEF sharedVars
<1>11. QED
  BY <1>1, <1>2, <1>3, <1>4, <1>5, <1>6, <1>7, <1>8, <1>9, <1>10, GrantsAlike
  DEF SharedNext, LockStep

LEMMA SharedInvNext == SharedInv /\ [SharedNext]_sharedVars => SharedInv'
<1> SUFFICES ASSUME SharedInv, [SharedNext]_sharedVars PROVE SharedInv'
  OBVIOUS
<1>0. SharedLocal'
  BY SharedLocalNext DEF SharedInv, SharedLocal
<1> SUFFICES SharesCounted' /\ SleepersSeeHolder'
  BY <1>0 DEF SharedInv, SharedLocal
<1> USE Widths DEF SharedInv, SleepersSeeHolder, mutexVars
<1>t. nshare \in Nat /\ nsleep \in Nat /\ pc \in [Thread -> SharedPC]
  BY DEF SharedTypeOK
<1>1. ASSUME NEW t \in Thread, CallLock(t) PROVE SharesCounted' /\ SleepersSeeHolder'
  BY <1>t, <1>1, HoldersKept DEF CallLock, Enters, SharedTypeOK
<1>2. ASSUME NEW t \in Thread, Granted(t) PROVE SharesCounted' /\ SleepersSeeHolder'
  BY <1>t, <1>2, GrantIsCounted DEF Granted
<1>3. ASSUME NEW t \in Thread, LockSlowly(t) \/ LockFail(t)
      PROVE  SharesCounted' /\ SleepersSeeHolder'
  BY <1>t, <1>3, HoldersKept DEF LockSlowly, LockFail, Returns
<1>4. ASSUME NEW t \in Thread, LockSleep(t) PROVE SharesCounted' /\ SleepersSeeHolder'
  <2>1. nshare > 0
    BY <1>t, <1>4 DEF LockSleep, CanGrant, CanShare
  <2>2. QED BY <1>t, <1>4, <2>1, HoldersKept DEF LockSleep, Sleeps
<1>5. ASSUME NEW t \in Thread, LockLeaveCounted(t) \/ LockLeaveOwed(t) \/ LockTimeout(t)
      PROVE  SharesCounted' /\ SleepersSeeHolder'
  BY <1>t, <1>5, HoldersKept
  DEF LockLeaveCounted, LockLeaveOwed, LockTimeout, Returns, AwaitsRelease,
      WaitTimesOut, PollTimesOut
<1>6. ASSUME NEW t \in Thread, Unlock(t) PROVE SharesCounted' /\ SleepersSeeHolder'
  <2>1. nsleep' > 0 => nshare' > 0
    <3>1. CASE nshare' = 0
      BY <1>t, <1>6, <3>1 DEF Unlock
    <3>2. CASE nshare' # 0
      BY <1>0, <3>2 DEF SharedLocal, SharedTypeOK
    <3>3. QED BY <3>1, <3>2
  <2>2. QED BY <1>6, <2>1, UnlockIsCounted
<1>7. ASSUME NEW t \in Thread, UnlockFast(t) PROVE SharesCounted' /\ SleepersSeeHolder'
  BY <1>6, <1>7, UnlocksAlike, HolderIsCounted DEF UnlockFast
<1>8. ASSUME NEW w \in Thread, NEW r \in Thread, LockWakeup(w, r)
      PROVE  SharesCounted' /\ SleepersSeeHolder'
  BY <1>t, <1>8, HoldersKept DEF LockWakeup, Handoff, Parked
<1>9. CASE UNCHANGED sharedVars
  BY <1>9, HoldersKept DEF sharedVars
<1>10. QED
  BY <1>1, <1>2, <1>3, <1>4, <1>5, <1>6, <1>7, <1>8, <1>9, GrantsAlike
  DEF SharedNext, LockStep

LEMMA SharedInvHolds == SharedSpec => []SharedInv
BY SharedInvInit, SharedInvNext, PTL DEF SharedSpec

(***************************************************************************)
(* The fields of the shared mutex stay within their widths: in particular  *)
(* no grant carries from __nshare into the sleeping count.                 *)
(***************************************************************************)
THEOREM SharedTypeCorrect == SharedSpec => []SharedTypeOK
BY SharedInvHolds, PTL DEF SharedInv

-----------------------------------------------------------------------------

LEMMA SharedEnlists ==
  ASSUME SharedInv, NEW t \in Thread, LockSleep(t)
  PROVE  SQ!Enlist(t)
<1>1. t \notin Asleep /\ owed[t] = 0
  BY DEF SharedInv, SharedTypeOK, OwesInRelease, Asleep, LockSleep
<1>2. Asleep' = Asleep \cup {t}
  BY DEF Asleep, SharedInv, SharedTypeOK, LockSleep, Sleeps
<1>3. QED BY <1>1, <1>2 DEF LockSleep, Sleeps, SQ!Enlist

LEMMA SharedDeparts ==
  ASSUME SharedInv, NEW t \in Thread, LockLeaveCounted(t)
  PROVE  SQ!Depart(t)
<1>1. t \in Asleep /\ Asleep' = Asleep \ {t}
  BY DEF LockLeaveCounted, Returns, SharedInv, SharedTypeOK, Asleep
<1>2. QED BY <1>1 DEF LockLeaveCounted, Returns, SQ!Depart

LEMMA UnlockWakes ==
  ASSUME SharedInv, NEW t \in Thread, Unlock(t)
  PROVE  (SQ!Wake(t, nsleep) /\ nsleep \in 1..nsleep) \/ UNCHANGED SQ!vars
<1>1. t \notin Asleep /\ owed[t] = 0 /\ nsleep \in Nat
  BY DEF SharedInv, SharedTypeOK, OwesInRelease, Asleep, Unlock
<1>2. Asleep' = Asleep
  BY DEF Asleep, SharedInv, SharedTypeOK, Unlock, BeginsRelease
<1>3. PICK n \in {0, nsleep} : nsleep' = nsleep - n /\ owed' = [owed EXCEPT ![t] = n]
  BY DEF Unlock, BeginsRelease
<1>4. CASE n = 0
  BY <1>1, <1>2, <1>3, <1>4 DEF SQ!vars, SharedInv, SharedTypeOK
<1>5. CASE n # 0
  <2>1. n = nsleep /\ nsleep \in 1..nsleep
    BY <1>1, <1>3, <1>5
  <2>2. QED BY <1>1, <1>2, <1>3, <2>1 DEF SQ!Wake
<1>6. QED BY <1>4, <1>5

LEMMA SharedMeets ==
  ASSUME SharedInv, NEW w \in Thread, NEW r \in Thread, LockWakeup(w, r)
  PROVE  SQ!Meet(w, r)
<1>1. w \in Asleep /\ w # r /\ owed[r] > 0
  BY DEF SharedInv, OwesInRelease, LockWakeup, Handoff, Parked, Asleep
<1>2. Asleep' = Asleep \ {w}
  BY <1>1 DEF SharedInv, SharedTypeOK, Asleep, LockWakeup, Handoff
<1>3. owed' = [owed EXCEPT ![r] = @ - 1] /\ nsleep' = nsleep
  BY DEF LockWakeup, Handoff, mutexVars
<1>4. QED BY <1>1, <1>2, <1>3 DEF SQ!Meet

(***************************************************************************)
(* The sleeping count of the shared mutex follows the protocol of          *)
(* SleepQueue, also where the inline functions store it with the shares.   *)
(***************************************************************************)
THEOREM SharedMutexSleepsProperly == SharedSpec => SleepsProperly
<1>1. SharedInit => SQ!Init
  BY DEF SharedInit, SQ!Init, Asleep
<1>2. SharedInv /\ [SharedNext]_sharedVars => [SQ!Next]_(SQ!vars)
  <2> SUFFICES ASSUME SharedInv, [SharedNext]_sharedVars
               PROVE  SQ!Next \/ UNCHANGED SQ!vars
    BY DEF SQ!vars
  <2>0. SharedTypeOK
    BY DEF SharedInv
  <2> USE DEF mutexVars
  <2>1. ASSUME NEW t \in Thread, CallLock(t) \/ LockSlowly(t) \/ LockFail(t)
        PROVE  UNCHANGED SQ!vars
    BY <2>0, <2>1, SleepersKept
    DEF CallLock, LockSlowly, LockFail, Enters, Returns, SharedTypeOK
  <2>2. ASSUME NEW t \in Thread, Granted(t) PROVE UNCHANGED SQ!vars
    BY <2>0, <2>2, SleepersKept DEF Granted, Returns, SharedTypeOK
  <2>3. ASSUME NEW t \in Thread, LockSleep(t) PROVE SQ!Next
    BY <2>3, SharedEnlists DEF SQ!Next
  <2>4. ASSUME NEW t \in Thread, LockLeaveCounted(t) PROVE SQ!Next
    BY <2>4, SharedDeparts DEF SQ!Next
  <2>5. ASSUME NEW t \in Thread, LockLeaveOwed(t) \/ LockTimeout(t) PROVE UNCHANGED SQ!vars
    BY <2>0, <2>5, SleepersKept
    DEF LockLeaveOwed, AwaitsRelease, LockTimeout, WaitTimesOut, PollTimesOut, SharedTypeOK
  <2>6. ASSUME NEW t \in Thread, Unlock(t) PROVE SQ!Next \/ UNCHANGED SQ!vars
    BY <2>6, UnlockWakes DEF SQ!Next
  <2>7. ASSUME NEW t \in Thread, UnlockFast(t) PROVE SQ!Next \/ UNCHANGED SQ!vars
    BY <2>0, <2>6, <2>7, UnlocksAlike, HolderIsCounted DEF UnlockFast, SharedInv
  <2>8. ASSUME NEW w \in Thread, NEW r \in Thread, LockWakeup(w, r) PROVE SQ!Next
    BY <2>8, SharedMeets DEF SQ!Next
  <2>9. CASE UNCHANGED sharedVars
    BY <2>9, SleepersKept DEF sharedVars
  <2>10. QED
    BY <2>0, <2>1, <2>2, <2>3, <2>4, <2>5, <2>6, <2>7, <2>8, <2>9, GrantsAlike
    DEF SharedNext, LockStep
<1>3. QED BY <1>1, <1>2, SharedInvHolds, PTL DEF SharedSpec, SleepsProperly, SQ!Spec

-----------------------------------------------------------------------------
(* The shared mutex as its callers see it *)

InLock == {"fast", "lock", "wait", "leave", "poll"}

Unseen(t) ==
    /\ pc[t] \in InLock <=> pc'[t] \in InLock
    /\ pc[t] \in InLock => CallKindOf(tmo[t]) = CallKindOf(tmo'[t])
    /\ pc[t] = "hold" <=> pc'[t] = "hold"

LEMMA CallerSeesNothing ==
  ASSUME SharesCounted, \A t \in Thread : Unseen(t), mode' = mode, nshare' = nshare
  PROVE  UNCHANGED SL!vars
<1>1. Calls' = Calls
  BY DEF Calls, Unseen, InLock
<1>2. Readers' = Readers /\ Writers' = Writers
  BY HoldersKept DEF Unseen
<1>3. QED BY <1>1, <1>2 DEF SL!vars, Readers, Writers

LEMMA CallerRequests ==
  ASSUME SharedInv, NEW t \in Thread, CallLock(t)
  PROVE  SL!Request(t)
<1> USE DEF SharedInv, SharedTypeOK
<1>1. Calls[t] = "none" /\ t \notin Readers /\ t \notin Writers
  BY DEF CallLock, Enters, Calls, Readers, Writers, Holding
<1>2. PICK k \in TimeoutKind : tmo' = [tmo EXCEPT ![t] = k]
  BY DEF CallLock, Enters
<1>3. Calls' = [Calls EXCEPT ![t] = CallKindOf(k)]
  BY <1>2 DEF CallLock, Enters, Calls
<1>4. CallKindOf(k) \in SL!CallKind
  BY DEF CallKindOf, SL!CallKind
<1>5. Readers' = Readers /\ Writers' = Writers
  BY HoldersKept DEF CallLock, Enters, mutexVars
<1>6. \E m \in SL!Mode : mode' = [mode EXCEPT ![t] = m]
  BY DEF CallLock, SL!Mode
<1>7. QED BY <1>1, <1>3, <1>4, <1>5, <1>6 DEF SL!Request, SL!Holders, Readers, Writers

LEMMA CallerIsGranted ==
  ASSUME SharedInv, NEW t \in Thread, Granted(t)
  PROVE  SL!Share(t) \/ SL!Acquire(t)
<1> USE Widths DEF SharedInv, SharedTypeOK
<1>1. pc[t] \in {"fast", "lock"} /\ pc' = [pc EXCEPT ![t] = "hold"] /\ mode' = mode
  BY DEF Granted, Returns
<1>2. SL!Returned(t)
  <2>1. Calls[t] # "none"
    BY <1>1 DEF Calls, CallKindOf
  <2>2. Calls' = [Calls EXCEPT ![t] = "none"]
    BY <1>1 DEF Calls, Granted, Returns
  <2>3. QED BY <1>1, <2>1, <2>2 DEF SL!Returned
<1>3. CASE mode[t] = "shared"
  <2>1. Writers = {} /\ Cardinality(Readers) = nshare /\ nshare < MaxShare
    BY <1>3 DEF Granted, SharesCounted
  <2>2. Readers' = Readers \cup {t} /\ Writers' = Writers
    BY <1>1, <1>3 DEF Readers, Writers, Holding
  <2>3. SL!Cardinality(Readers) < MaxShare
    BY <2>1 DEF SL!Cardinality, Cardinality
  <2>4. QED BY <1>2, <1>3, <2>1, <2>2, <2>3 DEF SL!Share, Readers, Writers
<1>4. CASE mode[t] = "exclusive"
  <2>1. Writers = {} /\ Readers = {}
    BY <1>4, FS_EmptySet DEF Granted, SharesCounted
  <2>2. Readers' = Readers /\ Writers' = {t}
    BY <1>1, <1>4, <2>1 DEF Readers, Writers, Holding
  <2>3. QED BY <1>2, <1>4, <2>1, <2>2 DEF SL!Acquire, SL!Holders, Readers, Writers
<1>5. QED BY <1>3, <1>4

(***************************************************************************)
(* While the count is not zero, another thread is in a call that waits.    *)
(***************************************************************************)
LEMMA SleeperIsWilling ==
  ASSUME SharedInv, SQ!QuietIffEmpty, nsleep > 0, NEW t \in Thread, pc[t] = "lock"
  PROVE  \E u \in Thread \ {t} : Calls[u] \in {"timed", "forever"}
<1>1. PICK u \in Asleep : TRUE
  BY DEF SQ!QuietIffEmpty
<1>2. u \in Thread \ {t} /\ pc[u] \in {"wait", "leave", "poll"} /\ tmo[u] # "zero"
  BY <1>1 DEF Asleep, SharedInv, LeaversCanExpire
<1>3. Calls[u] \in {"timed", "forever"}
  BY <1>2 DEF Calls, CallKindOf
<1>4. QED BY <1>2, <1>3

(***************************************************************************)
(* While __nshare is not zero somebody holds the mutex.                    *)
(***************************************************************************)
LEMMA SharesHaveHolder ==
  ASSUME SharesCounted, nshare > 0
  PROVE  Readers # {} \/ Writers # {}
<1> USE Widths
<1>1. CASE nshare = Exclusively
  BY <1>1 DEF SharesCounted
<1>2. CASE nshare # Exclusively
  <2>1. Cardinality(Readers) # 0
    BY <1>2 DEF SharesCounted
  <2>2. QED BY <2>1, FS_EmptySet
<1>3. QED BY <1>1, <1>2

(***************************************************************************)
(* A reader that is not let in finds a writer, or as many readers as there *)
(* may be, or makes way for a thread that sleeps.                          *)
(***************************************************************************)
LEMMA ReaderIsRefused ==
  ASSUME SharedInv, SQ!QuietIffEmpty, NEW t \in Thread, LockFail(t), mode[t] = "shared"
  PROVE  SL!Refused(t)
<1> USE Widths
<1>1. ~CanShare /\ pc[t] = "lock" /\ nshare \in Nat /\ nsleep \in Nat
  BY DEF LockFail, CanGrant, SharedInv, SharedTypeOK
<1>2. CASE nsleep > 0
  BY <1>1, <1>2, SleeperIsWilling DEF SL!Refused
<1>3. CASE nshare = Exclusively
  BY <1>3 DEF SharedInv, SharesCounted, SL!Refused, Writers
<1>4. CASE nsleep = 0 /\ nshare # Exclusively
  <2>1. nshare >= MaxShare
    BY <1>1, <1>4 DEF CanShare
  <2>2. SL!Cardinality(Readers) >= MaxShare
    BY <1>4, <2>1 DEF SharedInv, SharesCounted, SL!Cardinality, Cardinality
  <2>3. QED BY <2>2 DEF SL!Refused, Readers
<1>5. QED BY <1>1, <1>2, <1>3, <1>4

(***************************************************************************)
(* A call fails only while somebody holds the mutex: who makes way for     *)
(* sleepers, or is one of them and leaves, has a holder to wait for.       *)
(***************************************************************************)
LEMMA CallerFails ==
  ASSUME SharedInv, SQ!QuietIffEmpty,
         NEW t \in Thread, LockFail(t) \/ LockLeaveCounted(t)
  PROVE  SL!Fail(t)
<1> USE Widths DEF SharedInv, SharedTypeOK
<1>1. pc[t] \in InLock /\ pc' = [pc EXCEPT ![t] = "idle"] /\ mode' = mode /\ nshare' = nshare
  BY DEF LockFail, LockLeaveCounted, Returns, InLock, mutexVars
<1>2. SL!Returned(t)
  <2>1. Calls[t] # "none"
    BY <1>1 DEF Calls, CallKindOf, InLock
  <2>2. Calls' = [Calls EXCEPT ![t] = "none"]
    BY <1>1 DEF Calls, LockFail, LockLeaveCounted, Returns
  <2>3. QED BY <1>1, <2>1, <2>2 DEF SL!Returned
<1>3. Readers' = Readers /\ Writers' = Writers
  BY <1>1, HoldersKept DEF InLock
<1>4. Readers # {} \/ Writers # {}
  <2>1. nshare > 0
    BY DEF LockFail, LockLeaveCounted, CanGrant, CanShare, SleepersSeeHolder
  <2>2. QED BY <2>1, SharesHaveHolder
<1>5. CASE LockFail(t)
  <2>1. Calls[t] = "try"
    BY <1>5 DEF LockFail, Calls, CallKindOf
  <2>2. mode[t] = "exclusive" \/ SL!Refused(t)
    BY <1>5, ReaderIsRefused
  <2>3. QED BY <1>2, <1>3, <1>4, <2>1, <2>2 DEF SL!Fail, SL!Holders, Readers, Writers
<1>6. CASE LockLeaveCounted(t)
  <2>1. Calls[t] = "timed"
    BY <1>6 DEF LockLeaveCounted, LeaversCanExpire, Calls, CallKindOf
  <2>2. QED BY <1>2, <1>3, <1>4, <2>1 DEF SL!Fail, SL!Holders, Readers, Writers
<1>7. QED BY <1>5, <1>6

LEMMA CallerReleases ==
  ASSUME SharedInv, NEW t \in Thread, Unlock(t)
  PROVE  SL!Release(t)
<1> USE DEF SharedInv, SharedTypeOK
<1>1. Readers' = Readers \ {t} /\ Writers' = Writers \ {t} /\ t \in Readers \cup Writers
  BY UnlockIsCounted
<1>2. /\ pc[t] = "hold" /\ \E p \in {"release", "idle"} : pc' = [pc EXCEPT ![t] = p]
      /\ tmo' = tmo /\ mode' = mode
  BY DEF Unlock, BeginsRelease
<1>3. Calls' = Calls
  BY <1>2 DEF Calls
<1>4. QED BY <1>1, <1>2, <1>3 DEF SL!Release, SL!Holders, Readers, Writers

LEMMA CallerWoken ==
  ASSUME SharedInv, NEW w \in Thread, NEW r \in Thread, LockWakeup(w, r)
  PROVE  SL!Expire(w) \/ UNCHANGED SL!vars
<1> USE DEF SharedInv, SharedTypeOK
<1>1. /\ pc[w] \in {"wait", "poll"} /\ pc[r] = "release" /\ w # r
      /\ \E p \in {"idle", "release"} : pc' = [pc EXCEPT ![w] = "lock", ![r] = p]
      /\ mode' = mode /\ nshare' = nshare
  BY DEF LockWakeup, Handoff, Parked, mutexVars
<1>2. Readers' = Readers /\ Writers' = Writers
  BY <1>1, HoldersKept
<1>3. PICK k \in Adjusted(tmo[w]) : tmo' = [tmo EXCEPT ![w] = k]
  BY DEF LockWakeup, Handoff
<1>4. Calls' = [Calls EXCEPT ![w] = CallKindOf(k)] /\ Calls[w] = CallKindOf(tmo[w])
  BY <1>1, <1>3 DEF Calls
<1>5. CASE k = tmo[w]
  <2>1. Calls' = Calls
    BY <1>4, <1>5 DEF Calls
  <2>2. QED BY <1>1, <1>2, <2>1 DEF SL!vars, Readers, Writers
<1>6. CASE k # tmo[w]
  <2>1. k = "zero" /\ tmo[w] = "rel"
    BY <1>3, <1>6 DEF Adjusted
  <2>2. Calls[w] = "timed" /\ Calls' = [Calls EXCEPT ![w] = "try"]
    BY <1>4, <2>1 DEF CallKindOf
  <2>3. QED BY <1>1, <1>2, <2>2 DEF SL!Expire, Readers, Writers
<1>7. QED BY <1>5, <1>6

(***************************************************************************)
(* To its callers the shared mutex is a lock for readers and writers with  *)
(* timeouts, whatever the width of its fields and the number of threads.   *)
(***************************************************************************)
THEOREM SharedMutexIsSharedLock == SharedSpec => IsSharedLock
<1>1. SharedInit => SL!Init
  BY DEF SharedInit, SL!Init, Calls, Holding
<1>2. SharedInv /\ SQ!QuietIffEmpty /\ [SharedNext]_sharedVars => [SL!Next]_(SL!vars)
  <2> SUFFICES ASSUME SharedInv, SQ!QuietIffEmpty, [SharedNext]_sharedVars
               PROVE  SL!Next \/ UNCHANGED SL!vars
    BY DEF SL!vars
  <2>0. SharedTypeOK /\ SharesCounted
    BY DEF SharedInv
  <2> USE DEF SL!Next
  <2>1. ASSUME NEW t \in Thread, CallLock(t) PROVE SL!Next
    BY <2>1, CallerRequests
  <2>2. ASSUME NEW t \in Thread, Granted(t) PROVE SL!Next
    BY <2>2, CallerIsGranted
  <2>3. ASSUME NEW t \in Thread, LockSlowly(t) \/ LockSleep(t) \/ LockLeaveOwed(t)
        PROVE  UNCHANGED SL!vars
    BY <2>0, <2>3, CallerSeesNothing
    DEF LockSlowly, LockSleep, LockLeaveOwed, Sleeps, AwaitsRelease, mutexVars, Unseen,
        InLock, SharedTypeOK
  <2>4. ASSUME NEW t \in Thread, LockFail(t) \/ LockLeaveCounted(t) PROVE SL!Next
    BY <2>4, CallerFails
  <2>5. ASSUME NEW t \in Thread, LockTimeout(t) PROVE UNCHANGED SL!vars
    BY <2>0, <2>5, CallerSeesNothing
    DEF LockTimeout, WaitTimesOut, PollTimesOut, mutexVars, Unseen, InLock, SharedTypeOK
  <2>6. ASSUME NEW t \in Thread, Unlock(t) PROVE SL!Next
    BY <2>6, CallerReleases
  <2>7. ASSUME NEW t \in Thread, UnlockFast(t) PROVE SL!Next
    BY <2>0, <2>6, <2>7, UnlocksAlike, HolderIsCounted DEF UnlockFast
  <2>8. ASSUME NEW w \in Thread, NEW r \in Thread, LockWakeup(w, r)
        PROVE  SL!Next \/ UNCHANGED SL!vars
    BY <2>8, CallerWoken
  <2>9. CASE UNCHANGED sharedVars
    BY <2>0, <2>9, CallerSeesNothing DEF sharedVars, mutexVars, Unseen
  <2>10. QED
    BY <2>0, <2>1, <2>2, <2>3, <2>4, <2>5, <2>6, <2>7, <2>8, <2>9, GrantsAlike
    DEF SharedNext, LockStep
<1>3. SharedSpec => []SQ!QuietIffEmpty
  BY SharedMutexSleepsProperly, CountIsQuiet, PTL DEF SleepsProperly
<1>4. QED BY <1>1, <1>2, <1>3, SharedInvHolds, PTL DEF SharedSpec, IsSharedLock, SL!Spec
=============================================================================
