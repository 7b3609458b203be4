-------------------------- MODULE SleepQueueProofs --------------------------
(***************************************************************************)
(* Proofs about the sleeping-count protocol, for any set of threads and    *)
(* any number of releases in one wakeup.                                   *)
(***************************************************************************)
EXTENDS SleepQueue, FiniteSetTheorems, TLAPS

(***************************************************************************)
(* The pairs for one thread that owes n releases are n in number.          *)
(***************************************************************************)
LEMMA DebtsOfOne ==
  ASSUME NEW t, NEW n \in Nat
  PROVE  /\ IsFiniteSet({t} \X (1..n))
         /\ Cardinality({t} \X (1..n)) = n
<1>1. IsFiniteSet({t}) /\ Cardinality({t}) = 1
  BY FS_Singleton
<1>2. IsFiniteSet(1..n) /\ Cardinality(1..n) = n
  BY FS_Interval
<1>3. /\ IsFiniteSet({t} \X (1..n))
      /\ Cardinality({t} \X (1..n)) = Cardinality({t}) * Cardinality(1..n)
  BY <1>1, <1>2, FS_Product
<1>4. QED BY <1>1, <1>2, <1>3

(***************************************************************************)
(* A thread that owed nothing and now owes n releases adds n debts.        *)
(***************************************************************************)
LEMMA WakeAddsDebts ==
  ASSUME TypeOK, IsFiniteSet(Debts),
         NEW t \in Thread, NEW n \in Nat, Wake(t, n)
  PROVE  IsFiniteSet(Debts') /\ Cardinality(Debts') = Cardinality(Debts) + n
<1> DEFINE New == {t} \X (1..n)
<1>1. Debts' = Debts \cup New
  BY SMTT(30) DEF Debts, Wake, TypeOK
<1>2. Debts \cap New = {}
  BY SMTT(30) DEF Debts, Wake, TypeOK
<1>3. IsFiniteSet(New) /\ Cardinality(New) = n
  BY DebtsOfOne
<1>4. Cardinality(Debts \cap New) = 0
  BY <1>2, FS_EmptySet
<1>5. Cardinality(Debts) \in Nat
  BY FS_CardinalityType
<1> HIDE DEF New
<1>6. QED BY <1>1, <1>3, <1>4, <1>5, FS_Union

(***************************************************************************)
(* A release that is taken removes one debt.                               *)
(***************************************************************************)
LEMMA MeetRemovesDebt ==
  ASSUME TypeOK, IsFiniteSet(Debts),
         NEW w \in Thread, NEW r \in Thread, Meet(w, r)
  PROVE  IsFiniteSet(Debts') /\ Cardinality(Debts') = Cardinality(Debts) - 1
<1>1. Debts' = Debts \ {<<r, owed[r]>>}
  BY SMTT(30) DEF Debts, Meet, TypeOK
<1>2. <<r, owed[r]>> \in Debts
  BY SMTT(30) DEF Debts, Meet, TypeOK
<1>3. QED BY <1>1, <1>2, FS_RemoveElement

(***************************************************************************)
(* Conservation, with the finiteness of the sets it counts, is inductive.  *)
(***************************************************************************)
IInv == TypeOK /\ IsFiniteSet(Debts) /\ IsFiniteSet(asleep) /\ Conservation

LEMMA IInvInit == Init => IInv
<1> SUFFICES ASSUME Init PROVE IInv
  OBVIOUS
<1>1. TypeOK
  BY DEF Init, TypeOK
<1>2. Debts = {}
  BY DEF Init, Debts
<1>3. QED BY <1>1, <1>2, FS_EmptySet DEF Init, IInv, Conservation

(***************************************************************************)
(* The numbers that Conservation adds up.                                  *)
(***************************************************************************)
LEMMA NumbersAdd ==
  ASSUME IInv
  PROVE  /\ nsleep \in Nat
         /\ Cardinality(Debts) \in Nat
         /\ Cardinality(asleep) \in Nat
         /\ nsleep + Cardinality(Debts) = Cardinality(asleep)
BY FS_CardinalityType DEF IInv, TypeOK, Conservation

(***************************************************************************)
(* What leaves the debts alone keeps the invariant if the sleepers and the *)
(* count change alike.                                                     *)
(***************************************************************************)
LEMMA CountFollowsSleepers ==
  ASSUME IInv, owed' = owed,
         nsleep' \in Nat, asleep' \in SUBSET Thread, IsFiniteSet(asleep'),
         nsleep' - nsleep = Cardinality(asleep') - Cardinality(asleep)
  PROVE  IInv'
<1>1. Debts' = Debts
  BY DEF Debts
<1>2. TypeOK'
  BY DEF IInv, TypeOK
<1>3. Cardinality(asleep') \in Nat
  BY FS_CardinalityType
<1>4. Conservation'
  BY <1>1, <1>3, NumbersAdd DEF Conservation
<1>5. QED BY <1>1, <1>2, <1>4 DEF IInv

LEMMA EnlistKeepsIInv ==
  ASSUME IInv, NEW t \in Thread, Enlist(t)
  PROVE  IInv'
<1>1. IsFiniteSet(asleep') /\ Cardinality(asleep') = Cardinality(asleep) + 1
  BY FS_AddElement DEF Enlist, IInv
<1>2. nsleep' = nsleep + 1 /\ owed' = owed /\ asleep' \in SUBSET Thread
  BY DEF Enlist, IInv, TypeOK
<1>3. QED BY <1>1, <1>2, NumbersAdd, CountFollowsSleepers

LEMMA DepartKeepsIInv ==
  ASSUME IInv, NEW t \in Thread, Depart(t)
  PROVE  IInv'
<1>1. IsFiniteSet(asleep') /\ Cardinality(asleep') = Cardinality(asleep) - 1
  BY FS_RemoveElement DEF Depart, IInv
<1>2. nsleep > 0 /\ nsleep' = nsleep - 1 /\ owed' = owed /\ asleep' \in SUBSET Thread
  BY DEF Depart, IInv, TypeOK
<1>3. QED BY <1>1, <1>2, NumbersAdd, CountFollowsSleepers

(***************************************************************************)
(* A wakeup turns n on the count into n debts.                             *)
(***************************************************************************)
LEMMA WakeKeepsIInv ==
  ASSUME IInv, NEW t \in Thread, NEW n \in 1..nsleep, Wake(t, n)
  PROVE  IInv'
<1>1. TypeOK'
  BY DEF Wake, IInv, TypeOK
<1>2. nsleep' = nsleep - n /\ asleep' = asleep /\ n \in Nat
  BY NumbersAdd DEF Wake
<1>3. IsFiniteSet(Debts') /\ Cardinality(Debts') = Cardinality(Debts) + n
  BY <1>2, WakeAddsDebts DEF IInv
<1>4. Conservation'
  BY <1>2, <1>3, NumbersAdd DEF Conservation
<1>5. QED BY <1>1, <1>2, <1>3, <1>4 DEF IInv

(***************************************************************************)
(* A meeting takes one sleeper and one debt.                               *)
(***************************************************************************)
LEMMA MeetKeepsIInv ==
  ASSUME IInv, NEW w \in Thread, NEW r \in Thread, Meet(w, r)
  PROVE  IInv'
<1>1. TypeOK' /\ nsleep' = nsleep
  BY DEF Meet, IInv, TypeOK
<1>2. IsFiniteSet(asleep') /\ Cardinality(asleep') = Cardinality(asleep) - 1
  BY FS_RemoveElement DEF Meet, IInv
<1>3. IsFiniteSet(Debts') /\ Cardinality(Debts') = Cardinality(Debts) - 1
  BY MeetRemovesDebt DEF IInv
<1>4. Conservation'
  BY <1>1, <1>2, <1>3, NumbersAdd DEF Conservation
<1>5. QED BY <1>1, <1>2, <1>3, <1>4 DEF IInv

LEMMA IInvNext == IInv /\ [Next]_vars => IInv'
<1>1. IInv /\ Next => IInv'
  BY EnlistKeepsIInv, DepartKeepsIInv, WakeKeepsIInv, MeetKeepsIInv DEF Next
<1>2. IInv /\ UNCHANGED vars => IInv'
  BY DEF vars, IInv, TypeOK, Debts, Conservation
<1>3. QED BY <1>1, <1>2

LEMMA IInvHolds == Spec => []IInv
BY IInvInit, IInvNext, PTL DEF Spec

(***************************************************************************)
(* The state is well typed: no thread departs from a count of zero, and    *)
(* none hands over a release that it does not owe.                         *)
(***************************************************************************)
THEOREM TypeCorrect == Spec => []TypeOK
BY IInvHolds, PTL DEF IInv

(***************************************************************************)
(* Everybody asleep is on the count or has a release coming.               *)
(***************************************************************************)
THEOREM SleepersConserved == Spec => []Conservation
BY IInvHolds, PTL DEF IInv

(***************************************************************************)
(* Whoever owes a release finds a sleeper to take it.                      *)
(***************************************************************************)
THEOREM ReleaserFindsSleeper == Spec => []ReleaserIsNeverStuck
<1>1. IInv => ReleaserIsNeverStuck
  <2> SUFFICES ASSUME IInv, NEW r \in Thread, owed[r] > 0 PROVE asleep # {}
    BY DEF ReleaserIsNeverStuck
  <2>1. <<r, 1>> \in Debts
    BY DEF Debts, IInv, TypeOK
  <2>2. Cardinality(Debts) \in Nat /\ Cardinality(Debts) # 0
    BY <2>1, FS_CardinalityType, FS_EmptySet DEF IInv
  <2>3. nsleep \in Nat
    BY DEF IInv, TypeOK
  <2>4. QED BY <2>2, <2>3, FS_EmptySet DEF IInv, Conservation
<1>2. QED BY <1>1, IInvHolds, PTL

(***************************************************************************)
(* Somebody is asleep exactly while the count or a debt says so.           *)
(***************************************************************************)
THEOREM NobodyForgotten == Spec => []QuietIffEmpty
<1>1. IInv => QuietIffEmpty
  <2> SUFFICES ASSUME IInv PROVE QuietIffEmpty
    OBVIOUS
  <2>1. nsleep \in Nat /\ Cardinality(Debts) \in Nat
    BY FS_CardinalityType DEF IInv, TypeOK
  <2>2. asleep = {} <=> Cardinality(asleep) = 0
    BY FS_EmptySet DEF IInv
  <2>3. asleep = {} <=> nsleep = 0 /\ Cardinality(Debts) = 0
    BY <2>1, <2>2 DEF IInv, Conservation
  <2>4. Cardinality(Debts) = 0 <=> Debts = {}
    BY FS_EmptySet DEF IInv
  <2>5. Debts = {} <=> \A r \in Thread : owed[r] = 0
    <3>1. ASSUME NEW r \in Thread, owed[r] # 0 PROVE Debts # {}
      <4>1. <<r, 1>> \in Debts
        BY <3>1 DEF Debts, IInv, TypeOK
      <4>2. QED BY <4>1
    <3>2. ASSUME NEW p \in Debts PROVE \E r \in Thread : owed[r] # 0
      BY DEF Debts, IInv, TypeOK
    <3>3. QED BY <3>1, <3>2
  <2>6. QED BY <2>3, <2>4, <2>5 DEF QuietIffEmpty
<1>2. QED BY <1>1, IInvHolds, PTL
=============================================================================
