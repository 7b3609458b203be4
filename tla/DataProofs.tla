----------------------------- MODULE DataProofs -----------------------------
(***************************************************************************)
(* Proofs about data that belong to one thread at a time: tables of        *)
(* thread-local values, collections of CPUs, and times.                    *)
(*                                                                         *)
(* Tables are right for any finite set of threads, any keys and values,    *)
(* and whatever the constants of the hash function and of the capacity.    *)
(*                                                                         *)
(* The sort of _MCF_cpu_collection_new and the search of do_find_cpu_opt   *)
(* are right for every number of CPUs, in every order in which the system  *)
(* may name them, and a selection comes back from the system as it was.    *)
(*                                                                         *)
(* What the arithmetic of Timeout keeps: clocks are not late by more than  *)
(* their unit, a time that a program gives is neither shortened nor made   *)
(* endless nor zero, and a thread that is woken in vain waits for what is  *)
(* left.  The last of these is what KeyedWait takes for granted, which has *)
(* only kinds of timeouts.                                                 *)
(***************************************************************************)
EXTENDS CpuSets, Tls, Timeout, TimeoutKinds, FiniteSetTheorems, WellFoundedInduction, TLAPS

-----------------------------------------------------------------------------
(* Remainders and the hash function *)

LEMMA Remainder ==
  ASSUME NEW n \in Nat \ {0}, NEW x \in Nat
  PROVE  x % n \in 0 .. n - 1
OBVIOUS

LEMMA SmallRemainder ==
  ASSUME NEW n \in Nat \ {0}, NEW x \in 0 .. n - 1
  PROVE  x % n = x /\ (x + n) % n = x
OBVIOUS

LEMMA SmallQuotient ==
  ASSUME NEW n \in Nat \ {0}, NEW r \in Nat \ {0}, NEW h \in 0 .. r - 1
  PROVE  (n * h) \div r \in 0 .. n - 1
OBVIOUS

LEMMA OriginInTable ==
  ASSUME NEW n \in Nat \ {0}, NEW a \in Addr
  PROVE  Origin(n, a) \in 0 .. n - 1
<1>1. a * Golden \in Nat
  BY AddrAssumption, HashAssumption
<1>2. (a * Golden) % Radix \in 0 .. Radix - 1
  BY <1>1, HashAssumption, Remainder
<1> QED
  BY <1>2, HashAssumption, SmallQuotient DEF Origin

LEMMA TurnInTable ==
  ASSUME NEW n \in Nat \ {0}, NEW a \in Addr, NEW m \in Nat
  PROVE  Turn(n, a, m) \in 1 .. n
<1>1. Origin(n, a) + m \in Nat
  BY OriginInTable
<1>2. (Origin(n, a) + m) % n \in 0 .. n - 1
  BY <1>1, Remainder
<1> QED
  BY <1>2 DEF Turn

(***************************************************************************)
(* The search gets to every element.                                       *)
(***************************************************************************)
LEMMA TurnGetsThere ==
  ASSUME NEW n \in Nat \ {0}, NEW a \in Addr, NEW p \in 1 .. n
  PROVE  \E m \in 0 .. n - 1 : Turn(n, a, m) = p
<1> DEFINE o == Origin(n, a)
<1>1. o \in 0 .. n - 1
  BY OriginInTable
<1> HIDE DEF o
<1>2. p - 1 \in 0 .. n - 1
  OBVIOUS
<1>3. (p - 1) % n = p - 1 /\ ((p - 1) + n) % n = p - 1
  BY <1>2, SmallRemainder
<1>4. CASE p - 1 >= o
  <2>1. (p - 1) - o \in 0 .. n - 1 /\ o + ((p - 1) - o) = p - 1
    BY <1>1, <1>4
  <2>2. Turn(n, a, (p - 1) - o) = p
    BY <2>1, <1>3 DEF Turn, o
  <2> QED
    BY <2>1, <2>2
<1>5. CASE p - 1 < o
  <2>1. (p - 1) + n - o \in 0 .. n - 1 /\ o + ((p - 1) + n - o) = (p - 1) + n
    BY <1>1, <1>5
  <2>2. Turn(n, a, (p - 1) + n - o) = p
    BY <2>1, <1>3 DEF Turn, o
  <2> QED
    BY <2>1, <2>2
<1> QED
  BY <1>1, <1>4, <1>5

-----------------------------------------------------------------------------
(***************************************************************************)
(* The search for a key in a table: where it stops, and that a table in    *)
(* which every element is found stays one when an element is filled where  *)
(* a search has ended.                                                     *)
(***************************************************************************)
Stops(tb, a, m) == tb[Turn(Len(tb), a, m)].key \in {a, NoKey}

IsFirst(tb, a, m) ==
    /\ m \in 0 .. Len(tb) - 1
    /\ Stops(tb, a, m)
    /\ \A n \in 0 .. m - 1 : ~Stops(tb, a, n)

Ends(tb, a) == \E n \in Nat : IsFirst(tb, a, n)

Occupied(tb) == {m \in DOMAIN tb : tb[m].key # NoKey}

Findable(tb) == \A m \in Occupied(tb) : Probe(tb, tb[m].key) = m

LEMMA ProbeIsFirst ==
  ASSUME NEW tb \in Storage, NEW a \in Addr, NEW m \in Nat, IsFirst(tb, a, m)
  PROVE  Probe(tb, a) = Turn(Len(tb), a, m)
<1> DEFINE F == CHOOSE n \in 0 .. Len(tb) - 1 :
                    Stops(tb, a, n) /\ \A j \in 0 .. n - 1 : ~Stops(tb, a, j)
<1>1. /\ F \in 0 .. Len(tb) - 1
      /\ Stops(tb, a, F)
      /\ \A n \in 0 .. F - 1 : ~Stops(tb, a, n)
  BY DEF IsFirst
<1>2. Probe(tb, a) = Turn(Len(tb), a, F)
  BY DEF Probe, Stops
<1> HIDE DEF F
<1>3. Len(tb) \in Nat
  BY DEF Storage
<1>4. ~(F < m) /\ ~(m < F)
  BY <1>1, <1>3 DEF IsFirst
<1> QED
  BY <1>1, <1>2, <1>3, <1>4

LEMMA FirstStop ==
  ASSUME NEW tb \in Storage, NEW a \in Addr, NEW m \in 0 .. Len(tb) - 1, Stops(tb, a, m)
  PROVE  Ends(tb, a)
<1> DEFINE S == {n \in 0 .. Len(tb) - 1 : Stops(tb, a, n)}
<1>1. S \subseteq Nat /\ S # {}
  BY DEF Storage
<1>2. PICK n \in S : \A j \in S : <<j, n>> \notin OpToRel(<, Nat)
  BY <1>1, NatLessThanWellFounded, WFMin
<1>3. ASSUME NEW j \in 0 .. n - 1, Stops(tb, a, j) PROVE FALSE
  <2>1. j \in S /\ j \in Nat /\ n \in Nat /\ j < n
    BY <1>1, <1>3 DEF Storage
  <2> QED
    BY <1>2, <2>1 DEF OpToRel
<1> QED
  BY <1>1, <1>3 DEF Ends, IsFirst

(***************************************************************************)
(* With an empty element, every search ends.                               *)
(***************************************************************************)
LEMMA SearchEnds ==
  ASSUME NEW tb \in Storage, NEW a \in Addr,
         NEW p \in 1 .. Len(tb), tb[p].key \in {a, NoKey}
  PROVE  Ends(tb, a)
<1>1. Len(tb) \in Nat \ {0}
  BY DEF Storage
<1>2. PICK m \in 0 .. Len(tb) - 1 : Turn(Len(tb), a, m) = p
  BY <1>1, TurnGetsThere
<1>3. Stops(tb, a, m)
  BY <1>2 DEF Stops
<1> QED
  BY <1>3, FirstStop

LEMMA ProbeInTable ==
  ASSUME NEW tb \in Storage, NEW a \in Addr, Ends(tb, a)
  PROVE  Probe(tb, a) \in 1 .. Len(tb) /\ tb[Probe(tb, a)].key \in {a, NoKey}
<1>0. PICK n \in Nat : IsFirst(tb, a, n)
  BY DEF Ends
<1>1. Len(tb) \in Nat \ {0}
  BY <1>0 DEF Storage, IsFirst
<1>2. Turn(Len(tb), a, n) \in 1 .. Len(tb)
  BY <1>1, TurnInTable
<1> QED
  BY <1>0, <1>2, ProbeIsFirst DEF IsFirst, Stops

(***************************************************************************)
(* What a search finds in a table where every element is found.            *)
(***************************************************************************)
LEMMA ProbeFinds ==
  ASSUME NEW tb \in Storage, NEW a \in Addr, Findable(tb)
  PROVE  tb[Probe(tb, a)].key = NoKey => a \notin Keys(tb)
<1> SUFFICES ASSUME a \in Keys(tb) PROVE tb[Probe(tb, a)].key = a
  BY AddrAssumption
<1>1. PICK m \in DOMAIN tb : tb[m].key = a
  BY DEF Keys
<1>2. m \in Occupied(tb)
  BY <1>1, AddrAssumption DEF Occupied
<1> QED
  BY <1>1, <1>2 DEF Findable

LEMMA OneElementEach ==
  ASSUME NEW tb, Findable(tb)
  PROVE  \A m, n \in Occupied(tb) : tb[m].key = tb[n].key => m = n
BY DEF Findable

LEMMA ElementType ==
  ASSUME NEW tb \in Storage, NEW m \in 1 .. Len(tb)
  PROVE  /\ tb[m] = [key |-> tb[m].key, val |-> tb[m].val]
         /\ tb[m].key \in Addr \cup {NoKey}
         /\ tb[m].val \in Value \cup {Null}
<1> DEFINE E == [key : Addr \cup {NoKey}, val : Value \cup {Null}]
<1>1. tb \in Seq(E)
  BY DEF Storage
<1> HIDE DEF E
<1>2. tb[m] \in E
  BY <1>1
<1> QED
  BY <1>2 DEF E

LEMMA KeysAreOccupied ==
  ASSUME NEW tb \in Storage
  PROVE  /\ Keys(tb) = {tb[m].key : m \in Occupied(tb)}
         /\ Keys(tb) \subseteq Addr
         /\ Occupied(tb) \subseteq 1 .. Len(tb)
         /\ IsFiniteSet(Occupied(tb)) /\ Cardinality(Occupied(tb)) \in Nat
<1>1. Keys(tb) = {tb[m].key : m \in Occupied(tb)}
  BY DEF Keys, Occupied
<1>2. ASSUME NEW m \in 1 .. Len(tb) PROVE tb[m].key \in Addr \cup {NoKey}
  BY ElementType
<1>3. Occupied(tb) \subseteq 1 .. Len(tb)
  BY DEF Occupied, Storage
<1>4. Keys(tb) \subseteq Addr
  <2>1. DOMAIN tb = 1 .. Len(tb)
    BY DEF Storage
  <2> QED
    BY <1>2, <2>1 DEF Keys
<1>5. IsFiniteSet(1 .. Len(tb))
  BY FS_Interval DEF Storage
<1> QED
  BY <1>1, <1>3, <1>4, <1>5, FS_Subset, FS_CardinalityType

(***************************************************************************)
(* A table that is not full has an empty element.                          *)
(***************************************************************************)
LEMMA SomeEmpty ==
  ASSUME NEW tb \in Storage, Cardinality(Occupied(tb)) < Len(tb)
  PROVE  \E p \in 1 .. Len(tb) : tb[p].key = NoKey
<1> SUFFICES ASSUME \A p \in 1 .. Len(tb) : tb[p].key # NoKey PROVE FALSE
  OBVIOUS
<1>1. Len(tb) \in Nat
  BY DEF Storage
<1>2. Occupied(tb) = 1 .. Len(tb)
  BY DEF Occupied, Storage
<1>3. Cardinality(1 .. Len(tb)) = Len(tb)
  <2>1. 1 \in Int /\ Len(tb) \in Int
    BY <1>1
  <2>2. Cardinality(1 .. Len(tb)) = IF 1 > Len(tb) THEN 0 ELSE Len(tb) - 1 + 1
    BY <2>1, FS_Interval, Zenon
  <2> QED
    BY <1>1, <2>2
<1>4. Cardinality(Occupied(tb)) = Cardinality(1 .. Len(tb))
  BY <1>2, Zenon
<1> QED
  BY <1>1, <1>3, <1>4

(***************************************************************************)
(* Tables of which only the values differ are searched alike.              *)
(***************************************************************************)
SameKeys(tb, td) == DOMAIN tb = DOMAIN td /\ \A m \in DOMAIN tb : tb[m].key = td[m].key

LEMMA SearchedAlike ==
  ASSUME NEW tb \in Storage, NEW td \in Storage, SameKeys(tb, td), Findable(tb)
  PROVE  /\ Occupied(td) = Occupied(tb)
         /\ Keys(td) = Keys(tb)
         /\ Len(td) = Len(tb)
         /\ Findable(td)
<1>1. Len(td) = Len(tb) /\ Len(tb) \in Nat
  BY DEF SameKeys, Storage
<1>2. Occupied(td) = Occupied(tb)
  BY DEF Occupied, SameKeys
<1>3. Keys(td) = Keys(tb)
  BY DEF Keys, SameKeys
<1>4. ASSUME NEW m \in Occupied(tb) PROVE Probe(td, td[m].key) = m
  <2> DEFINE a == tb[m].key
  <2>1. a \in Addr /\ m \in 1 .. Len(tb) /\ td[m].key = a
    BY KeysAreOccupied DEF SameKeys, Storage, Occupied
  <2> HIDE DEF a
  <2>2. PICK n \in Nat : IsFirst(tb, a, n)
    BY <2>1, SearchEnds DEF a, Ends
  <2>3. Len(tb) \in Nat \ {0}
    BY <1>1, <2>1
  <2>4. \A j \in Nat : Turn(Len(tb), a, j) \in DOMAIN tb
    BY <2>1, <2>3, TurnInTable DEF Storage
  <2>5. \A j \in Nat : Stops(td, a, j) <=> Stops(tb, a, j)
    BY <1>1, <2>4 DEF Stops, SameKeys
  <2>6. IsFirst(td, a, n)
    BY <1>1, <2>2, <2>5 DEF IsFirst
  <2>7. Probe(td, a) = Probe(tb, a)
    BY <1>1, <2>1, <2>2, <2>6, ProbeIsFirst
  <2> QED
    BY <2>1, <2>7 DEF Findable, a
<1> QED
  BY <1>1, <1>2, <1>3, <1>4 DEF Findable

(***************************************************************************)
(* An element is filled where the search for its key has ended.            *)
(***************************************************************************)
FilledWith(tb, td, a) ==
    /\ Len(td) = Len(tb)
    /\ td[Probe(tb, a)].key = a
    /\ \A m \in 1 .. Len(tb) : m # Probe(tb, a) => td[m].key = tb[m].key

LEMMA FilledIsFindable ==
  ASSUME NEW tb \in Storage, NEW td \in Storage, NEW a \in Addr,
         Ends(tb, a), Findable(tb), FilledWith(tb, td, a)
  PROVE  /\ Keys(td) = Keys(tb) \cup {a}
         /\ Occupied(td) = Occupied(tb) \cup {Probe(tb, a)}
         /\ Findable(td)
         /\ Probe(td, a) = Probe(tb, a)
<1> DEFINE p == Probe(tb, a)
<1>0. p \in 1 .. Len(tb) /\ tb[p].key \in {a, NoKey}
  BY ProbeInTable
<1>11. PICK n \in Nat : IsFirst(tb, a, n)
  BY DEF Ends
<1>10. /\ Len(td) = Len(tb)
      /\ td[p].key = a
      /\ \A m \in 1 .. Len(tb) : m # p => td[m].key = tb[m].key
  BY DEF FilledWith
<1> HIDE DEF p
<1>1. p \in 1 .. Len(tb) /\ tb[p].key \in {a, NoKey} /\ Len(tb) \in Nat \ {0}
  BY <1>0 DEF Storage
<1>2. DOMAIN td = 1 .. Len(tb) /\ DOMAIN tb = 1 .. Len(tb) /\ a # NoKey
  BY <1>10, AddrAssumption DEF Storage
<1>3. Occupied(td) = Occupied(tb) \cup {p}
  BY <1>10, <1>1, <1>2 DEF Occupied
<1>4. Keys(td) = Keys(tb) \cup {a}
  <2>1. Keys(td) \subseteq Keys(tb) \cup {a}
    BY <1>10, <1>1, <1>2 DEF Keys
  <2>2. a \in Keys(td)
    BY <1>10, <1>1, <1>2 DEF Keys
  <2>3. ASSUME NEW b \in Keys(tb), b # a PROVE b \in Keys(td)
    <3>1. PICK m \in 1 .. Len(tb) : tb[m].key = b /\ b # NoKey
      BY <1>2 DEF Keys
    <3>2. m # p
      BY <1>1, <2>3, <3>1
    <3> QED
      BY <1>10, <1>2, <3>1, <3>2 DEF Keys
  <2> QED
    BY <2>1, <2>2, <2>3
<1>5. \A b \in Addr, j \in Nat : Turn(Len(tb), b, j) \in 1 .. Len(tb)
  BY <1>1, TurnInTable
<1>6. IsFirst(td, a, n)
  <2>1. ASSUME NEW j \in Nat PROVE Stops(td, a, j) <=> Stops(tb, a, j)
    <3>1. Turn(Len(tb), a, j) \in 1 .. Len(tb)
      BY <1>5
    <3> QED
      BY <1>10, <1>1, <3>1 DEF Stops
  <2>2. \A j \in 0 .. n - 1 : j \in Nat
    OBVIOUS
  <2> QED
    BY <1>10, <1>11, <2>1, <2>2 DEF IsFirst
<1>7. Probe(td, a) = p
  BY <1>10, <1>6, <1>11, ProbeIsFirst DEF p
<1>8. ASSUME NEW m \in Occupied(tb), m # p PROVE Probe(td, td[m].key) = m
  <2> DEFINE b == tb[m].key
  <2>1. m \in 1 .. Len(tb) /\ b \in Addr
    BY KeysAreOccupied
  <2>2. td[m].key = b /\ Probe(tb, b) = m
    BY <1>10, <1>8, <2>1 DEF Findable
  <2>3. PICK l \in Nat : IsFirst(tb, b, l)
    BY <2>1, SearchEnds DEF Ends
  <2> HIDE DEF b
  <2>4. b # a
    BY <1>8, <2>2 DEF p
  <2>5. Turn(Len(tb), b, l) = m
    BY <2>1, <2>2, <2>3, ProbeIsFirst
  <2>6. Stops(td, b, l)
    BY <1>10, <2>2, <2>5 DEF Stops
  <2>7. ASSUME NEW j \in 0 .. l - 1, Stops(td, b, j) PROVE FALSE
    <3>1. j \in Nat /\ ~Stops(tb, b, j)
      BY <2>3 DEF IsFirst
    <3>2. Turn(Len(tb), b, j) \in 1 .. Len(tb)
      BY <1>5, <2>1, <3>1
    <3>3. Turn(Len(tb), b, j) # p
      BY <1>10, <1>2, <2>4, <2>7 DEF Stops
    <3> QED
      BY <1>10, <2>7, <3>1, <3>2, <3>3 DEF Stops
  <2>8. IsFirst(td, b, l)
    BY <1>10, <2>3, <2>6, <2>7 DEF IsFirst
  <2> QED
    BY <1>10, <2>1, <2>2, <2>5, <2>8, ProbeIsFirst
<1>9. ASSUME NEW m \in Occupied(td) PROVE Probe(td, td[m].key) = m
  BY <1>10, <1>3, <1>7, <1>8
<1> QED
  BY <1>3, <1>4, <1>7, <1>9 DEF Findable, p

With(tb, a, v) == [tb EXCEPT ![Probe(tb, a)] = [key |-> a, val |-> v]]

LEMMA Filled ==
  ASSUME NEW tb \in Storage, NEW a \in Addr, NEW v \in Value \cup {Null},
         Ends(tb, a), Findable(tb),
         NEW td, td = With(tb, a, v)
  PROVE  /\ td \in Storage
         /\ Len(td) = Len(tb)
         /\ Keys(td) = Keys(tb) \cup {a}
         /\ Occupied(td) = Occupied(tb) \cup {Probe(tb, a)}
         /\ Findable(td)
         /\ Probe(td, a) = Probe(tb, a)
<1> DEFINE p == Probe(tb, a)
<1>1. p \in 1 .. Len(tb)
  BY ProbeInTable
<1> HIDE DEF p
<1>2. td \in Storage /\ Len(td) = Len(tb)
  BY <1>1 DEF Storage, p, With
<1>3. FilledWith(tb, td, a)
  BY <1>1, <1>2 DEF Storage, p, FilledWith, With
<1>4. Keys(td) = Keys(tb) \cup {a} /\ Findable(td)
  BY <1>2, <1>3, FilledIsFindable
<1>5. Occupied(td) = Occupied(tb) \cup {Probe(tb, a)} /\ Probe(td, a) = Probe(tb, a)
  BY <1>2, <1>3, FilledIsFindable
<1> QED
  BY <1>2, <1>4, <1>5, Zenon

-----------------------------------------------------------------------------
(***************************************************************************)
(* What a table has stored for a key.  Empty elements have no values.      *)
(***************************************************************************)
OneEach(tb) == \A m, n \in Occupied(tb) : tb[m].key = tb[n].key => m = n

Blank(tb) == \A m \in DOMAIN tb : tb[m].key = NoKey => tb[m].val = Null

Stored(tb, a) ==
    IF a \in Keys(tb) THEN tb[CHOOSE m \in Occupied(tb) : tb[m].key = a].val ELSE Null

LEMMA StoredIs ==
  ASSUME NEW tb \in Storage, OneEach(tb)
  PROVE  /\ \A m \in Occupied(tb) : Stored(tb, tb[m].key) = tb[m].val
         /\ \A a \in Addr : a \notin Keys(tb) => Stored(tb, a) = Null
<1>1. ASSUME NEW m \in Occupied(tb) PROVE Stored(tb, tb[m].key) = tb[m].val
  <2>1. tb[m].key \in Keys(tb)
    BY KeysAreOccupied
  <2>2. PICK n : n = CHOOSE x \in Occupied(tb) : tb[x].key = tb[m].key
    OBVIOUS
  <2>3. n \in Occupied(tb) /\ tb[n].key = tb[m].key
    BY <2>2
  <2>4. n = m
    BY <2>3 DEF OneEach
  <2> QED
    BY <2>1, <2>2, <2>4 DEF Stored
<1> QED
  BY <1>1 DEF Stored

(***************************************************************************)
(* Tables with the same elements but one have the same values but one.     *)
(***************************************************************************)
LEMMA StoredAlike ==
  ASSUME NEW tb \in Storage, OneEach(tb), NEW td \in Storage, OneEach(td), NEW a \in Addr,
         \A m \in Occupied(tb) : tb[m].key # a => m \in Occupied(td) /\ td[m] = tb[m],
         \A m \in Occupied(td) : td[m].key # a => m \in Occupied(tb) /\ td[m] = tb[m]
  PROVE  \A b \in Addr \ {a} : Stored(td, b) = Stored(tb, b)
<1> SUFFICES ASSUME NEW b \in Addr \ {a} PROVE Stored(td, b) = Stored(tb, b)
  OBVIOUS
<1>1. CASE b \in Keys(tb)
  <2>1. PICK m \in Occupied(tb) : tb[m].key = b
    BY <1>1, KeysAreOccupied
  <2>2. m \in Occupied(td) /\ td[m] = tb[m]
    BY <2>1
  <2> QED
    BY <2>1, <2>2, StoredIs
<1>2. CASE b \notin Keys(tb)
  <2>1. b \notin Keys(td)
    <3> SUFFICES ASSUME b \in Keys(td) PROVE FALSE
      OBVIOUS
    <3>1. PICK m \in Occupied(td) : td[m].key = b
      BY KeysAreOccupied
    <3> QED
      BY <1>2, <3>1, KeysAreOccupied
  <2> QED
    BY <1>2, <2>1, StoredIs
<1> QED
  BY <1>1, <1>2

LEMMA FilledStored ==
  ASSUME NEW tb \in Storage, NEW a \in Addr, NEW v \in Value \cup {Null},
         Ends(tb, a), Findable(tb), Blank(tb),
         NEW td, td = With(tb, a, v)
  PROVE  /\ Blank(td)
         /\ tb[Probe(tb, a)].val = Stored(tb, a)
         /\ Stored(td, a) = v
         /\ \A b \in Addr \ {a} : Stored(td, b) = Stored(tb, b)
<1> DEFINE p == Probe(tb, a)
<1>1. p \in 1 .. Len(tb) /\ tb[p].key \in {a, NoKey} /\ a # NoKey
  BY ProbeInTable, AddrAssumption
<1>2. td \in Storage /\ Findable(td) /\ Len(td) = Len(tb) /\ Occupied(td) = Occupied(tb) \cup {p}
  BY Filled
<1>3. OneEach(tb) /\ OneEach(td)
  BY <1>2, OneElementEach DEF OneEach
<1>4. tb[p].key = NoKey => a \notin Keys(tb)
  BY ProbeFinds
<1>5. td = [tb EXCEPT ![p] = [key |-> a, val |-> v]]
  BY DEF With
<1> HIDE DEF p
<1>6. DOMAIN tb = 1 .. Len(tb) /\ DOMAIN td = 1 .. Len(tb)
  BY <1>2 DEF Storage
<1>7. td[p].key = a /\ td[p].val = v /\ \A m \in 1 .. Len(tb) : m # p => td[m] = tb[m]
  BY <1>1, <1>5, <1>6
<1>8. Blank(td)
  BY <1>1, <1>6, <1>7 DEF Blank
<1>9. Stored(td, a) = v
  BY <1>2, <1>3, <1>7, StoredIs
<1>10. tb[p].val = Stored(tb, a)
  <2>1. CASE tb[p].key = a
    <3>1. p \in Occupied(tb)
      BY <1>1, <1>6, <2>1 DEF Occupied
    <3> QED
      BY <1>3, <2>1, <3>1, StoredIs
  <2>2. CASE tb[p].key = NoKey
    BY <1>1, <1>3, <1>4, <1>6, <2>2, StoredIs DEF Blank
  <2> QED
    BY <1>1, <2>1, <2>2
<1>11. \A b \in Addr \ {a} : Stored(td, b) = Stored(tb, b)
  <2>1. \A m \in Occupied(tb) : m \in 1 .. Len(tb)
    BY <1>6 DEF Occupied
  <2>2. \A m \in Occupied(tb) : tb[m].key # a => m \in Occupied(td) /\ td[m] = tb[m]
    <3> SUFFICES ASSUME NEW m \in Occupied(tb), tb[m].key # a PROVE m # p
      BY <1>2, <1>7, <2>1
    <3> QED
      BY <1>1 DEF Occupied
  <2>3. \A m \in Occupied(td) : td[m].key # a => m \in Occupied(tb) /\ td[m] = tb[m]
    BY <1>2, <1>7, <2>1
  <2> QED
    BY <1>2, <1>3, <2>2, <2>3, StoredAlike
<1> QED
  BY <1>8, <1>9, <1>10, <1>11 DEF p

-----------------------------------------------------------------------------
(***************************************************************************)
(* Elements are moved out of old storage from its end.                     *)
(***************************************************************************)
LEMMA Greatest ==
  ASSUME NEW n \in Nat, NEW S \in SUBSET (1 .. n), S # {}
  PROVE  Max(S) \in S /\ \A x \in S : x <= Max(S)
<1> DEFINE Bound(x) == x \in Nat /\ \A y \in S : y <= x
           T == {x \in Nat : Bound(x)}
<1>0. PICK y0 \in S : TRUE
  OBVIOUS
<1>1. \A y \in S : y \in Nat /\ y >= 1 /\ y <= n
  OBVIOUS
<1>2. Bound(n)
  BY <1>1
<1> HIDE DEF Bound
<1>3. n \in T /\ T \subseteq Nat
  BY <1>2
<1>4. PICK x \in T : \A z \in T : <<z, x>> \notin OpToRel(<, Nat)
  BY <1>3, NatLessThanWellFounded, WFMin
<1>5. x \in Nat /\ Bound(x)
  BY <1>4
<1>6. ASSUME x \notin S PROVE FALSE
  <2>1. \A y \in S : y <= x /\ y # x
    BY <1>5, <1>6 DEF Bound
  <2>2. \A y \in S : y <= x - 1
    BY <1>1, <1>5, <2>1
  <2>3. x - 1 \in Nat
    BY <1>0, <1>1, <1>5, <2>2
  <2>4. x - 1 \in T
    BY <2>2, <2>3 DEF Bound
  <2>5. x - 1 < x
    BY <1>5
  <2> QED
    BY <1>4, <1>5, <2>3, <2>4, <2>5 DEF OpToRel
<1>7. \E x1 \in S : \A y \in S : x1 >= y
  <2>1. \A y \in S : x >= y
    BY <1>1, <1>5 DEF Bound
  <2> QED
    BY <1>6, <2>1
<1>8. Max(S) \in S /\ \A y \in S : Max(S) >= y
  BY <1>7 DEF Max
<1> QED
  BY <1>1, <1>8

Before(tb, m) == SubSeq(tb, 1, m - 1)

LEMMA Shorter ==
  ASSUME NEW od \in Storage, OneEach(od), NEW m \in Occupied(od),
         \A n \in Occupied(od) : n <= m,
         NEW sd, sd = Before(od, m)
  PROVE  /\ sd \in Storage
         /\ Occupied(sd) = Occupied(od) \ {m}
         /\ \A n \in Occupied(sd) : sd[n] = od[n]
         /\ Keys(sd) = Keys(od) \ {od[m].key}
         /\ OneEach(sd)
<1>0. DOMAIN od = 1 .. Len(od) /\ Len(od) \in Nat
  BY DEF Storage
<1>1. m \in 1 .. Len(od) /\ DOMAIN od = 1 .. Len(od) /\ Len(od) \in Nat
  BY <1>0, KeysAreOccupied
<1>2. sd \in Storage /\ Len(sd) = m - 1 /\ \A n \in 1 .. m - 1 : sd[n] = od[n]
  <2> DEFINE E == [key : Addr \cup {NoKey}, val : Value \cup {Null}]
  <2>1. od \in Seq(E)
    BY DEF Storage
  <2> HIDE DEF E
  <2>2. sd \in Seq(E) /\ Len(sd) = m - 1 /\ \A n \in 1 .. m - 1 : sd[n] = od[n]
    BY <1>1, <2>1 DEF Before
  <2> QED
    BY <2>2 DEF Storage, E
<1>3. DOMAIN sd = 1 .. m - 1
  BY <1>2 DEF Storage
<1>4. Occupied(sd) = Occupied(od) \ {m}
  <2>1. ASSUME NEW n \in Occupied(sd) PROVE n \in Occupied(od) \ {m}
    BY <1>1, <1>2, <1>3 DEF Occupied
  <2>2. ASSUME NEW n \in Occupied(od) \ {m} PROVE n \in Occupied(sd)
    <3>1. n \in 1 .. Len(od) /\ n <= m /\ n # m
      BY <1>1 DEF Occupied
    <3>2. n \in 1 .. m - 1
      BY <1>1, <3>1
    <3> QED
      BY <1>2, <1>3, <3>2 DEF Occupied
  <2> QED
    BY <2>1, <2>2
<1>5. ASSUME NEW n \in Occupied(sd) PROVE sd[n] = od[n]
  BY <1>2, <1>3 DEF Occupied
<1>6. Keys(sd) = Keys(od) \ {od[m].key}
  <2>0. Keys(sd) = {sd[n].key : n \in Occupied(sd)}
    BY <1>2, KeysAreOccupied
  <2>1. Keys(sd) = {od[n].key : n \in Occupied(od) \ {m}}
    BY <1>4, <1>5, <2>0
  <2>2. Keys(od) = {od[n].key : n \in Occupied(od)}
    BY KeysAreOccupied
  <2> QED
    BY <2>1, <2>2 DEF OneEach
<1>7. OneEach(sd)
  BY <1>4, <1>5 DEF OneEach
<1> QED
  BY <1>2, <1>4, <1>5, <1>6, <1>7

-----------------------------------------------------------------------------
(* How many keys of a table have not been deleted *)

ActiveIn(tb) == {m \in Occupied(tb) : ~deleted[tb[m].key]}

LEMMA ActiveAreFinite ==
  ASSUME NEW tb \in Storage
  PROVE  /\ Active(tb) = Cardinality(ActiveIn(tb))
         /\ IsFiniteSet(ActiveIn(tb))
         /\ Active(tb) \in Nat
<1>1. ActiveIn(tb) = {m \in DOMAIN tb : tb[m].key # NoKey /\ ~deleted[tb[m].key]}
  BY DEF ActiveIn, Occupied
<1>2. ActiveIn(tb) \in SUBSET Occupied(tb) /\ IsFiniteSet(Occupied(tb))
  BY KeysAreOccupied DEF ActiveIn
<1>3. IsFiniteSet(ActiveIn(tb)) /\ Cardinality(ActiveIn(tb)) \in Nat
  BY <1>2, FS_Subset, FS_CardinalityType
<1>4. Active(tb) = Cardinality(ActiveIn(tb))
  BY <1>1, Zenon DEF Active
<1> QED
  BY <1>3, <1>4

LEMMA ActiveShrinks ==
  ASSUME NEW tb \in Storage, \A a \in Keys(tb) : deleted[a] => deleted'[a]
  PROVE  Active(tb)' <= Active(tb) /\ Active(tb)' \in Nat
<1> DEFINE L == {m \in Occupied(tb) : ~deleted'[tb[m].key]}
<1>1. L \in SUBSET ActiveIn(tb)
  BY KeysAreOccupied DEF ActiveIn
<1>2. L = {m \in DOMAIN tb : tb[m].key # NoKey /\ ~deleted'[tb[m].key]}
  BY DEF Occupied
<1>3. Active(tb)' = Cardinality(L)
  BY <1>2, Zenon DEF Active
<1> HIDE DEF L
<1>4. IsFiniteSet(L) /\ Cardinality(L) <= Cardinality(ActiveIn(tb)) /\ Cardinality(L) \in Nat
  BY <1>1, ActiveAreFinite, FS_Subset, FS_CardinalityType
<1> QED
  BY <1>3, <1>4, ActiveAreFinite

LEMMA ActiveWithout ==
  ASSUME NEW od \in Storage, NEW m \in Occupied(od), NEW sd \in Storage,
         Occupied(sd) = Occupied(od) \ {m}, \A n \in Occupied(sd) : sd[n] = od[n]
  PROVE  Active(sd) = IF deleted[od[m].key] THEN Active(od) ELSE Active(od) - 1
<1>2. ActiveIn(sd) = ActiveIn(od) \ {m}
  BY DEF ActiveIn
<1>3. m \in ActiveIn(od) <=> ~deleted[od[m].key]
  BY DEF ActiveIn
<1>4. Cardinality(ActiveIn(sd)) = Cardinality(ActiveIn(od) \ {m})
  BY <1>2, Zenon
<1>5. Cardinality(ActiveIn(od) \ {m}) =
      IF m \in ActiveIn(od) THEN Cardinality(ActiveIn(od)) - 1 ELSE Cardinality(ActiveIn(od))
  BY ActiveAreFinite, FS_RemoveElement
<1> QED
  BY <1>3, <1>4, <1>5, ActiveAreFinite

-----------------------------------------------------------------------------
(* The inductive invariant *)

(***************************************************************************)
(* No more than half of the table is in use, __size_hint says how many     *)
(* elements are, and the search for a key that is there finds it.          *)
(***************************************************************************)
Half(t) ==
    /\ size[t] = Cardinality(Occupied(table[t]))
    /\ 2 * size[t] <= Len(table[t])
    /\ Findable(table[t])
    /\ Blank(table[t])

(***************************************************************************)
(* No key is in the table and in the storage that it moves out of, which   *)
(* is there only during the move.                                          *)
(***************************************************************************)
Apart(t) ==
    /\ Keys(table[t]) \cap Keys(old[t]) = {}
    /\ OneEach(old[t])
    /\ call[t].at # "move" => old[t] = <<>>

(***************************************************************************)
(* A call is about a key.  There is room for the elements that are still   *)
(* to be moved, and for a new one.                                         *)
(***************************************************************************)
Roomy(t) ==
    /\ call[t].at \in {"grow", "move", "insert", "popped"} => call[t].key \in Addr
    /\ call[t].at = "grow" => call[t].val # Null
    /\ call[t].at = "move" => 2 * (size[t] + Active(old[t])) + 2 <= Len(table[t])
    /\ call[t].at = "insert" =>
          /\ table[t] # <<>>
          /\ call[t].val # Null => 2 * size[t] + 2 <= Len(table[t])

TableInv(t) == Half(t) /\ Apart(t) /\ Roomy(t)

(***************************************************************************)
(* The key of a call has a reference that will last: one of the program,   *)
(* or that of the table, which is dropped only when the table grows and    *)
(* the key has been deleted before it is moved.                            *)
(***************************************************************************)
Using(t) ==
    call[t].key # NoKey =>
        \/ own[call[t].key] > 0
        \/ call[t].key \in Keys(table[t]) /\ (call[t].at = "grow" => ~deleted[call[t].key])
        \/ call[t].key \in Keys(old[t]) /\ ~deleted[call[t].key]

(***************************************************************************)
(* What a thread has stored for a key, in either storage.                  *)
(***************************************************************************)
Held(t, a) == IF a \in Keys(old[t]) THEN Stored(old[t], a) ELSE Stored(table[t], a)

Holders(a) == {t \in Thread : InTable(t, a)}

AllCounted == \A a \in Addr : nref[a] = own[a] + Cardinality(Holders(a))

IInv == TypeOK /\ AllCounted /\ \A t \in Thread : TableInv(t) /\ Using(t)

LEMMA Types ==
  ASSUME TypeOK, NEW t \in Thread
  PROVE  /\ table[t] \in Storage /\ old[t] \in Storage
         /\ size[t] \in Nat /\ hint[t] \in Nat
         /\ call[t].at \in At /\ call[t].key \in Addr \cup {NoKey}
         /\ call[t].val \in Value \cup {Null} /\ call[t].cleanup \in BOOLEAN
BY DEF TypeOK

LEMMA EmptyStorage ==
  <<>> \in Storage /\ Len(<<>>) = 0 /\ Occupied(<<>>) = {} /\ Keys(<<>>) = {}
  /\ Findable(<<>>) /\ OneEach(<<>>) /\ Blank(<<>>)
<1>1. <<>> \in Storage /\ Len(<<>>) = 0 /\ DOMAIN <<>> = {}
  BY DEF Storage
<1>2. Occupied(<<>>) = {} /\ Keys(<<>>) = {}
  BY <1>1 DEF Occupied, Keys
<1> QED
  BY <1>1, <1>2 DEF Findable, OneEach, Blank

(***************************************************************************)
(* A key that nobody refers to is in no table.                             *)
(***************************************************************************)
LEMMA Counted ==
  ASSUME TypeOK, AllCounted, NEW a \in Addr
  PROVE  /\ IsFiniteSet(Holders(a)) /\ Cardinality(Holders(a)) \in Nat
         /\ nref[a] = own[a] + Cardinality(Holders(a))
         /\ nref[a] \in Nat /\ own[a] \in Nat
         /\ \A t \in Thread : InTable(t, a) => nref[a] > own[a]
<1>1. IsFiniteSet(Holders(a)) /\ Cardinality(Holders(a)) \in Nat
  BY FinitelyMany, FS_Subset, FS_CardinalityType DEF Holders
<1>2. nref[a] = own[a] + Cardinality(Holders(a)) /\ nref[a] \in Nat /\ own[a] \in Nat
  BY DEF AllCounted, TypeOK
<1>3. ASSUME NEW t \in Thread, InTable(t, a) PROVE Cardinality(Holders(a)) # 0
  BY <1>1, <1>3, FS_EmptySet DEF Holders
<1> QED
  BY <1>1, <1>2, <1>3

(***************************************************************************)
(* A step of t counts the keys that come into its tables and those that go *)
(* out of them.                                                            *)
(***************************************************************************)
Counts(t) ==
    \A a \in Addr :
        nref'[a] = IF InTable(t, a)' /\ ~InTable(t, a) THEN nref[a] + 1
                   ELSE IF InTable(t, a) /\ ~InTable(t, a)' THEN nref[a] - 1 ELSE nref[a]

OthersKept(t) ==
    \A u \in Thread \ {t} :
        table'[u] = table[u] /\ size'[u] = size[u] /\ old'[u] = old[u] /\ call'[u] = call[u]

LEMMA RefsFollow ==
  ASSUME TypeOK, AllCounted, NEW t \in Thread, OthersKept(t), own' = own, Counts(t)
  PROVE  AllCounted' /\ \A a \in Addr : nref'[a] \in Nat
<1> SUFFICES ASSUME NEW a \in Addr
             PROVE  nref'[a] \in Nat /\ nref'[a] = own'[a] + Cardinality(Holders(a)')
  BY DEF AllCounted
<1>1. \A u \in Thread \ {t} : InTable(u, a)' <=> InTable(u, a)
  BY DEF OthersKept, InTable
<1>2. Holders(a)' = IF InTable(t, a)' THEN Holders(a) \cup {t} ELSE Holders(a) \ {t}
  BY <1>1 DEF Holders
<1>3. t \in Holders(a) <=> InTable(t, a)
  BY DEF Holders
<1>4. /\ Cardinality(Holders(a) \cup {t}) =
            IF InTable(t, a) THEN Cardinality(Holders(a)) ELSE Cardinality(Holders(a)) + 1
      /\ Cardinality(Holders(a) \ {t}) =
            IF InTable(t, a) THEN Cardinality(Holders(a)) - 1 ELSE Cardinality(Holders(a))
  BY <1>3, Counted, FS_AddElement, FS_RemoveElement
<1>5. Cardinality(Holders(a)') = IF InTable(t, a)' THEN Cardinality(Holders(a) \cup {t})
                                 ELSE Cardinality(Holders(a) \ {t})
  BY <1>2, Zenon
<1>6. InTable(t, a) => nref[a] > own[a]
  BY Counted
<1>7. nref'[a] = IF InTable(t, a)' /\ ~InTable(t, a) THEN nref[a] + 1
                 ELSE IF InTable(t, a) /\ ~InTable(t, a)' THEN nref[a] - 1 ELSE nref[a]
  BY DEF Counts
<1> QED
  BY <1>4, <1>5, <1>6, <1>7, Counted

(***************************************************************************)
(* A table is not disturbed when keys that its thread is still to move are *)
(* deleted.                                                                *)
(***************************************************************************)
LEMMA Undisturbed ==
  ASSUME TypeOK, NEW u \in Thread, TableInv(u),
         table'[u] = table[u], size'[u] = size[u], old'[u] = old[u], call'[u] = call[u],
         \A a \in Keys(old[u]) : deleted[a] => deleted'[a]
  PROVE  TableInv(u)'
<1>1. PICK tb : tb = old[u]
  OBVIOUS
<1>2. tb \in Storage /\ Active(tb)' <= Active(tb) /\ Active(tb)' \in Nat /\ Active(tb) \in Nat
  BY <1>1, Types, ActiveShrinks, ActiveAreFinite
<1>3. Active(old[u])' = Active(tb)' /\ Active(old[u]) = Active(tb)
  BY <1>1 DEF Active
<1>4. Half(u)' /\ Apart(u)'
  BY DEF TableInv, Half, Apart
<1>5. Roomy(u)'
  BY <1>2, <1>3, Types DEF TableInv, Roomy
<1> QED
  BY <1>4, <1>5 DEF TableInv

LEMMA Preserved ==
  ASSUME IInv, NEW t \in Thread, TypeOK', OthersKept(t), own' = own, deleted' = deleted,
         Counts(t), TableInv(t)', Using(t)'
  PROVE  IInv'
<1>1. AllCounted'
  BY RefsFollow DEF IInv
<1>2. ASSUME NEW u \in Thread \ {t} PROVE TableInv(u)' /\ Using(u)'
  <2>1. TableInv(u)'
    BY Undisturbed DEF OthersKept, IInv
  <2>2. Using(u)'
    BY DEF OthersKept, IInv, Using
  <2> QED
    BY <2>1, <2>2
<1> QED
  BY <1>1, <1>2 DEF IInv

-----------------------------------------------------------------------------
(* The steps that count and delete keys *)

LEMMA KeysChange ==
  ASSUME IInv, nref' \in [Addr -> Nat], own' \in [Addr -> Nat], deleted' \in [Addr -> BOOLEAN],
         \A b \in Addr : nref'[b] - own'[b] = nref[b] - own[b],
         UNCHANGED <<tableVars, call, hint, exiting, uses>>,
         \A u \in Thread : \A b \in Keys(old[u]) : deleted[b] => deleted'[b],
         \A u \in Thread : Using(u)'
  PROVE  IInv'
<1> USE DEF IInv
<1>1. TypeOK'
  BY DEF TypeOK, tableVars
<1>2. AllCounted'
  <2> SUFFICES ASSUME NEW b \in Addr
               PROVE  nref'[b] = own'[b] + Cardinality(Holders(b)')
    BY DEF AllCounted
  <2>1. Holders(b)' = Holders(b)
    BY DEF Holders, InTable, tableVars
  <2>2. Cardinality(Holders(b)') = Cardinality(Holders(b))
    BY <2>1, Zenon
  <2>3. nref'[b] \in Nat /\ own'[b] \in Nat /\ nref'[b] - own'[b] = nref[b] - own[b]
    OBVIOUS
  <2> HIDE DEF IInv
  <2> QED
    BY <2>2, <2>3, Counted DEF IInv
<1>3. \A u \in Thread : TableInv(u)'
  BY Undisturbed DEF tableVars
<1> QED
  BY <1>1, <1>2, <1>3

LEMMA KeySteps ==
  ASSUME IInv, NEW a \in Addr, OfKeys(a), uses' = uses
  PROVE  IInv'
<1> USE DEF IInv
<1>1. nref[a] \in Nat /\ own[a] \in Nat /\ nref[a] >= own[a]
  BY Counted
<1>2. UNCHANGED <<tableVars, call, hint, exiting, uses>>
  BY DEF OfKeys, KeyNew, AddRef, DropRef, KeyDelete
<1>3. \A u \in Thread : Keys(old[u]) \subseteq Addr
  BY Types, KeysAreOccupied
<1>31. ASSUME NEW u \in Thread PROVE Using(u)'
  <2> DEFINE b == call[u].key
  <2>1. /\ call'[u] = call[u] /\ table'[u] = table[u] /\ old'[u] = old[u]
        /\ b \in Addr \cup {NoKey} /\ Using(u)
    BY <1>2, Types DEF tableVars
  <2>2. Using(u) <=> (b # NoKey => \/ own[b] > 0
                                   \/ b \in Keys(table[u]) /\ (call[u].at = "grow" => ~deleted[b])
                                   \/ b \in Keys(old[u]) /\ ~deleted[b])
    BY DEF Using
  <2>3. Using(u)' <=> (b # NoKey => \/ own'[b] > 0
                                    \/ b \in Keys(table[u]) /\ (call[u].at = "grow" => ~deleted'[b])
                                    \/ b \in Keys(old[u]) /\ ~deleted'[b])
    BY <2>1 DEF Using
  <2> HIDE DEF b
  <2>4. CASE b # a
    <3>1. b \in Addr => own'[b] = own[b] /\ deleted'[b] = deleted[b]
      BY <2>4 DEF OfKeys, KeyNew, AddRef, DropRef, KeyDelete, TypeOK
    <3> QED
      BY <2>1, <2>2, <2>3, <3>1
  <2>5. CASE b = a /\ (KeyNew(a) \/ AddRef(a))
    <3>1. own'[a] > 0
      BY <1>1, <2>5 DEF KeyNew, AddRef, TypeOK
    <3> QED
      BY <2>3, <2>5, <3>1
  <2>6. CASE b = a /\ (DropRef(a) \/ KeyDelete(a))
    <3>1. own'[a] = own[a] - 1 /\ own[a] > 0
      BY <1>1, <2>6 DEF DropRef, KeyDelete, MayDrop, TypeOK
    <3>2. own[a] = 1 => a \in Keys(table[u]) /\ call[u].at # "grow"
      BY <2>6 DEF DropRef, KeyDelete, MayDrop, b
    <3> QED
      BY <1>1, <2>3, <2>6, <3>1, <3>2
  <2> QED
    BY <2>4, <2>5, <2>6 DEF OfKeys
<1>4. CASE KeyNew(a)
  <2>1. own[a] = 0 /\ nref[a] = 0
    BY <1>1, <1>4 DEF KeyNew
  <2>2. \A u \in Thread : a \notin Keys(old[u])
    BY <1>1, <2>1, Counted DEF InTable
  <2>3. /\ nref' \in [Addr -> Nat] /\ own' \in [Addr -> Nat]
        /\ \A b \in Addr : nref'[b] - own'[b] = nref[b] - own[b]
    BY <1>4, <2>1 DEF KeyNew, TypeOK
  <2>4. deleted' \in [Addr -> BOOLEAN] /\ \A b \in Addr \ {a} : deleted'[b] = deleted[b]
    BY <1>4 DEF KeyNew, TypeOK
  <2>5. \A u \in Thread : \A b \in Keys(old[u]) : deleted[b] => deleted'[b]
    BY <1>3, <2>2, <2>4
  <2> QED
    BY <1>2, <1>31, <2>3, <2>4, <2>5, KeysChange
<1>5. CASE AddRef(a)
  <2>1. /\ nref' \in [Addr -> Nat] /\ own' \in [Addr -> Nat]
        /\ \A b \in Addr : nref'[b] - own'[b] = nref[b] - own[b]
    BY <1>5 DEF AddRef, TypeOK
  <2>2. deleted' = deleted /\ deleted' \in [Addr -> BOOLEAN]
    BY <1>5 DEF AddRef, TypeOK
  <2> QED
    BY <1>2, <1>31, <2>1, <2>2, KeysChange
<1>6. CASE DropRef(a) \/ KeyDelete(a)
  <2>1. /\ own[a] > 0 /\ nref' = [nref EXCEPT ![a] = @ - 1] /\ own' = [own EXCEPT ![a] = @ - 1]
    BY <1>6 DEF DropRef, KeyDelete, MayDrop
  <2>2. /\ nref' \in [Addr -> Nat] /\ own' \in [Addr -> Nat]
        /\ \A b \in Addr : nref'[b] - own'[b] = nref[b] - own[b]
    BY <1>1, <2>1 DEF TypeOK
  <2>3. deleted' \in [Addr -> BOOLEAN] /\ \A b \in Addr : deleted[b] => deleted'[b]
    BY <1>6 DEF DropRef, KeyDelete, TypeOK
  <2>4. \A u \in Thread : \A b \in Keys(old[u]) : deleted[b] => deleted'[b]
    BY <1>3, <2>3
  <2> QED
    BY <1>2, <1>31, <2>2, <2>3, <2>4, KeysChange
<1> QED
  BY <1>4, <1>5, <1>6 DEF OfKeys

-----------------------------------------------------------------------------
(* The steps of a thread that leave its table alone *)

LEMMA OnlyCall ==
  ASSUME IInv, NEW t \in Thread, UNCHANGED <<keyVars, tableVars, uses>>,
         call' \in [Thread -> [at : At, key : Addr \cup {NoKey}, val : Value \cup {Null},
                               cleanup : BOOLEAN]],
         \A u \in Thread \ {t} : call'[u] = call[u],
         hint' \in [Thread -> Nat], exiting' \in SUBSET Thread,
         Apart(t)', Roomy(t)', Using(t)'
  PROVE  IInv'
<1> USE DEF IInv
<1>1. TypeOK'
  BY DEF TypeOK, keyVars, tableVars
<1>2. OthersKept(t) /\ own' = own /\ deleted' = deleted
  BY DEF OthersKept, tableVars, keyVars
<1>3. Counts(t)
  BY DEF Counts, InTable, keyVars, tableVars
<1>4. TableInv(t)'
  BY DEF TableInv, Half, tableVars
<1> QED
  BY <1>1, <1>2, <1>3, <1>4, Preserved

LEMMA CallFacts ==
  ASSUME TypeOK, NEW t \in Thread
  PROVE  /\ Returns(t) => /\ call' \in [Thread -> [at : At, key : Addr \cup {NoKey},
                                          val : Value \cup {Null}, cleanup : BOOLEAN]]
                          /\ call'[t] = Idle /\ \A u \in Thread \ {t} : call'[u] = call[u]
         /\ \A at \in At : Goes(t, at) =>
                 /\ call' \in [Thread -> [at : At, key : Addr \cup {NoKey},
                                          val : Value \cup {Null}, cleanup : BOOLEAN]]
                 /\ call'[t].at = at /\ call'[t].key = call[t].key
                 /\ call'[t].val = call[t].val /\ call'[t].cleanup = call[t].cleanup
                 /\ \A u \in Thread \ {t} : call'[u] = call[u]
         /\ \A code \in Result : Gives(t, code) =>
                 /\ call' \in [Thread -> [at : At, key : Addr \cup {NoKey},
                                          val : Value \cup {Null}, cleanup : BOOLEAN]]
                 /\ call'[t].at = code /\ call'[t].key = NoKey
                 /\ \A u \in Thread \ {t} : call'[u] = call[u]
<1>1. Idle \in [at : At, key : Addr \cup {NoKey}, val : Value \cup {Null}, cleanup : BOOLEAN]
  BY DEF Idle, At
<1>2. ASSUME Returns(t)
      PROVE  /\ call' \in [Thread -> [at : At, key : Addr \cup {NoKey},
                                      val : Value \cup {Null}, cleanup : BOOLEAN]]
             /\ call'[t] = Idle /\ \A u \in Thread \ {t} : call'[u] = call[u]
  BY <1>1, <1>2 DEF TypeOK, Returns
<1>3. ASSUME NEW at \in At, Goes(t, at)
      PROVE  /\ call' \in [Thread -> [at : At, key : Addr \cup {NoKey},
                                      val : Value \cup {Null}, cleanup : BOOLEAN]]
             /\ call'[t].at = at /\ call'[t].key = call[t].key
             /\ call'[t].val = call[t].val /\ call'[t].cleanup = call[t].cleanup
             /\ \A u \in Thread \ {t} : call'[u] = call[u]
  <2>1. [call[t] EXCEPT !.at = at] \in
           [at : At, key : Addr \cup {NoKey}, val : Value \cup {Null}, cleanup : BOOLEAN]
    BY DEF TypeOK
  <2>2. call' = [call EXCEPT ![t] = [call[t] EXCEPT !.at = at]]
    BY <1>3 DEF Goes
  <2>3. call'[t] = [call[t] EXCEPT !.at = at] /\ \A u \in Thread \ {t} : call'[u] = call[u]
    BY <2>2 DEF TypeOK
  <2>4. call' \in [Thread -> [at : At, key : Addr \cup {NoKey}, val : Value \cup {Null},
                              cleanup : BOOLEAN]]
    BY <2>1, <2>2 DEF TypeOK
  <2> QED
    BY <2>3, <2>4 DEF TypeOK
<1>4. ASSUME NEW code \in Result, Gives(t, code)
      PROVE  /\ call' \in [Thread -> [at : At, key : Addr \cup {NoKey},
                                      val : Value \cup {Null}, cleanup : BOOLEAN]]
             /\ call'[t].at = code /\ call'[t].key = NoKey
             /\ \A u \in Thread \ {t} : call'[u] = call[u]
  <2> DEFINE now == [Idle EXCEPT !.at = code]
  <2>1. /\ now \in [at : At, key : Addr \cup {NoKey}, val : Value \cup {Null},
                    cleanup : BOOLEAN]
        /\ now.at = code /\ now.key = NoKey
    BY DEF Idle, At
  <2>2. call' = [call EXCEPT ![t] = now]
    BY <1>4 DEF Gives
  <2> HIDE DEF now
  <2> QED
    BY <2>1, <2>2 DEF TypeOK
<1> QED
  BY <1>2, <1>3, <1>4

(***************************************************************************)
(* A function that sets a value is told at once what it is to return.      *)
(***************************************************************************)
LEMMA GivesSteps ==
  ASSUME IInv, NEW t \in Thread, NEW code \in Result, Gives(t, code), call[t].at # "move",
         UNCHANGED <<keyVars, tableVars, hint, exiting, uses>>
  PROVE  IInv'
<1> USE DEF IInv
<1>1. /\ call' \in [Thread -> [at : At, key : Addr \cup {NoKey}, val : Value \cup {Null},
                               cleanup : BOOLEAN]]
      /\ call'[t].at \in Result /\ call'[t].key = NoKey
      /\ \A u \in Thread \ {t} : call'[u] = call[u]
  BY CallFacts
<1>2. hint' \in [Thread -> Nat] /\ exiting' \in SUBSET Thread
  BY DEF TypeOK
<1>3. Apart(t)'
  BY DEF TableInv, Apart, tableVars
<1>4. Roomy(t)' /\ Using(t)'
  BY <1>1 DEF Roomy, Using, Result
<1> HIDE DEF IInv
<1> QED
  BY <1>1, <1>2, <1>3, <1>4, OnlyCall

LEMMA RoomForOne ==
  ASSUME NEW n \in Nat, NEW l \in Nat, ~(n >= l \div 2)
  PROVE  2 * n + 2 <= l
OBVIOUS

LEMMA CallSetSteps ==
  ASSUME IInv, NEW t \in Thread, NEW a \in Addr, NEW v \in Value \cup {Null},
         NEW cleanup \in BOOLEAN, CallSet(t, a, v, cleanup), uses' = uses
  PROVE  IInv'
<1> USE DEF IInv
<1>10. call[t] = Idle /\ UNCHANGED <<keyVars, tableVars, hint, exiting>>
  BY DEF CallSet
<1>11. CASE Gives(t, "-1") \/ Gives(t, "0")
  BY <1>10, <1>11, GivesSteps DEF Idle, Result
<1> SUFFICES ASSUME ~Gives(t, "-1"), ~Gives(t, "0") PROVE IInv'
  BY <1>11
<1> DEFINE to == IF v # Null /\ IsFull(t) THEN "grow" ELSE "insert"
           now == [at |-> to, key |-> a, val |-> v, cleanup |-> cleanup]
<1>1. call[t] = Idle /\ call' = [call EXCEPT ![t] = now] /\ (v = Null => table[t] # <<>>)
      /\ ~deleted[a] /\ UNCHANGED <<keyVars, tableVars, hint, exiting>>
  BY <1>10 DEF CallSet
<1>2. now \in [at : At, key : Addr \cup {NoKey}, val : Value \cup {Null}, cleanup : BOOLEAN]
  BY DEF At
<1>3. now.at = to /\ now.key = a /\ now.val = v
  OBVIOUS
<1> HIDE DEF now
<1>4. /\ call' \in [Thread -> [at : At, key : Addr \cup {NoKey}, val : Value \cup {Null},
                               cleanup : BOOLEAN]]
      /\ call'[t] = now /\ \A u \in Thread \ {t} : call'[u] = call[u]
  BY <1>1, <1>2 DEF TypeOK
<1>5. old[t] = <<>>
  BY <1>1 DEF TableInv, Apart, Idle
<1>6. Apart(t)'
  BY <1>1, <1>5 DEF TableInv, Apart, tableVars
<1>7. Roomy(t)'
  <2>1. table'[t] = table[t] /\ size'[t] = size[t]
    BY <1>1 DEF tableVars
  <2>2. CASE to = "grow"
    BY <1>3, <1>4, <2>2 DEF Roomy
  <2>3. CASE to = "insert" /\ v = Null
    BY <1>1, <1>3, <1>4, <2>1, <2>3 DEF Roomy
  <2>4. CASE to = "insert" /\ v # Null
    <3>1. ~(size[t] >= Len(table[t]) \div 2)
      BY <2>4 DEF IsFull
    <3>2. size[t] \in Nat /\ Len(table[t]) \in Nat
      BY Types DEF Storage
    <3>3. 2 * size[t] + 2 <= Len(table[t])
      BY <3>1, <3>2, RoomForOne
    <3>4. table[t] # <<>>
      BY <3>2, <3>3, EmptyStorage
    <3> QED
      BY <1>3, <1>4, <2>1, <2>4, <3>3, <3>4 DEF Roomy
  <2> QED
    BY <2>2, <2>3, <2>4
<1>8. hint' \in [Thread -> Nat] /\ exiting' \in SUBSET Thread
  BY <1>1 DEF TypeOK
<1>9. Using(t)'
  <2>1. own'[a] = own[a] /\ table'[t] = table[t] /\ deleted'[a] = deleted[a]
    BY <1>1 DEF tableVars, keyVars
  <2>2. ~deleted[a] /\ (own[a] > 0 \/ a \in Keys(table[t]))
    BY <1>1 DEF CallSet, MayUse
  <2> QED
    BY <1>3, <1>4, <2>1, <2>2 DEF Using
<1> HIDE DEF IInv
<1> QED
  BY <1>1, <1>4, <1>6, <1>7, <1>8, <1>9, OnlyCall

LEMMA QuietSteps ==
  ASSUME IInv, NEW t \in Thread, uses' = uses,
         SetReturns(t) \/ AllocateFails(t) \/ BeginExit(t) \/ CallDtor(t) \/ DtorReturns(t)
  PROVE  IInv'
<1> USE DEF IInv
<1>7. CASE AllocateFails(t)
  BY <1>7, GivesSteps DEF AllocateFails, Result
<1> SUFFICES ASSUME SetReturns(t) \/ BeginExit(t) \/ CallDtor(t) \/ DtorReturns(t) PROVE IInv'
  BY <1>7
<1>1. UNCHANGED <<keyVars, tableVars, uses>> /\ call[t].at # "move"
  BY DEF SetReturns, BeginExit, CallDtor, DtorReturns, Idle, Result
<1>2. Returns(t) \/ (Goes(t, "pop") /\ call[t].key = NoKey)
  BY DEF SetReturns, BeginExit, CallDtor, DtorReturns, Idle, Result
<1>3. /\ call' \in [Thread -> [at : At, key : Addr \cup {NoKey}, val : Value \cup {Null},
                               cleanup : BOOLEAN]]
      /\ call'[t].at \in {"idle", "pop"} /\ call'[t].key = NoKey
      /\ \A u \in Thread \ {t} : call'[u] = call[u]
  BY <1>2, CallFacts DEF At, Idle
<1>4. hint' \in [Thread -> Nat] /\ exiting' \in SUBSET Thread
  <2>1. CASE BeginExit(t)
    <3>1. Len(table[t]) \in Nat
      BY Types DEF Storage
    <3>2. PICK h \in 0 .. Len(table[t]) : hint' = [hint EXCEPT ![t] = h]
      BY <2>1 DEF BeginExit
    <3> QED
      BY <2>1, <3>1, <3>2 DEF BeginExit, TypeOK
  <2>2. CASE SetReturns(t) \/ CallDtor(t) \/ DtorReturns(t)
    BY <2>2 DEF SetReturns, CallDtor, DtorReturns, TypeOK
  <2> QED
    BY <2>1, <2>2
<1>5. Apart(t)'
  BY <1>1 DEF TableInv, Apart, tableVars
<1>6. Roomy(t)' /\ Using(t)'
  BY <1>3 DEF Roomy, Using
<1> HIDE DEF IInv
<1> QED
  BY <1>1, <1>3, <1>4, <1>5, <1>6, OnlyCall

-----------------------------------------------------------------------------
(* The steps that change a table *)

(***************************************************************************)
(* A table that is not full has room for every search.                     *)
(***************************************************************************)
LEMMA RoomToSearch ==
  ASSUME TypeOK, NEW t \in Thread, Half(t), size[t] < Len(table[t]), NEW a \in Addr
  PROVE  Ends(table[t], a)
<1> DEFINE tb == table[t]
<1>1. tb \in Storage /\ Cardinality(Occupied(tb)) < Len(tb)
  BY Types DEF Half
<1> HIDE DEF tb
<1>2. PICK p \in 1 .. Len(tb) : tb[p].key = NoKey
  BY <1>1, SomeEmpty
<1>3. Ends(tb, a)
  BY <1>1, <1>2, SearchEnds
<1> QED
  BY <1>3 DEF tb

Reset(tb, p) == [tb EXCEPT ![p].val = Null]

LEMMA ValueChanges ==
  ASSUME NEW tb \in Storage, NEW p \in 1 .. Len(tb), NEW td, td = Reset(tb, p)
  PROVE  /\ td \in Storage /\ SameKeys(tb, td) /\ td[p].val = Null /\ td[p].key = tb[p].key
         /\ \A m \in 1 .. Len(tb) : m # p => td[m] = tb[m]
<1> DEFINE E == [key : Addr \cup {NoKey}, val : Value \cup {Null}]
           e == [tb[p] EXCEPT !.val = Null]
<1>1. tb[p].key \in Addr \cup {NoKey} /\ tb[p] = [key |-> tb[p].key, val |-> tb[p].val]
  BY ElementType
<1>2. e \in E /\ e.key = tb[p].key /\ e.val = Null
  BY <1>1
<1>3. tb \in Seq(E) /\ td = [tb EXCEPT ![p] = e]
  BY DEF Storage, Reset
<1> HIDE DEF E, e
<1>4. td \in Seq(E) /\ DOMAIN tb = 1 .. Len(tb)
  BY <1>2, <1>3
<1>5. DOMAIN td = DOMAIN tb /\ td[p] = e /\ \A m \in DOMAIN tb : m # p => td[m] = tb[m]
  BY <1>3, <1>4
<1> QED
  BY <1>2, <1>4, <1>5 DEF Storage, SameKeys, E

LEMMA HalfOf ==
  ASSUME NEW t \in Thread, NEW td, table'[t] = td, size'[t] = Cardinality(Occupied(td)),
         2 * size'[t] <= Len(td), Findable(td), Blank(td)
  PROVE  Half(t)'
BY DEF Half

LEMMA PopSteps ==
  ASSUME IInv, NEW t \in Thread, Pop(t), uses' = uses
  PROVE  /\ IInv' /\ OthersKept(t)
         /\ \E a \in Addr :
               /\ Held(t, a) # Null /\ ~deleted[a] /\ Held(t, a)' = Null
               /\ \A b \in Addr \ {a} : Held(t, b)' = Held(t, b)
               /\ call'[t].at = "popped" /\ call'[t].key = a
<1> USE DEF IInv
<1> DEFINE tb == table[t]
<1>1. PICK p \in Due(t) :
         /\ call' = [call EXCEPT ![t] = Popped(tb[p].key, tb[p].val)]
         /\ table' = [table EXCEPT ![t][p].val = Null]
         /\ hint' = [hint EXCEPT ![t] = p - 1]
  BY DEF Pop
<1>2. call[t].at = "pop" /\ UNCHANGED <<keyVars, size, old, exiting>>
  BY DEF Pop
<1>3. tb \in Storage /\ p \in 1 .. Len(tb) /\ Len(tb) \in Nat
  <2>1. tb \in Storage /\ p \in DOMAIN tb
    BY Types DEF Due
  <2> HIDE DEF tb, IInv
  <2> QED
    BY <2>1 DEF Storage
<1>4. PICK td : td = Reset(tb, p)
  OBVIOUS
<1>5. table' = [table EXCEPT ![t] = td]
  BY <1>1, <1>4 DEF Reset
<1> HIDE DEF tb
<1>6. tb[p].key \in Addr \cup {NoKey} /\ tb[p].val \in Value \cup {Null}
  BY <1>3, ElementType
<1>7. PICK a : a = tb[p].key
  OBVIOUS
<1>8. /\ td \in Storage /\ SameKeys(tb, td) /\ td[p].val = Null /\ td[p].key = a
      /\ \A m \in 1 .. Len(tb) : m # p => td[m] = tb[m]
  BY <1>3, <1>4, <1>7, ValueChanges
<1>9. DOMAIN tb = 1 .. Len(tb)
  BY <1>3 DEF Storage
<1>10. Findable(tb) /\ Blank(tb) /\ old[t] = <<>>
  BY <1>2 DEF TableInv, Half, Apart, tb
<1>11. Occupied(td) = Occupied(tb) /\ Keys(td) = Keys(tb) /\ Len(td) = Len(tb) /\ Findable(td)
  BY <1>3, <1>8, <1>10, SearchedAlike
<1>20. Blank(td) /\ OneEach(tb) /\ OneEach(td)
  <2>1. Blank(td)
    BY <1>8, <1>9, <1>10 DEF Blank, SameKeys
  <2> QED
    BY <1>10, <1>11, <2>1, OneElementEach DEF OneEach
<1>21. a \in Addr /\ p \in Occupied(tb) /\ tb[p].val # Null /\ ~deleted[a]
  <2>1. tb[p].val # Null /\ ~deleted[tb[p].key]
    BY DEF Due, tb
  <2>2. a # NoKey
    BY <1>3, <1>7, <1>9, <1>10, <2>1 DEF Blank
  <2> QED
    BY <1>3, <1>6, <1>7, <1>9, <2>1, <2>2 DEF Occupied
<1>22. /\ Stored(tb, a) = tb[p].val /\ Stored(td, a) = Null
       /\ \A b \in Addr \ {a} : Stored(td, b) = Stored(tb, b)
  <2>1. Stored(tb, a) = tb[p].val
    BY <1>3, <1>7, <1>20, <1>21, StoredIs
  <2>2. Stored(td, a) = Null
    BY <1>8, <1>11, <1>20, <1>21, StoredIs
  <2>3. \A m \in Occupied(tb) : tb[m].key # a => td[m] = tb[m]
    BY <1>7, <1>8, <1>9 DEF Occupied
  <2>4. \A m \in Occupied(td) : td[m].key # a => td[m] = tb[m]
    BY <1>8, <1>9, <1>11 DEF Occupied
  <2> QED
    BY <1>3, <1>8, <1>11, <1>20, <1>21, <2>1, <2>2, <2>3, <2>4, StoredAlike
<1>12. table'[t] = td /\ table' \in [Thread -> Storage]
       /\ \A u \in Thread \ {t} : table'[u] = table[u]
  BY <1>5, <1>8 DEF TypeOK
<1>13. /\ call' \in [Thread -> [at : At, key : Addr \cup {NoKey}, val : Value \cup {Null},
                                cleanup : BOOLEAN]]
       /\ call'[t].at = "popped" /\ call'[t].key = a /\ \A u \in Thread \ {t} : call'[u] = call[u]
  <2>1. Popped(tb[p].key, tb[p].val) \in
           [at : At, key : Addr \cup {NoKey}, val : Value \cup {Null}, cleanup : BOOLEAN]
    BY <1>6 DEF Popped, At
  <2>2. Popped(tb[p].key, tb[p].val).at = "popped" /\ Popped(tb[p].key, tb[p].val).key = a
    BY <1>7 DEF Popped
  <2> QED
    BY <1>1, <2>1, <2>2 DEF TypeOK
<1>14. hint' \in [Thread -> Nat]
  BY <1>1, <1>3 DEF TypeOK
<1>15. TypeOK'
  BY <1>2, <1>12, <1>13, <1>14 DEF TypeOK, keyVars
<1>16. OthersKept(t) /\ own' = own /\ deleted' = deleted
  BY <1>2, <1>12, <1>13 DEF OthersKept, keyVars
<1>17. Counts(t)
  BY <1>2, <1>11, <1>12 DEF Counts, InTable, keyVars, tb
<1>18. TableInv(t)'
  <2>1. Half(t)'
    <3>1. Cardinality(Occupied(td)) = Cardinality(Occupied(tb))
      BY <1>11, Zenon
    <3>2. size[t] = Cardinality(Occupied(tb)) /\ 2 * size[t] <= Len(tb)
      BY DEF TableInv, Half, tb
    <3> QED
      BY <1>2, <1>11, <1>12, <1>20, <3>1, <3>2 DEF Half
  <2>2. Apart(t)'
    BY <1>2, <1>10, <1>11, <1>12, EmptyStorage DEF Apart
  <2>3. Roomy(t)'
    BY <1>13, <1>21 DEF Roomy
  <2> QED
    BY <2>1, <2>2, <2>3 DEF TableInv
<1>19. Using(t)'
  <2>1. a \in Keys(tb)
    BY <1>3, <1>7, <1>21, KeysAreOccupied
  <2> QED
    BY <1>11, <1>12, <1>13, <2>1 DEF Using
<1>23. \A b \in Addr : Held(t, b) = Stored(tb, b) /\ Held(t, b)' = Stored(td, b)
  BY <1>2, <1>10, <1>12, EmptyStorage DEF Held, tb
<1> HIDE DEF IInv
<1>24. IInv'
  BY <1>15, <1>16, <1>17, <1>18, <1>19, Preserved
<1> QED
  BY <1>13, <1>16, <1>21, <1>22, <1>23, <1>24

LEMMA CloseSteps ==
  ASSUME IInv, NEW t \in Thread, Close(t), uses' = uses
  PROVE  /\ IInv' /\ \A a \in Addr : Held(t, a)' = Null /\ (~deleted[a] => Held(t, a) = Null)
         /\ OthersKept(t) /\ call'[t].at = "idle"
<1> USE DEF IInv
<1>1. /\ call[t].at = "pop" /\ Returns(t)
      /\ table' = [table EXCEPT ![t] = <<>>] /\ size' = [size EXCEPT ![t] = 0]
      /\ hint' = [hint EXCEPT ![t] = 0] /\ exiting' = exiting \ {t}
      /\ nref' = [a \in Addr |-> IF a \in Keys(table[t]) THEN nref[a] - 1 ELSE nref[a]]
      /\ UNCHANGED <<deleted, own, old>>
  BY DEF Close
<1>2. old[t] = <<>>
  BY <1>1 DEF TableInv, Apart
<1>3. /\ call' \in [Thread -> [at : At, key : Addr \cup {NoKey}, val : Value \cup {Null},
                               cleanup : BOOLEAN]]
      /\ call'[t].at = "idle" /\ call'[t].key = NoKey
      /\ \A u \in Thread \ {t} : call'[u] = call[u]
  BY <1>1, CallFacts DEF Idle
<1>4. /\ table' \in [Thread -> Storage] /\ size' \in [Thread -> Nat] /\ hint' \in [Thread -> Nat]
      /\ table'[t] = <<>> /\ size'[t] = 0
      /\ \A u \in Thread \ {t} : table'[u] = table[u] /\ size'[u] = size[u]
  BY <1>1, EmptyStorage DEF TypeOK
<1>5. OthersKept(t) /\ own' = own /\ deleted' = deleted
  BY <1>1, <1>3, <1>4 DEF OthersKept
<1>6. Counts(t)
  BY <1>1, <1>2, <1>4, EmptyStorage DEF Counts, InTable
<1>7. \A a \in Addr : nref'[a] \in Nat
  BY <1>5, <1>6, RefsFollow
<1>8. nref' \in [Addr -> Nat]
  BY <1>1, <1>7
<1>9. TypeOK'
  BY <1>1, <1>3, <1>4, <1>8 DEF TypeOK
<1>10. TableInv(t)'
  <2>1. Half(t)'
    <3>1. Occupied(<<>>) = {} /\ Len(<<>>) = 0 /\ Findable(<<>>) /\ Blank(<<>>)
      BY EmptyStorage
    <3>2. Cardinality(Occupied(<<>>)) = 0
      BY <3>1, FS_EmptySet, Zenon
    <3> QED
      BY <1>4, <3>1, <3>2, HalfOf
  <2>2. Apart(t)' /\ Roomy(t)'
    BY <1>1, <1>2, <1>3, <1>4, EmptyStorage DEF Apart, Roomy
  <2> QED
    BY <2>1, <2>2 DEF TableInv
<1>11. Using(t)'
  BY <1>3 DEF Using
<1>12. ASSUME NEW a \in Addr PROVE Held(t, a)' = Null /\ (~deleted[a] => Held(t, a) = Null)
  <2>1. Held(t, a)' = Null
    BY <1>1, <1>2, <1>4, EmptyStorage DEF Held, Stored
  <2>2. table[t] \in Storage /\ OneEach(table[t])
    BY Types, OneElementEach DEF TableInv, Half, OneEach
  <2>3. ASSUME ~deleted[a], a \in Keys(table[t]) PROVE Stored(table[t], a) = Null
    <3>1. PICK m \in Occupied(table[t]) : table[t][m].key = a
      BY <2>2, <2>3, KeysAreOccupied
    <3>2. table[t][m].val = Null
      BY <2>3, <3>1 DEF Close, Due, Occupied
    <3> QED
      BY <2>2, <3>1, <3>2, StoredIs
  <2>4. ~deleted[a] => Held(t, a) = Null
    BY <1>2, <2>2, <2>3, EmptyStorage, StoredIs DEF Held
  <2> QED
    BY <2>1, <2>4
<1> HIDE DEF IInv
<1>13. IInv'
  BY <1>5, <1>6, <1>9, <1>10, <1>11, Preserved
<1> QED
  BY <1>3, <1>5, <1>12, <1>13

LEMMA Larger ==
  ASSUME NEW x \in Nat, NEW s \in Nat, s >= 2
  PROVE  s * x \in Nat /\ s * x >= 2 * x
<1>1. PICK r \in Nat : s = r + 2
  <2>1. s - 2 \in Nat /\ s = (s - 2) + 2
    OBVIOUS
  <2> QED
    BY <2>1
<1>2. r * x \in Nat /\ (r + 2) * x = r * x + 2 * x
  OBVIOUS
<1> QED
  BY <1>1, <1>2

LEMMA AllNil ==
  ASSUME NEW n \in Nat, NEW td, td = [x \in 1 .. n |-> Nil]
  PROVE  /\ td \in Storage /\ Len(td) = n /\ Occupied(td) = {} /\ Keys(td) = {}
         /\ Findable(td) /\ Blank(td)
<1> DEFINE E == [key : Addr \cup {NoKey}, val : Value \cup {Null}]
<1>1. Nil \in E /\ Nil.key = NoKey /\ Nil.val = Null
  BY DEF Nil
<1> HIDE DEF E
<1>2. td \in Seq(E) /\ Len(td) = n /\ DOMAIN td = 1 .. n /\ \A x \in 1 .. n : td[x] = Nil
  BY <1>1
<1>3. Occupied(td) = {} /\ Keys(td) = {}
  BY <1>1, <1>2 DEF Occupied, Keys
<1> QED
  BY <1>1, <1>2, <1>3 DEF Storage, Findable, Blank, E

LEMMA AllocateSteps ==
  ASSUME IInv, NEW t \in Thread, Allocate(t), uses' = uses
  PROVE  /\ IInv' /\ \A a \in Addr : Held(t, a)' = Held(t, a)
         /\ OthersKept(t) /\ call'[t] = [call[t] EXCEPT !.at = "move"]
<1> USE DEF IInv
<1> DEFINE tb == table[t]
<1>1. /\ call[t].at = "grow" /\ Goes(t, "move")
      /\ old' = [old EXCEPT ![t] = tb] /\ size' = [size EXCEPT ![t] = 0]
      /\ UNCHANGED <<keyVars, hint, exiting>>
  BY DEF Allocate
<1>2. PICK more \in Slack : table' = [table EXCEPT ![t] =
                                          [x \in 1 .. Base + Step * Active(tb) + more |-> Nil]]
  BY DEF Allocate
<1>3. PICK n : n = Base + Step * Active(tb) + more
  OBVIOUS
<1>4. PICK td : td = [x \in 1 .. n |-> Nil]
  OBVIOUS
<1>5. table' = [table EXCEPT ![t] = td]
  BY <1>2, <1>3, <1>4
<1>6. tb \in Storage /\ Findable(tb) /\ old[t] = <<>> /\ call[t].key \in Addr
  BY <1>1, Types DEF TableInv, Half, Apart, Roomy
<1> HIDE DEF tb
<1>7. Active(tb) \in Nat /\ n \in Nat /\ n >= 2 * Active(tb) + 2
  <2>1. Active(tb) \in Nat
    BY <1>6, ActiveAreFinite
  <2>2. Step * Active(tb) \in Nat /\ Step * Active(tb) >= 2 * Active(tb)
    BY <2>1, CapacityAssumption, Larger
  <2>3. Base \in Nat /\ Base >= 2 /\ more \in Nat
    BY CapacityAssumption
  <2> QED
    BY <1>3, <2>1, <2>2, <2>3
<1>8. /\ td \in Storage /\ Len(td) = n /\ Occupied(td) = {} /\ Keys(td) = {}
      /\ Findable(td) /\ Blank(td)
  BY <1>4, <1>7, AllNil
<1>9. OneEach(tb)
  BY <1>6, OneElementEach DEF OneEach
<1>10. /\ table' \in [Thread -> Storage] /\ size' \in [Thread -> Nat]
       /\ old' \in [Thread -> Storage]
       /\ table'[t] = td /\ size'[t] = 0 /\ old'[t] = tb
       /\ \A u \in Thread \ {t} : table'[u] = table[u] /\ size'[u] = size[u] /\ old'[u] = old[u]
  BY <1>1, <1>5, <1>6, <1>8 DEF TypeOK
<1>11. /\ call' \in [Thread -> [at : At, key : Addr \cup {NoKey}, val : Value \cup {Null},
                                cleanup : BOOLEAN]]
       /\ call'[t].at = "move" /\ call'[t].key = call[t].key
       /\ \A u \in Thread \ {t} : call'[u] = call[u]
  BY <1>1, CallFacts DEF At
<1>12. TypeOK'
  BY <1>1, <1>10, <1>11 DEF TypeOK, keyVars
<1>13. OthersKept(t) /\ own' = own /\ deleted' = deleted
  BY <1>1, <1>10, <1>11 DEF OthersKept, keyVars
<1>14. Counts(t)
  <2>1. \A a \in Addr : InTable(t, a)' <=> InTable(t, a)
    BY <1>6, <1>8, <1>10, EmptyStorage DEF InTable, tb
  <2> QED
    BY <1>1, <2>1 DEF Counts, keyVars
<1>15. TableInv(t)'
  <2>1. Half(t)'
    <3>1. Cardinality(Occupied(td)) = 0
      BY <1>8, FS_EmptySet, Zenon
    <3>2. 2 * size'[t] <= Len(td)
      BY <1>7, <1>8, <1>10
    <3> QED
      BY <1>8, <1>10, <3>1, <3>2, HalfOf
  <2>2. Apart(t)'
    BY <1>8, <1>9, <1>10, <1>11 DEF Apart
  <2>3. Active(old[t])' = Active(tb)
    BY <1>10, <1>13 DEF Active
  <2>4. Roomy(t)'
    BY <1>6, <1>7, <1>8, <1>10, <1>11, <2>3 DEF Roomy
  <2> QED
    BY <2>1, <2>2, <2>4 DEF TableInv
<1>16. Using(t)'
  <2>1. Using(t) /\ ~(call[t].key \in Keys(old[t]))
    BY <1>6, EmptyStorage
  <2> QED
    BY <1>1, <1>10, <1>11, <1>13, <2>1 DEF Using, tb
<1>17. ASSUME NEW a \in Addr PROVE Held(t, a)' = Held(t, a)
  <2>1. Held(t, a) = Stored(tb, a)
    BY <1>6, EmptyStorage DEF Held, tb
  <2>2. Held(t, a)' = IF a \in Keys(tb) THEN Stored(tb, a) ELSE Stored(td, a)
    BY <1>10 DEF Held
  <2>3. a \notin Keys(tb) => Stored(tb, a) = Null /\ Stored(td, a) = Null
    BY <1>8 DEF Stored
  <2> QED
    BY <2>1, <2>2, <2>3
<1>18. call'[t] = [call[t] EXCEPT !.at = "move"]
  BY <1>1 DEF Goes, TypeOK
<1> HIDE DEF IInv
<1>19. IInv'
  BY <1>12, <1>13, <1>14, <1>15, <1>16, Preserved
<1> QED
  BY <1>13, <1>17, <1>18, <1>19

(***************************************************************************)
(* What is left after the last element has been taken out of old storage.  *)
(***************************************************************************)
LEMMA Taken ==
  ASSUME IInv, NEW t \in Thread, TakesLast(t), NEW od, od = old[t]
  PROVE  \E m \in Occupied(od), sd \in Storage :
            /\ od \in Storage
            /\ Moving(t) = od[m]
            /\ old' = [old EXCEPT ![t] = sd]
            /\ Occupied(sd) = Occupied(od) \ {m}
            /\ \A n \in Occupied(sd) : sd[n] = od[n]
            /\ Keys(sd) = Keys(od) \ {od[m].key}
            /\ OneEach(sd)
            /\ od[m].key \in Keys(od)
            /\ Active(sd) = IF deleted[od[m].key] THEN Active(od) ELSE Active(od) - 1
            /\ Stored(od, od[m].key) = od[m].val
            /\ \A b \in Addr \ {od[m].key} : Stored(sd, b) = Stored(od, b)
<1> USE DEF IInv
<1>1. od \in Storage /\ OneEach(od)
  BY Types DEF TableInv, Apart
<1>2. Left(t) = Occupied(od)
  BY DEF Left, Occupied
<1>3. Len(od) \in Nat /\ Occupied(od) \in SUBSET (1 .. Len(od)) /\ Occupied(od) # {}
  <2>1. Occupied(od) # {}
    BY <1>2 DEF TakesLast
  <2>2. Occupied(od) \subseteq 1 .. Len(od)
    BY <1>1, KeysAreOccupied
  <2>3. Len(od) \in Nat
    BY <1>1 DEF Storage
  <2> QED
    BY <2>1, <2>2, <2>3
<1>4. PICK m : m = Max(Occupied(od))
  OBVIOUS
<1>5. m \in Occupied(od) /\ \A n \in Occupied(od) : n <= m
  BY <1>3, <1>4, Greatest
<1>6. PICK sd : sd = Before(od, m)
  OBVIOUS
<1>7. old' = [old EXCEPT ![t] = sd] /\ Moving(t) = od[m]
  BY <1>2, <1>4, <1>6 DEF TakesLast, Moving, Before
<1>8. /\ sd \in Storage
      /\ Occupied(sd) = Occupied(od) \ {m}
      /\ \A n \in Occupied(sd) : sd[n] = od[n]
      /\ Keys(sd) = Keys(od) \ {od[m].key}
      /\ OneEach(sd)
  BY <1>1, <1>5, <1>6, Shorter
<1>9. Active(sd) = IF deleted[od[m].key] THEN Active(od) ELSE Active(od) - 1
  BY <1>1, <1>5, <1>8, ActiveWithout
<1>10. od[m].key \in Keys(od)
  BY <1>1, <1>5, KeysAreOccupied
<1>11. Stored(od, od[m].key) = od[m].val
  BY <1>1, <1>5, StoredIs
<1>12. \A b \in Addr \ {od[m].key} : Stored(sd, b) = Stored(od, b)
  <2>1. \A n \in Occupied(od) : od[n].key # od[m].key => n \in Occupied(sd) /\ sd[n] = od[n]
    BY <1>8
  <2>2. \A n \in Occupied(sd) : n \in Occupied(od) /\ sd[n] = od[n]
    BY <1>8
  <2>3. od[m].key \in Addr
    BY <1>1, <1>10, KeysAreOccupied
  <2> QED
    BY <1>1, <1>8, <2>1, <2>2, <2>3, StoredAlike
<1> QED
  BY <1>1, <1>5, <1>7, <1>8, <1>9, <1>10, <1>11, <1>12

LEMMA DropDeletedSteps ==
  ASSUME IInv, NEW t \in Thread, DropDeleted(t), uses' = uses
  PROVE  /\ IInv' /\ \A a \in Addr : ~deleted[a] => Held(t, a)' = Held(t, a)
         /\ OthersKept(t)
<1> USE DEF IInv
<1>1. PICK od : od = old[t]
  OBVIOUS
<1>2. TakesLast(t)
  BY DEF DropDeleted
<1>3. PICK m \in Occupied(od), sd \in Storage :
            /\ od \in Storage
            /\ Moving(t) = od[m]
            /\ old' = [old EXCEPT ![t] = sd]
            /\ Keys(sd) = Keys(od) \ {od[m].key}
            /\ OneEach(sd)
            /\ od[m].key \in Keys(od)
            /\ Active(sd) = IF deleted[od[m].key] THEN Active(od) ELSE Active(od) - 1
            /\ Stored(od, od[m].key) = od[m].val
            /\ \A b \in Addr \ {od[m].key} : Stored(sd, b) = Stored(od, b)
  BY <1>1, <1>2, Taken
<1>4. PICK a : a = od[m].key
  OBVIOUS
<1>5. a \in Addr
  BY <1>3, <1>4, KeysAreOccupied
<1>6. /\ call[t].at = "move" /\ deleted[a] /\ nref' = [nref EXCEPT ![a] = @ - 1]
      /\ UNCHANGED <<deleted, own, table, size, call, hint, exiting>>
  BY <1>2, <1>3, <1>4 DEF DropDeleted, TakesLast
<1>7. /\ old' \in [Thread -> Storage] /\ old'[t] = sd /\ \A u \in Thread \ {t} : old'[u] = old[u]
  BY <1>3 DEF TypeOK
<1>8. a \notin Keys(table[t]) /\ InTable(t, a)
  BY <1>1, <1>3, <1>4 DEF TableInv, Apart, InTable
<1>9. OthersKept(t) /\ own' = own /\ deleted' = deleted
  BY <1>6, <1>7 DEF OthersKept
<1>10. Counts(t)
  <2>1. \A b \in Addr : nref'[b] = IF b = a THEN nref[b] - 1 ELSE nref[b]
    BY <1>6 DEF TypeOK
  <2>2. \A b \in Addr : InTable(t, b)' <=> InTable(t, b) /\ b # a
    BY <1>1, <1>3, <1>4, <1>6, <1>7, <1>8 DEF InTable
  <2> HIDE DEF IInv
  <2> QED
    BY <1>8, <2>1, <2>2 DEF Counts
<1>11. \A b \in Addr : nref'[b] \in Nat
  BY <1>9, <1>10, RefsFollow
<1>12. nref' \in [Addr -> Nat]
  BY <1>6, <1>11 DEF TypeOK
<1>13. TypeOK'
  BY <1>6, <1>7, <1>12 DEF TypeOK
<1>14. TableInv(t)'
  <2>1. Half(t)'
    BY <1>6 DEF TableInv, Half
  <2>2. Apart(t)'
    BY <1>1, <1>3, <1>6, <1>7 DEF TableInv, Apart
  <2>3. Active(old[t])' = Active(sd)
    BY <1>6, <1>7 DEF Active
  <2>4. Active(old[t]) = Active(od)
    BY <1>1
  <2>5. Active(sd) = Active(od)
    BY <1>3, <1>4, <1>6
  <2>6. Roomy(t)'
    BY <1>6, <2>3, <2>4, <2>5 DEF TableInv, Roomy
  <2> QED
    BY <2>1, <2>2, <2>6 DEF TableInv
<1>15. Using(t)'
  <2> DEFINE b == call[t].key
  <2>1. call'[t] = call[t] /\ table'[t] = table[t] /\ deleted' = deleted /\ own' = own
    BY <1>6
  <2>2. b \in Keys(old[t]) /\ ~deleted[b] => b \in Keys(old'[t])
    BY <1>1, <1>3, <1>4, <1>6, <1>7
  <2> QED
    BY <2>1, <2>2 DEF Using
<1>16. ASSUME NEW b \in Addr, ~deleted[b] PROVE Held(t, b)' = Held(t, b)
  <2>1. b # a
    BY <1>6, <1>16
  <2>2. Stored(sd, b) = Stored(od, b) /\ (b \in Keys(sd) <=> b \in Keys(od))
    BY <1>3, <1>4, <2>1
  <2> QED
    BY <1>1, <1>6, <1>7, <2>2 DEF Held
<1> HIDE DEF IInv
<1>17. IInv'
  BY <1>9, <1>10, <1>13, <1>14, <1>15, Preserved
<1> QED
  BY <1>9, <1>16, <1>17

(***************************************************************************)
(* An element that is filled for a key that was not there is one more, and *)
(* otherwise there are as many as before.                                  *)
(***************************************************************************)
LEMMA FilledCount ==
  ASSUME NEW tb \in Storage, NEW a \in Addr, NEW v \in Value \cup {Null},
         Ends(tb, a), Findable(tb),
         NEW td, td = With(tb, a, v)
  PROVE  /\ tb[Probe(tb, a)].key = NoKey <=> a \notin Keys(tb)
         /\ Cardinality(Occupied(td)) = IF a \in Keys(tb) THEN Cardinality(Occupied(tb))
                                        ELSE Cardinality(Occupied(tb)) + 1
<1> DEFINE p == Probe(tb, a)
<1>1. p \in 1 .. Len(tb) /\ tb[p].key \in {a, NoKey} /\ a # NoKey
  BY ProbeInTable, AddrAssumption
<1>2. Occupied(td) = Occupied(tb) \cup {p}
  BY Filled
<1>3. tb[p].key = NoKey => a \notin Keys(tb)
  BY ProbeFinds
<1> HIDE DEF p
<1>4. DOMAIN tb = 1 .. Len(tb)
  BY DEF Storage
<1>5. tb[p].key = a => a \in Keys(tb) /\ p \in Occupied(tb)
  BY <1>1, <1>4 DEF Keys, Occupied
<1>6. tb[p].key = NoKey => p \notin Occupied(tb)
  BY DEF Occupied
<1>7. Cardinality(Occupied(td)) = Cardinality(Occupied(tb) \cup {p})
  BY <1>2, Zenon
<1>8. Cardinality(Occupied(tb) \cup {p}) =
         IF p \in Occupied(tb) THEN Cardinality(Occupied(tb)) ELSE Cardinality(Occupied(tb)) + 1
  BY KeysAreOccupied, FS_AddElement
<1>9. tb[p].key = NoKey <=> a \notin Keys(tb)
  BY <1>1, <1>3, <1>5
<1>10. p \in Occupied(tb) <=> a \in Keys(tb)
  BY <1>1, <1>3, <1>5, <1>6
<1>11. Cardinality(Occupied(td)) = IF a \in Keys(tb) THEN Cardinality(Occupied(tb))
                                   ELSE Cardinality(Occupied(tb)) + 1
  BY <1>7, <1>8, <1>10
<1> QED
  BY <1>9, <1>11 DEF p

LEMMA RelocateSteps ==
  ASSUME IInv, NEW t \in Thread, Relocate(t), uses' = uses
  PROVE  IInv' /\ OthersKept(t) /\ \A a \in Addr : Held(t, a)' = Held(t, a)
<1> USE DEF IInv
<1>1. PICK od : od = old[t]
  OBVIOUS
<1>2. TakesLast(t)
  BY DEF Relocate
<1>3. PICK m \in Occupied(od), sd \in Storage :
            /\ od \in Storage
            /\ Moving(t) = od[m]
            /\ old' = [old EXCEPT ![t] = sd]
            /\ Keys(sd) = Keys(od) \ {od[m].key}
            /\ OneEach(sd)
            /\ od[m].key \in Keys(od)
            /\ Active(sd) = IF deleted[od[m].key] THEN Active(od) ELSE Active(od) - 1
            /\ Stored(od, od[m].key) = od[m].val
            /\ \A b \in Addr \ {od[m].key} : Stored(sd, b) = Stored(od, b)
  BY <1>1, <1>2, Taken
<1>4. PICK a : a = od[m].key
  OBVIOUS
<1>5. PICK v : v = od[m].val
  OBVIOUS
<1>6. a \in Addr /\ v \in Value \cup {Null} /\ od[m] = [key |-> a, val |-> v]
  <2>1. m \in 1 .. Len(od) /\ a \in Addr
    BY <1>3, <1>4, KeysAreOccupied
  <2> QED
    BY <1>3, <1>4, <1>5, <2>1, ElementType
<1>7. PICK tb : tb = table[t]
  OBVIOUS
<1>8. PICK td : td = With(tb, a, v)
  OBVIOUS
<1>9. /\ call[t].at = "move" /\ ~deleted[a]
      /\ table' = [table EXCEPT ![t] = td]
      /\ size' = [size EXCEPT ![t] = @ + 1]
      /\ UNCHANGED <<keyVars, call, hint, exiting>>
  <2>1. /\ ~deleted[Moving(t).key]
        /\ table' = [table EXCEPT ![t][Probe(table[t], Moving(t).key)] = Moving(t)]
        /\ size' = [size EXCEPT ![t] = @ + 1]
        /\ UNCHANGED <<keyVars, call, hint, exiting>>
    BY DEF Relocate
  <2>2. Moving(t) = [key |-> a, val |-> v] /\ Moving(t).key = a
    BY <1>3, <1>4, <1>6
  <2> HIDE DEF IInv
  <2> QED
    BY <1>2, <1>7, <1>8, <2>1, <2>2 DEF TakesLast, With
<1>10. tb \in Storage /\ size[t] \in Nat /\ Active(od) \in Nat /\ Half(t) /\ Findable(tb)
       /\ Blank(tb)
       /\ size[t] = Cardinality(Occupied(tb))
  BY <1>3, <1>7, Types, ActiveAreFinite DEF TableInv, Half
<1>11. 2 * (size[t] + Active(od)) + 2 <= Len(tb) /\ Len(tb) \in Nat
  BY <1>1, <1>7, <1>9, <1>10 DEF TableInv, Roomy, Storage
<1>12. a \notin Keys(tb) /\ InTable(t, a)
  BY <1>1, <1>3, <1>4, <1>7 DEF TableInv, Apart, InTable
<1>13. Ends(tb, a)
  BY <1>6, <1>7, <1>10, <1>11, RoomToSearch
<1>14. td \in Storage /\ Len(td) = Len(tb) /\ Keys(td) = Keys(tb) \cup {a} /\ Findable(td)
  BY <1>6, <1>8, <1>10, <1>13, Filled
<1>21. /\ Blank(td) /\ Stored(td, a) = v
       /\ \A b \in Addr \ {a} : Stored(td, b) = Stored(tb, b)
  BY <1>6, <1>8, <1>10, <1>13, FilledStored
<1>15. Cardinality(Occupied(td)) = Cardinality(Occupied(tb)) + 1
  BY <1>6, <1>8, <1>10, <1>12, <1>13, FilledCount
<1>16. /\ table' \in [Thread -> Storage] /\ size' \in [Thread -> Nat]
       /\ old' \in [Thread -> Storage]
       /\ table'[t] = td /\ size'[t] = size[t] + 1 /\ old'[t] = sd
       /\ \A u \in Thread \ {t} : table'[u] = table[u] /\ size'[u] = size[u] /\ old'[u] = old[u]
  BY <1>3, <1>9, <1>10, <1>14 DEF TypeOK
<1>17. TypeOK'
  BY <1>9, <1>16 DEF TypeOK, keyVars
<1>18. OthersKept(t) /\ own' = own /\ deleted' = deleted /\ nref' = nref
  BY <1>9, <1>16 DEF OthersKept, keyVars
<1>19. Counts(t)
  <2>1. \A b \in Addr : InTable(t, b)' <=> InTable(t, b)
    BY <1>1, <1>3, <1>4, <1>7, <1>14, <1>16 DEF InTable
  <2> QED
    BY <1>18, <2>1 DEF Counts
<1>20. TableInv(t)'
  <2>1. Half(t)'
    <3>1. 2 * size'[t] <= Len(td) /\ size'[t] = Cardinality(Occupied(td))
      BY <1>10, <1>11, <1>14, <1>15, <1>16
    <3> QED
      BY <1>14, <1>16, <1>21, <3>1, HalfOf
  <2>2. Apart(t)'
    BY <1>1, <1>3, <1>4, <1>7, <1>9, <1>14, <1>16 DEF TableInv, Apart
  <2>3. Active(old[t])' = Active(od) - 1
    <3>1. Active(old[t])' = Active(sd)
      BY <1>16, <1>18 DEF Active
    <3> QED
      BY <1>3, <1>4, <1>9, <3>1
  <2>4. call'[t] = call[t] /\ call[t].key \in Addr
    BY <1>9 DEF TableInv, Roomy
  <2>5. 2 * (size'[t] + (Active(od) - 1)) + 2 <= Len(td)
    BY <1>10, <1>11, <1>14, <1>16
  <2>6. Roomy(t)'
    BY <1>9, <1>16, <2>3, <2>4, <2>5 DEF Roomy
  <2> QED
    BY <2>1, <2>2, <2>6 DEF TableInv
<1>22. Using(t)'
  <2> DEFINE b == call[t].key
  <2>1. call'[t] = call[t] /\ deleted' = deleted /\ own' = own /\ call[t].at # "grow"
    BY <1>9, <1>18
  <2>2. b \in Keys(old[t]) => b \in Keys(old'[t]) \/ b \in Keys(table'[t])
    BY <1>1, <1>3, <1>4, <1>14, <1>16
  <2>3. b \in Keys(table[t]) => b \in Keys(table'[t])
    BY <1>7, <1>14, <1>16
  <2> QED
    BY <2>1, <2>2, <2>3 DEF Using
<1>23. ASSUME NEW b \in Addr PROVE Held(t, b)' = Held(t, b)
  <2>1. Held(t, b) = IF b \in Keys(od) THEN Stored(od, b) ELSE Stored(tb, b)
    BY <1>1, <1>7 DEF Held
  <2>2. Held(t, b)' = IF b \in Keys(sd) THEN Stored(sd, b) ELSE Stored(td, b)
    BY <1>16 DEF Held
  <2>3. CASE b = a
    BY <1>3, <1>4, <1>5, <1>21, <2>1, <2>2, <2>3
  <2>4. CASE b # a
    BY <1>3, <1>4, <1>21, <2>1, <2>2, <2>4
  <2> QED
    BY <2>3, <2>4
<1> HIDE DEF IInv
<1>24. IInv'
  BY <1>17, <1>18, <1>19, <1>20, <1>22, Preserved
<1> QED
  BY <1>18, <1>23, <1>24

LEMMA InsertSteps ==
  ASSUME IInv, NEW t \in Thread, Insert(t), uses' = uses
  PROVE  /\ IInv' /\ OthersKept(t)
         /\ \E a \in Addr :
               /\ a = call[t].key
               /\ Held(t, a)' = call[t].val
               /\ \A b \in Addr \ {a} : Held(t, b)' = Held(t, b)
               /\ IF call[t].cleanup /\ Held(t, a) # Null
                  THEN call'[t].at = "popped" /\ call'[t].key = a
                  ELSE call'[t].at = "0" /\ call'[t].key = NoKey
<1> USE DEF IInv
<1>1. PICK tb : tb = table[t]
  OBVIOUS
<1>2. PICK a : a = call[t].key
  OBVIOUS
<1>3. PICK v : v = call[t].val
  OBVIOUS
<1>4. PICK p : p = Probe(tb, a)
  OBVIOUS
<1>5. PICK td : td = With(tb, a, v)
  OBVIOUS
<1>6. /\ call[t].at \in {"move", "insert"} /\ Left(t) = {}
      /\ IF tb[p].key = NoKey /\ v = Null
         THEN UNCHANGED <<nref, table, size>>
         ELSE /\ table' = [table EXCEPT ![t] = td]
              /\ nref' = [nref EXCEPT ![a] = IF tb[p].key = NoKey THEN @ + 1 ELSE @]
              /\ size' = [size EXCEPT ![t] = IF tb[p].key = NoKey THEN @ + 1 ELSE @]
      /\ old' = [old EXCEPT ![t] = <<>>]
      /\ IF call[t].cleanup /\ tb[p].val # Null
         THEN call' = [call EXCEPT ![t] = Popped(a, tb[p].val)]
         ELSE Gives(t, "0")
      /\ UNCHANGED <<deleted, own, hint, exiting>>
  <2> HIDE DEF IInv
  <2> QED
    BY <1>1, <1>2, <1>3, <1>4, <1>5 DEF Insert, With
<1>7. a \in Addr /\ v \in Value \cup {Null} /\ tb \in Storage /\ old[t] \in Storage
      /\ size[t] \in Nat /\ Len(tb) \in Nat /\ Findable(tb) /\ Blank(tb) /\ Half(t)
      /\ size[t] = Cardinality(Occupied(tb)) /\ 2 * size[t] <= Len(tb)
  <2>1. a \in Addr /\ v \in Value \cup {Null} /\ tb \in Storage /\ old[t] \in Storage
        /\ size[t] \in Nat
    BY <1>1, <1>2, <1>3, <1>6, Types DEF TableInv, Roomy
  <2>2. /\ Findable(tb) /\ Blank(tb) /\ Half(t)
        /\ size[t] = Cardinality(Occupied(tb)) /\ 2 * size[t] <= Len(tb)
    BY <1>1 DEF TableInv, Half
  <2>3. Len(tb) \in Nat
    BY <2>1 DEF Storage
  <2> QED
    BY <2>1, <2>2, <2>3
<1>8. size[t] < Len(tb) /\ (v # Null => 2 * size[t] + 2 <= Len(tb))
      /\ (call[t].at = "move" => 2 * size[t] + 2 <= Len(tb))
  <2>1. Active(old[t]) \in Nat
    BY <1>7, ActiveAreFinite
  <2>2. call[t].at = "move" => 2 * size[t] + 2 <= Len(tb)
    BY <1>1, <1>7, <2>1 DEF TableInv, Roomy
  <2>3. call[t].at = "insert" => tb # <<>> /\ (v # Null => 2 * size[t] + 2 <= Len(tb))
    BY <1>1, <1>3 DEF TableInv, Roomy
  <2>4. tb # <<>> => Len(tb) # 0
    BY <1>7 DEF Storage
  <2> QED
    BY <1>6, <1>7, <2>2, <2>3, <2>4
<1>9. Ends(tb, a)
  BY <1>1, <1>7, <1>8, RoomToSearch
<1>10. p \in 1 .. Len(tb) /\ tb[p].val \in Value \cup {Null}
  BY <1>4, <1>7, <1>9, ProbeInTable, ElementType
<1>11. td \in Storage /\ Len(td) = Len(tb) /\ Keys(td) = Keys(tb) \cup {a} /\ Findable(td)
  BY <1>4, <1>5, <1>7, <1>9, Filled
<1>12. /\ tb[p].key = NoKey <=> a \notin Keys(tb)
       /\ Cardinality(Occupied(td)) = IF a \in Keys(tb) THEN Cardinality(Occupied(tb))
                                      ELSE Cardinality(Occupied(tb)) + 1
  BY <1>4, <1>5, <1>7, <1>9, FilledCount
<1>20. /\ Blank(td) /\ tb[p].val = Stored(tb, a) /\ Stored(td, a) = v
       /\ \A b \in Addr \ {a} : Stored(td, b) = Stored(tb, b)
  BY <1>4, <1>5, <1>7, <1>9, FilledStored
<1>13. Keys(old[t]) = {}
  <2>1. Occupied(old[t]) = {}
    BY <1>6 DEF Left, Occupied
  <2> QED
    BY <1>7, <2>1, KeysAreOccupied
<1>14. /\ old' \in [Thread -> Storage] /\ old'[t] = <<>>
       /\ \A u \in Thread \ {t} : old'[u] = old[u]
  BY <1>6, EmptyStorage DEF TypeOK
<1>15. /\ call' \in [Thread -> [at : At, key : Addr \cup {NoKey}, val : Value \cup {Null},
                                cleanup : BOOLEAN]]
       /\ \A u \in Thread \ {t} : call'[u] = call[u]
       /\ IF call[t].cleanup /\ tb[p].val # Null
          THEN call'[t].at = "popped" /\ call'[t].key = a
          ELSE call'[t].at = "0" /\ call'[t].key = NoKey
  <2>1. CASE ~(call[t].cleanup /\ tb[p].val # Null)
    BY <1>6, <2>1, CallFacts DEF Result
  <2>2. CASE /\ call[t].cleanup /\ tb[p].val # Null
             /\ call' = [call EXCEPT ![t] = Popped(a, tb[p].val)]
    <3>1. Popped(a, tb[p].val) \in
             [at : At, key : Addr \cup {NoKey}, val : Value \cup {Null}, cleanup : BOOLEAN]
      BY <1>7, <1>10 DEF Popped, At
    <3>2. Popped(a, tb[p].val).at = "popped" /\ Popped(a, tb[p].val).key = a
      BY DEF Popped
    <3> QED
      BY <2>2, <3>1, <3>2 DEF TypeOK
  <2> QED
    BY <1>6, <2>1, <2>2
<1>16. /\ table' \in [Thread -> Storage] /\ size' \in [Thread -> Nat]
       /\ \A u \in Thread \ {t} : table'[u] = table[u] /\ size'[u] = size[u]
  <2>1. table' = table \/ table' = [table EXCEPT ![t] = td]
    BY <1>6
  <2>2. size' = size \/ size' = [size EXCEPT ![t] = size[t] + 1]
    <3>1. size \in [Thread -> Nat] /\ size[t] \in Nat
      BY <1>7 DEF TypeOK
    <3>2. [size EXCEPT ![t] = size[t]] = size
      BY <3>1
    <3>3. \/ size' = size
          \/ size' = [size EXCEPT ![t] = IF tb[p].key = NoKey THEN size[t] + 1 ELSE size[t]]
      BY <1>6
    <3> QED
      BY <3>2, <3>3
  <2>3. table' \in [Thread -> Storage] /\ \A u \in Thread \ {t} : table'[u] = table[u]
    BY <1>11, <2>1 DEF TypeOK
  <2>4. size' \in [Thread -> Nat] /\ \A u \in Thread \ {t} : size'[u] = size[u]
    BY <1>7, <2>2 DEF TypeOK
  <2> QED
    BY <2>3, <2>4
<1>17. OthersKept(t) /\ own' = own /\ deleted' = deleted
  BY <1>6, <1>14, <1>15, <1>16 DEF OthersKept
<1>21. call'[t].at \in {"0", "popped"}
  BY <1>15
<1>22. \A b \in Addr : Held(t, b) = Stored(tb, b) /\ Held(t, b)' = Stored(table'[t], b)
  BY <1>1, <1>13, <1>14, EmptyStorage DEF Held
<1>23. Using(t)'
  <2>1. CASE call[t].cleanup /\ tb[p].val # Null
    <3>1. a \in Keys(tb)
      BY <1>7, <1>20, <2>1 DEF Stored
    <3>2. table'[t] = tb \/ table'[t] = td
      BY <1>1, <1>6, <1>7, <1>11 DEF TypeOK
    <3> QED
      BY <1>11, <1>15, <2>1, <3>1, <3>2 DEF Using
  <2>2. CASE ~(call[t].cleanup /\ tb[p].val # Null)
    BY <1>15, <2>2 DEF Using
  <2> QED
    BY <2>1, <2>2
<1>24. OneEach(tb)
  BY <1>7, OneElementEach DEF OneEach
<1>18. CASE tb[p].key = NoKey /\ v = Null
  <2>1. nref' = nref /\ table' = table /\ size' = size
    BY <1>6, <1>18
  <2>2. TypeOK'
    BY <1>6, <1>14, <1>15, <1>16, <2>1 DEF TypeOK
  <2>3. Counts(t)
    <3>1. \A b \in Addr : InTable(t, b)' <=> InTable(t, b)
      BY <1>13, <1>14, <2>1, EmptyStorage DEF InTable
    <3> QED
      BY <2>1, <3>1 DEF Counts
  <2>4. Half(t)'
    BY <1>7, <2>1 DEF Half
  <2>5. Apart(t)' /\ Roomy(t)'
    BY <1>7, <1>14, <1>15, <1>21, EmptyStorage DEF Apart, Roomy
  <2>6. Stored(tb, a) = v /\ table'[t] = tb
    <3>1. a \notin Keys(tb)
      BY <1>12, <1>18
    <3> QED
      BY <1>1, <1>7, <1>18, <1>24, <2>1, <3>1, StoredIs
  <2> HIDE DEF IInv
  <2>7. IInv'
    BY <1>17, <1>23, <2>2, <2>3, <2>4, <2>5, Preserved DEF TableInv
  <2>8. Held(t, a) = tb[p].val /\ Held(t, a)' = v /\ \A b \in Addr : Held(t, b)' = Held(t, b)
    BY <1>7, <1>20, <1>22, <2>6
  <2> QED
    BY <1>2, <1>3, <1>7, <1>15, <1>17, <2>7, <2>8
<1>19. CASE ~(tb[p].key = NoKey /\ v = Null)
  <2>1. /\ table'[t] = td
        /\ size'[t] = IF a \in Keys(tb) THEN size[t] ELSE size[t] + 1
        /\ \A b \in Addr :
              nref'[b] = IF b = a /\ a \notin Keys(tb) THEN nref[b] + 1 ELSE nref[b]
    BY <1>6, <1>12, <1>19 DEF TypeOK
  <2>2. Counts(t)
    <3>1. \A b \in Addr : InTable(t, b) <=> b \in Keys(tb)
      BY <1>1, <1>13 DEF InTable
    <3>2. \A b \in Addr : InTable(t, b)' <=> b \in Keys(tb) \/ b = a
      BY <1>11, <1>14, <2>1, EmptyStorage DEF InTable
    <3> HIDE DEF IInv
    <3> QED
      BY <2>1, <3>1, <3>2 DEF Counts
  <2>3. \A b \in Addr : nref'[b] \in Nat
    BY <1>17, <2>2, RefsFollow
  <2>4. nref' \in [Addr -> Nat]
    BY <1>6, <1>19, <2>3 DEF TypeOK
  <2>5. TypeOK'
    BY <1>6, <1>14, <1>15, <1>16, <2>4 DEF TypeOK
  <2>6. Half(t)'
    <3>1. size'[t] = Cardinality(Occupied(td))
      BY <1>7, <1>12, <2>1
    <3>2. 2 * size'[t] <= Len(td)
      BY <1>7, <1>8, <1>11, <1>12, <1>19, <2>1
    <3> QED
      BY <1>11, <1>20, <2>1, <3>1, <3>2, HalfOf
  <2>7. Apart(t)' /\ Roomy(t)'
    BY <1>7, <1>14, <1>15, <1>21, EmptyStorage DEF Apart, Roomy
  <2> HIDE DEF IInv
  <2>8. IInv'
    BY <1>17, <1>23, <2>2, <2>5, <2>6, <2>7, Preserved DEF TableInv
  <2>9. /\ Held(t, a) = tb[p].val /\ Held(t, a)' = v
        /\ \A b \in Addr \ {a} : Held(t, b)' = Held(t, b)
    BY <1>7, <1>20, <1>22, <2>1
  <2> QED
    BY <1>2, <1>3, <1>7, <1>15, <1>17, <2>8, <2>9
<1> QED
  BY <1>18, <1>19

-----------------------------------------------------------------------------
LEMMA Initially == Init => IInv
<1> SUFFICES ASSUME Init PROVE IInv
  OBVIOUS
<1>1. Idle \in [at : At, key : Addr \cup {NoKey}, val : Value \cup {Null}, cleanup : BOOLEAN]
      /\ Idle.at = "idle"
  BY DEF Idle, At
<1>2. TypeOK
  <2>1. call \in [Thread -> [at : At, key : Addr \cup {NoKey}, val : Value \cup {Null},
                            cleanup : BOOLEAN]]
    BY <1>1 DEF Init
  <2>2. table \in [Thread -> Storage] /\ old \in [Thread -> Storage]
    BY EmptyStorage DEF Init
  <2> QED
    BY <2>1, <2>2 DEF Init, TypeOK
<1>3. AllCounted
  <2> SUFFICES ASSUME NEW a \in Addr PROVE nref[a] = own[a] + Cardinality(Holders(a))
    BY DEF AllCounted
  <2>1. Holders(a) = {}
    BY EmptyStorage DEF Init, Holders, InTable
  <2>2. Cardinality(Holders(a)) = 0
    BY <2>1, FS_EmptySet, Zenon
  <2> QED
    BY <2>2 DEF Init
<1>4. ASSUME NEW t \in Thread PROVE TableInv(t) /\ Using(t)
  <2>1. table[t] = <<>> /\ old[t] = <<>> /\ size[t] = 0 /\ call[t].at = "idle"
    BY <1>1 DEF Init
  <2>2. Cardinality(Occupied(<<>>)) = 0
    BY EmptyStorage, FS_EmptySet, Zenon
  <2>3. Half(t)
    BY <2>1, <2>2, EmptyStorage DEF Half
  <2>4. Using(t)
    BY DEF Init, Idle, Using
  <2> QED
    BY <2>1, <2>3, <2>4, EmptyStorage DEF TableInv, Apart, Roomy
<1> QED
  BY <1>2, <1>3, <1>4 DEF IInv

LEMMA EveryStep == IInv /\ [Next]_vars => IInv'
<1> SUFFICES ASSUME IInv, [Next]_vars PROVE IInv'
  OBVIOUS
<1>1. CASE \E a \in Addr : OfKeys(a) /\ UNCHANGED uses
  BY <1>1, KeySteps
<1>2. ASSUME NEW t \in Thread, OfTables(t), UNCHANGED uses PROVE IInv'
  <2>1. CASE \E a \in Addr, v \in Value \cup {Null}, cleanup \in BOOLEAN : CallSet(t, a, v, cleanup)
    BY <1>2, <2>1, CallSetSteps
  <2>2. CASE \/ SetReturns(t) \/ AllocateFails(t) \/ BeginExit(t)
            \/ CallDtor(t) \/ DtorReturns(t)
    BY <1>2, <2>2, QuietSteps
  <2>3. CASE Allocate(t)
    BY <1>2, <2>3, AllocateSteps
  <2>4. CASE DropDeleted(t)
    BY <1>2, <2>4, DropDeletedSteps
  <2>5. CASE Relocate(t)
    BY <1>2, <2>5, RelocateSteps
  <2>6. CASE Insert(t)
    BY <1>2, <2>6, InsertSteps
  <2>7. CASE Pop(t)
    BY <1>2, <2>7, PopSteps
  <2>8. CASE Close(t)
    BY <1>2, <2>8, CloseSteps
  <2> QED
    BY <1>2, <2>1, <2>2, <2>3, <2>4, <2>5, <2>6, <2>7, <2>8 DEF OfTables
<1>3. CASE UNCHANGED vars
  <2>1. UNCHANGED <<keyVars, tableVars, call, hint, exiting, uses>>
    BY <1>3 DEF vars, keyVars, tableVars
  <2> HIDE DEF vars
  <2>2. /\ nref' \in [Addr -> Nat] /\ own' \in [Addr -> Nat] /\ deleted' \in [Addr -> BOOLEAN]
        /\ \A b \in Addr : nref'[b] - own'[b] = nref[b] - own[b]
    BY <2>1 DEF IInv, TypeOK, keyVars
  <2>3. \A u \in Thread : \A b \in Keys(old[u]) : deleted[b] => deleted'[b]
    BY <2>1 DEF keyVars
  <2>4. \A u \in Thread : Using(u)'
    BY <2>1 DEF IInv, Using, keyVars, tableVars
  <2> QED
    BY <2>1, <2>2, <2>3, <2>4, KeysChange
<1> QED
  BY <1>1, <1>2, <1>3 DEF Next

(***************************************************************************)
(* Every state is of the types that the code gives it: what is searched is *)
(* always a table, and what is counted is never below zero.                *)
(***************************************************************************)
THEOREM TlsTypeCorrect == Spec => []TypeOK
<1>1. Spec => []IInv
  BY Initially, EveryStep, PTL DEF Spec
<1>2. IInv => TypeOK
  BY DEF IInv
<1> QED
  BY <1>1, <1>2, PTL

(***************************************************************************)
(* A key has one reference for each table that it is in, the old storage   *)
(* of a table that grows included, and those of the program: __nref is     *)
(* never zero while a table has the key, and tables that are moved or      *)
(* freed leak no reference.                                                *)
(***************************************************************************)
THEOREM KeyReferencesCounted == Spec => []RefsCounted
<1>1. Spec => []IInv
  BY Initially, EveryStep, PTL DEF Spec
<1>2. IInv => RefsCounted
  <2> SUFFICES ASSUME IInv PROVE RefsCounted
    OBVIOUS
  <2>1. \A a \in Addr : nref[a] = own[a] + Cardinality(Holders(a))
    BY DEF IInv, AllCounted
  <2>2. ASSUME NEW t \in Thread, call[t].key # NoKey PROVE nref[call[t].key] > 0
    <3>1. call[t].key \in Addr
      BY <2>2, Types DEF IInv
    <3>2. own[call[t].key] > 0 \/ InTable(t, call[t].key)
      BY <2>2 DEF IInv, Using, InTable
    <3> QED
      BY <3>1, <3>2, Counted DEF IInv
  <2> QED
    BY <2>1, <2>2 DEF RefsCounted, Holders
<1> QED
  BY <1>1, <1>2, PTL

(***************************************************************************)
(* No table is ever more than half full, each key has one element, and     *)
(* __size_hint is right, whatever keys are deleted while a table grows: a  *)
(* search of do_linear_probe_nonempty always comes to its end.             *)
(***************************************************************************)
THEOREM TablesHalfEmpty == Spec => []HalfEmpty
<1>1. Spec => []IInv
  BY Initially, EveryStep, PTL DEF Spec
<1>2. IInv => HalfEmpty
  <2> SUFFICES ASSUME IInv, NEW t \in Thread
               PROVE  LET used == {m \in DOMAIN table[t] : table[t][m].key # NoKey}
                      IN  /\ size[t] = Cardinality(used)
                          /\ 2 * size[t] <= Len(table[t])
                          /\ \A m, n \in used : table[t][m].key = table[t][n].key => m = n
    BY DEF HalfEmpty
  <2>1. Half(t)
    BY DEF IInv, TableInv
  <2> QED
    BY <2>1, OneElementEach DEF Half, Occupied
<1> QED
  BY <1>1, <1>2, PTL

-----------------------------------------------------------------------------
(* Tables behave like maps *)

(***************************************************************************)
(* Values are popped by threads that exit only.                            *)
(***************************************************************************)
Leaving == \A t \in Thread : call[t].at = "pop" => t \in exiting

LEMMA LeavingStays ==
  ASSUME TypeOK, Leaving, [Next]_vars
  PROVE  Leaving'
<1>1. ASSUME NEW t \in Thread,
             \A u \in Thread \ {t} : call'[u] = call[u] /\ (u \in exiting => u \in exiting'),
             call'[t].at = "pop" => t \in exiting'
      PROVE  Leaving'
  BY <1>1 DEF Leaving
<1>2. ASSUME NEW a \in Addr, OfKeys(a) PROVE Leaving'
  BY <1>2 DEF Leaving, OfKeys, KeyNew, AddRef, DropRef, KeyDelete
<1>3. ASSUME NEW t \in Thread, OfTables(t) PROVE Leaving'
  <2>1. CASE \E a \in Addr, v \in Value \cup {Null}, cleanup \in BOOLEAN : CallSet(t, a, v, cleanup)
    <3>1. PICK a \in Addr, v \in Value \cup {Null}, cleanup \in BOOLEAN : CallSet(t, a, v, cleanup)
      BY <2>1
    <3>2. exiting' = exiting /\ \E x : x.at # "pop" /\ call' = [call EXCEPT ![t] = x]
      BY <3>1 DEF CallSet, Gives, Idle
    <3>3. call'[t].at # "pop" /\ \A u \in Thread \ {t} : call'[u] = call[u]
      BY <3>2 DEF TypeOK
    <3> QED
      BY <1>1, <3>2, <3>3
  <2>2. CASE DropDeleted(t) \/ Relocate(t)
    BY <2>2 DEF DropDeleted, Relocate, Leaving
  <2>3. CASE Allocate(t)
    <3>1. Goes(t, "move") /\ exiting' = exiting
      BY <2>3 DEF Allocate
    <3>2. call'[t].at = "move" /\ \A u \in Thread \ {t} : call'[u] = call[u]
      BY <3>1, CallFacts DEF At
    <3> QED
      BY <1>1, <3>1, <3>2
  <2>4. CASE SetReturns(t) \/ CallDtor(t) \/ Close(t)
    <3>1. Returns(t) /\ \A u \in Thread \ {t} : u \in exiting => u \in exiting'
      BY <2>4 DEF SetReturns, CallDtor, Close
    <3>2. call'[t].at = "idle" /\ \A u \in Thread \ {t} : call'[u] = call[u]
      BY <3>1, CallFacts DEF Idle
    <3> QED
      BY <1>1, <3>1, <3>2
  <2>5. CASE BeginExit(t) \/ DtorReturns(t)
    <3>1. Goes(t, "pop") /\ t \in exiting' /\ \A u \in exiting : u \in exiting'
      BY <2>5 DEF BeginExit, DtorReturns
    <3>2. \A u \in Thread \ {t} : call'[u] = call[u]
      BY <3>1, CallFacts DEF At
    <3> QED
      BY <1>1, <3>1, <3>2
  <2>6. CASE AllocateFails(t) \/ Insert(t)
    <3>1. PICK x : x.at # "pop" /\ call' = [call EXCEPT ![t] = x]
      BY <2>6 DEF AllocateFails, Insert, Gives, Popped, Idle
    <3>2. exiting' = exiting
      BY <2>6 DEF AllocateFails, Insert
    <3>3. call'[t].at # "pop" /\ \A u \in Thread \ {t} : call'[u] = call[u]
      BY <3>1 DEF TypeOK
    <3> QED
      BY <1>1, <3>2, <3>3
  <2>7. CASE Pop(t)
    <3>1. PICK x : x.at # "pop" /\ call' = [call EXCEPT ![t] = x]
      BY <2>7 DEF Pop, Popped
    <3>2. exiting' = exiting
      BY <2>7 DEF Pop
    <3>3. call'[t].at # "pop" /\ \A u \in Thread \ {t} : call'[u] = call[u]
      BY <3>1 DEF TypeOK
    <3> QED
      BY <1>1, <3>2, <3>3
  <2> QED
    BY <1>3, <2>1, <2>2, <2>3, <2>4, <2>5, <2>6, <2>7 DEF OfTables
<1>4. CASE UNCHANGED vars
  BY <1>4 DEF Leaving, vars
<1> QED
  BY <1>2, <1>3, <1>4 DEF Next

(***************************************************************************)
(* What a thread gets for a key is what it has stored, unless the key has  *)
(* been deleted.                                                           *)
(***************************************************************************)
View(t, a) == IF deleted[a] THEN Null ELSE Held(t, a)

LEMMA SeenIsView ==
  ASSUME IInv, NEW t \in Thread, NEW a \in Addr
  PROVE  Seen(t, a) = View(t, a) /\ View(t, a) \in Value \cup {Null}
<1> DEFINE tb == table[t]
           od == old[t]
<1>1. /\ tb \in Storage /\ od \in Storage /\ Findable(tb) /\ Blank(tb) /\ OneEach(od) /\ OneEach(tb)
      /\ size[t] \in Nat /\ 2 * size[t] <= Len(tb) /\ Half(t)
  BY Types, OneElementEach DEF IInv, TableInv, Half, Apart, OneEach
<1>2. tb # <<>> => Ends(tb, a)
  <2>1. tb # <<>> => Len(tb) > 0
    BY <1>1 DEF Storage
  <2> QED
    BY <1>1, <2>1, RoomToSearch DEF IInv
<1> HIDE DEF tb, od
<1>3. tb # <<>> => tb[Probe(tb, a)].val = Stored(tb, a) /\ Stored(tb, a) \in Value \cup {Null}
  <2> SUFFICES ASSUME tb # <<>>
               PROVE  tb[Probe(tb, a)].val = Stored(tb, a) /\ Stored(tb, a) \in Value \cup {Null}
    OBVIOUS
  <2>1. PICK td : td = With(tb, a, Null)
    OBVIOUS
  <2>2. tb[Probe(tb, a)].val = Stored(tb, a)
    BY <1>1, <1>2, <2>1, FilledStored
  <2>3. tb[Probe(tb, a)].val \in Value \cup {Null}
    BY <1>1, <1>2, ProbeInTable, ElementType
  <2> QED
    BY <2>2, <2>3
<1>4. a \in Keys(od) =>
         /\ (CHOOSE e \in {od[m] : m \in DOMAIN od} : e.key = a).val = Stored(od, a)
         /\ Stored(od, a) \in Value \cup {Null}
  <2> SUFFICES ASSUME a \in Keys(od)
               PROVE  /\ (CHOOSE e \in {od[m] : m \in DOMAIN od} : e.key = a).val = Stored(od, a)
                      /\ Stored(od, a) \in Value \cup {Null}
    OBVIOUS
  <2>1. PICK m \in Occupied(od) : od[m].key = a
    BY <1>1, KeysAreOccupied
  <2>2. \A n \in DOMAIN od : od[n].key = a => n = m
    BY <1>1, <2>1, AddrAssumption DEF OneEach, Occupied
  <2>3. m \in DOMAIN od /\ m \in 1 .. Len(od)
    BY <1>1, <2>1, KeysAreOccupied DEF Occupied
  <2>4. PICK e : e = CHOOSE x \in {od[n] : n \in DOMAIN od} : x.key = a
    OBVIOUS
  <2>5. e = od[m]
    BY <2>1, <2>2, <2>3, <2>4
  <2>6. Stored(od, a) = od[m].val
    BY <1>1, <2>1, StoredIs
  <2> QED
    BY <1>1, <2>3, <2>4, <2>5, <2>6, ElementType
<1>5. nref[a] = 0 => Held(t, a) = Null
  <2>1. nref[a] = 0 => ~InTable(t, a)
    BY Counted DEF IInv
  <2> QED
    BY <2>1 DEF InTable, Held, Stored
<1>6. tb = <<>> => Stored(tb, a) = Null
  BY EmptyStorage DEF Stored
<1>7. Seen(t, a) = IF nref[a] = 0 \/ deleted[a] THEN Null
                   ELSE IF a \in Keys(od)
                        THEN (CHOOSE e \in {od[m] : m \in DOMAIN od} : e.key = a).val
                        ELSE IF tb = <<>> THEN Null ELSE tb[Probe(tb, a)].val
  BY DEF Seen, Get, tb, od
<1>8. View(t, a) = IF deleted[a] THEN Null
                   ELSE IF a \in Keys(od) THEN Stored(od, a) ELSE Stored(tb, a)
  BY DEF View, Held, tb, od
<1>9. nref[a] = 0 => View(t, a) = Null
  BY <1>5 DEF View
<1> QED
  BY <1>3, <1>4, <1>6, <1>7, <1>8, <1>9

WellSeen ==
    /\ Values \in [Thread -> [Addr -> Value \cup {Null}]]
    /\ \A t \in Thread, a \in Addr : Values[t][a] = View(t, a)

LEMMA ValuesAreViews == IInv => WellSeen
<1> SUFFICES ASSUME IInv PROVE WellSeen
  OBVIOUS
<1>1. \A t \in Thread, a \in Addr : Seen(t, a) = View(t, a) /\ Seen(t, a) \in Value \cup {Null}
  BY SeenIsView
<1> QED
  BY <1>1 DEF Values, WellSeen

(***************************************************************************)
(* What other threads see does not change in a step of t, and the map      *)
(* changes where its values do.                                            *)
(***************************************************************************)
LEMMA OthersSee ==
  ASSUME NEW t \in Thread, OthersKept(t), deleted' = deleted
  PROVE  \A u \in Thread \ {t}, a \in Addr : View(u, a)' = View(u, a)
BY DEF OthersKept, View, Held

LEMMA ValuesKept ==
  ASSUME WellSeen, WellSeen', \A t \in Thread, a \in Addr : View(t, a)' = View(t, a)
  PROVE  Values' = Values
BY DEF WellSeen

LEMMA ValuesFollow ==
  ASSUME WellSeen, WellSeen', NEW t \in Thread, NEW a \in Addr, NEW v,
         View(t, a)' = v,
         \A b \in Addr \ {a} : View(t, b)' = View(t, b),
         \A u \in Thread \ {t}, b \in Addr : View(u, b)' = View(u, b)
  PROVE  Values' = [Values EXCEPT ![t][a] = v]
BY DEF WellSeen

LEMMA DeletedKept ==
  ASSUME deleted' = deleted
  PROVE  Deleted' = Deleted
BY DEF Deleted

LEMMA CallsFollow ==
  ASSUME NEW t \in Thread, \A u \in Thread \ {t} : call'[u] = call[u]
  PROVE  Calls' = [Calls EXCEPT ![t] = SeenCall(t)']
<1>1. \A u \in Thread \ {t} : SeenCall(u)' = SeenCall(u)
  BY DEF SeenCall
<1> QED
  BY <1>1 DEF Calls

LEMMA CallsKept ==
  ASSUME NEW t \in Thread, \A u \in Thread \ {t} : call'[u] = call[u],
         SeenCall(t)' = SeenCall(t)
  PROVE  Calls' = Calls
<1>1. \A u \in Thread : SeenCall(u)' = SeenCall(u)
  BY DEF SeenCall
<1> QED
  BY <1>1 DEF Calls

-----------------------------------------------------------------------------
(* Steps of the map *)

LEMMA MapBegins == Init => Map!Init
<1> SUFFICES ASSUME Init PROVE Map!Init
  OBVIOUS
<1>1. WellSeen
  BY Initially, ValuesAreViews
<1>2. ASSUME NEW t \in Thread, NEW a \in Addr PROVE Values[t][a] = Null
  <2>1. Held(t, a) = Null
    BY EmptyStorage DEF Init, Held, Stored
  <2> QED
    BY <1>1, <2>1 DEF WellSeen, View
<1>3. Values = [t \in Thread |-> [a \in Addr |-> Null]]
  BY <1>1, <1>2 DEF WellSeen
<1>4. \A t \in Thread : SeenCall(t) = <<>>
  BY DEF Init, Idle, SeenCall, Result
<1>5. Calls = [t \in Thread |-> <<>>]
  BY <1>4 DEF Calls
<1>6. exiting = {} /\ Deleted = {}
  BY DEF Init, Deleted
<1> QED
  BY <1>3, <1>5, <1>6 DEF Map!Init

(***************************************************************************)
(* No call is about a key that has been freed.                             *)
(***************************************************************************)
LEMMA NoFreedKey ==
  ASSUME IInv, NEW t \in Thread, NEW a \in Addr, nref[a] = 0
  PROVE  call[t].key # a
<1>1. a # NoKey
  BY AddrAssumption
<1>2. own[a] = 0 /\ a \notin Keys(table[t]) /\ a \notin Keys(old[t])
  BY Counted DEF IInv, InTable
<1> QED
  BY <1>1, <1>2 DEF IInv, Using

LEMMA SeenAbout ==
  ASSUME NEW t \in Thread, NEW a \in Addr,
         \/ SeenCall(t) = <<"dtor", a>>
         \/ \E op \in {"set", "reset"}, v \in Value \cup {Null} : SeenCall(t) = <<op, a, v>>
  PROVE  call[t].key = a
BY DEF SeenCall

LEMMA MapOfKeys ==
  ASSUME IInv, WellSeen, WellSeen', NEW a \in Addr, OfKeys(a)
  PROVE  [Map!Next]_(Map!vars)
<1>1. UNCHANGED <<table, old, call, exiting>>
  BY DEF OfKeys, KeyNew, AddRef, DropRef, KeyDelete, tableVars
<1>2. \A t \in Thread, b \in Addr : Held(t, b)' = Held(t, b)
  BY <1>1 DEF Held
<1>3. Calls' = Calls
  BY <1>1 DEF Calls, SeenCall
<1>4. CASE KeyNew(a)
  <2>1. ASSUME NEW t \in Thread, NEW b \in Addr PROVE View(t, b)' = View(t, b)
    <3>1. CASE b = a
      <4>1. nref[a] = 0 /\ deleted'[a] = FALSE
        BY <1>4 DEF KeyNew, IInv, TypeOK
      <4>2. ~InTable(t, a)
        BY <4>1, Counted DEF IInv
      <4>3. Held(t, a) = Null
        BY <4>2 DEF InTable, Held, Stored
      <4> QED
        BY <1>2, <3>1, <4>1, <4>3 DEF View
    <3>2. CASE b # a
      <4>1. deleted'[b] = deleted[b]
        BY <1>4, <3>2 DEF KeyNew, IInv, TypeOK
      <4> QED
        BY <1>2, <4>1 DEF View
    <3> QED
      BY <3>1, <3>2
  <2>2. Values' = Values
    BY <2>1, ValuesKept
  <2>3. nref[a] = 0 /\ deleted' = [deleted EXCEPT ![a] = FALSE]
    BY <1>4 DEF KeyNew
  <2>4. CASE deleted[a]
    <3>1. a \in Deleted /\ Deleted' = Deleted \ {a}
      BY <2>3, <2>4 DEF Deleted, IInv, TypeOK
    <3>2. ASSUME NEW t \in Thread, Map!About(t, a) PROVE FALSE
      <4>1. call[t].key # a
        BY <2>3, NoFreedKey
      <4>2. SeenCall(t) = Calls[t]
        BY DEF Calls
      <4> QED
        BY <3>2, <4>1, <4>2, SeenAbout DEF Map!About
    <3>3. Map!New(a)
      BY <1>1, <1>3, <2>2, <3>1, <3>2 DEF Map!New
    <3> QED
      BY <3>3 DEF Map!Next
  <2>5. CASE ~deleted[a]
    <3>1. Deleted' = Deleted
      BY <2>3, <2>5 DEF Deleted, IInv, TypeOK
    <3> QED
      BY <1>1, <1>3, <2>2, <3>1 DEF Map!vars
  <2> QED
    BY <2>4, <2>5
<1>5. CASE AddRef(a) \/ DropRef(a)
  <2>1. deleted' = deleted
    BY <1>5 DEF AddRef, DropRef
  <2>2. Values' = Values
    BY <1>2, <2>1, ValuesKept DEF View
  <2> QED
    BY <1>1, <1>3, <2>1, <2>2, DeletedKept DEF Map!vars
<1>6. CASE KeyDelete(a)
  <2>1. deleted'[a] = TRUE /\ \A b \in Addr \ {a} : deleted'[b] = deleted[b]
    BY <1>6 DEF KeyDelete, IInv, TypeOK
  <2>2. \A t \in Thread : View(t, a)' = Null
    BY <2>1 DEF View
  <2>3. \A t \in Thread, b \in Addr \ {a} : View(t, b)' = View(t, b)
    BY <1>2, <2>1 DEF View
  <2>4. Values' = [t \in Thread |-> [Values[t] EXCEPT ![a] = Null]]
    BY <2>2, <2>3 DEF WellSeen
  <2>5. CASE deleted[a]
    <3>1. deleted' = deleted
      BY <1>6, <2>5 DEF KeyDelete, IInv, TypeOK
    <3>2. Values' = Values
      BY <1>2, <3>1, ValuesKept DEF View
    <3> QED
      BY <1>1, <1>3, <3>1, <3>2, DeletedKept DEF Map!vars
  <2>6. CASE ~deleted[a]
    <3>1. a \notin Deleted /\ Deleted' = Deleted \cup {a}
      BY <2>1, <2>6 DEF Deleted
    <3>2. Map!Delete(a)
      BY <1>1, <1>3, <2>4, <3>1 DEF Map!Delete
    <3> QED
      BY <3>2 DEF Map!Next
  <2> QED
    BY <2>5, <2>6
<1> QED
  BY <1>4, <1>5, <1>6 DEF OfKeys

LEMMA MapGives ==
  ASSUME TypeOK, NEW t \in Thread, NEW code \in Result, Gives(t, code)
  PROVE  Calls' = [Calls EXCEPT ![t] = <<code>>]
<1>1. call'[t].at = code /\ \A u \in Thread \ {t} : call'[u] = call[u]
  BY CallFacts
<1>2. SeenCall(t)' = <<code>>
  BY <1>1 DEF SeenCall, Result
<1> QED
  BY <1>1, <1>2, CallsFollow

LEMMA MapCallSet ==
  ASSUME IInv, WellSeen, WellSeen', NEW t \in Thread, NEW a \in Addr,
         NEW v \in Value \cup {Null}, NEW cleanup \in BOOLEAN, CallSet(t, a, v, cleanup)
  PROVE  Map!CallSet(t, a, v)
<1>1. UNCHANGED <<deleted, table, old, exiting>> /\ call[t] = Idle
  BY DEF CallSet, keyVars, tableVars
<1>2. Values' = Values /\ Deleted' = Deleted
  BY <1>1, ValuesKept, DeletedKept DEF View, Held
<1>3. Calls[t] = <<>>
  BY <1>1 DEF Idle, Calls, SeenCall, Result
<1>4. a \in Deleted <=> deleted[a]
  BY DEF Deleted
<1>5. CASE deleted[a]
  <2>1. Gives(t, "-1")
    BY <1>5 DEF CallSet
  <2>2. Calls' = [Calls EXCEPT ![t] = <<"-1">>]
    BY <2>1, MapGives DEF IInv, Result
  <2> QED
    BY <1>1, <1>2, <1>3, <1>4, <1>5, <2>2 DEF Map!CallSet, Map!Becomes
<1>6. CASE ~deleted[a] /\ v = Null /\ table[t] = <<>>
  <2>1. Gives(t, "0")
    BY <1>6 DEF CallSet
  <2>2. Calls' = [Calls EXCEPT ![t] = <<"0">>]
    BY <2>1, MapGives DEF IInv, Result
  <2>3. old[t] = <<>>
    BY <1>1 DEF IInv, TableInv, Apart, Idle
  <2>4. Held(t, a) = Null
    BY <1>6, <2>3, EmptyStorage DEF Held, Stored
  <2>5. Values[t][a] = Null
    BY <2>4 DEF WellSeen, View
  <2> QED
    BY <1>1, <1>2, <1>3, <1>4, <1>6, <2>2, <2>5 DEF Map!CallSet, Map!Becomes
<1>7. CASE ~deleted[a] /\ ~(v = Null /\ table[t] = <<>>)
  <2>1. PICK op \in {"set", "reset"} : op = IF cleanup THEN "reset" ELSE "set"
    OBVIOUS
  <2>2. SeenCall(t)' = <<op, a, v>> /\ \A u \in Thread \ {t} : call'[u] = call[u]
    BY <1>7, <2>1 DEF CallSet, SeenCall, Result, IInv, TypeOK
  <2>3. Calls' = [Calls EXCEPT ![t] = <<op, a, v>>]
    BY <2>2, CallsFollow
  <2> QED
    BY <1>1, <1>2, <1>3, <1>4, <1>7, <2>3 DEF Map!CallSet, Map!Becomes
<1> QED
  BY <1>5, <1>6, <1>7

LEMMA MapStutters ==
  ASSUME IInv, WellSeen, WellSeen', NEW t \in Thread, uses' = uses,
         Allocate(t) \/ DropDeleted(t) \/ Relocate(t) \/ DtorReturns(t)
  PROVE  UNCHANGED Map!vars
<1>1. deleted' = deleted /\ exiting' = exiting /\ Deleted' = Deleted
  BY DeletedKept DEF Allocate, DropDeleted, Relocate, DtorReturns, keyVars
<1>2. CASE Allocate(t)
  <2>1. /\ \A a \in Addr : Held(t, a)' = Held(t, a)
        /\ OthersKept(t) /\ call'[t] = [call[t] EXCEPT !.at = "move"]
    BY <1>2, AllocateSteps
  <2>2. Values' = Values
    BY <1>1, <2>1, OthersSee, ValuesKept DEF View
  <2>3. call[t].at = "grow"
    BY <1>2 DEF Allocate
  <2>4. /\ call'[t].at = "move" /\ call'[t].key = call[t].key
        /\ call'[t].val = call[t].val /\ call'[t].cleanup = call[t].cleanup
    BY <2>1 DEF IInv, TypeOK
  <2>5. SeenCall(t)' = SeenCall(t)
    BY <2>3, <2>4 DEF SeenCall
  <2>6. Calls' = Calls
    BY <2>1, <2>5, CallsKept DEF OthersKept
  <2> QED
    BY <1>1, <2>2, <2>6 DEF Map!vars
<1>3. CASE DropDeleted(t) \/ Relocate(t)
  <2>1. OthersKept(t) /\ \A a \in Addr : ~deleted[a] => Held(t, a)' = Held(t, a)
    BY <1>3, DropDeletedSteps, RelocateSteps
  <2>2. Values' = Values
    BY <1>1, <2>1, OthersSee, ValuesKept DEF View
  <2>3. call' = call
    BY <1>3 DEF DropDeleted, Relocate
  <2>4. Calls' = Calls
    BY <2>3 DEF Calls, SeenCall
  <2> QED
    BY <1>1, <2>2, <2>4 DEF Map!vars
<1>4. CASE DtorReturns(t)
  <2>1. table' = table /\ old' = old /\ call[t] = Idle /\ Goes(t, "pop")
    BY <1>4 DEF DtorReturns, tableVars
  <2>2. Values' = Values
    BY <1>1, <2>1, ValuesKept DEF View, Held
  <2>3. call'[t].at = "pop" /\ \A u \in Thread \ {t} : call'[u] = call[u]
    BY <2>1, CallFacts DEF IInv, At
  <2>4. SeenCall(t)' = SeenCall(t)
    BY <2>1, <2>3 DEF SeenCall, Idle, Result
  <2>5. Calls' = Calls
    BY <2>3, <2>4, CallsKept
  <2> QED
    BY <1>1, <2>2, <2>5 DEF Map!vars
<1> QED
  BY <1>2, <1>3, <1>4

LEMMA CallIsSeen ==
  ASSUME IInv, NEW t \in Thread, call[t].at \in {"grow", "move", "insert"}
  PROVE  /\ call[t].key \in Addr /\ call[t].val \in Value \cup {Null}
         /\ ~call[t].cleanup => Calls[t] = <<"set", call[t].key, call[t].val>>
         /\ call[t].cleanup => Calls[t] = <<"reset", call[t].key, call[t].val>>
<1>1. call[t].key \in Addr /\ call[t].val \in Value \cup {Null} /\ call[t].cleanup \in BOOLEAN
  BY Types DEF IInv, TableInv, Roomy
<1> QED
  BY <1>1 DEF Calls, SeenCall, Result

LEMMA MapAllocateFails ==
  ASSUME IInv, WellSeen, WellSeen', NEW t \in Thread, AllocateFails(t)
  PROVE  Map!MemoryIsOut(t)
<1>1. UNCHANGED <<deleted, table, old, exiting>> /\ call[t].at = "grow" /\ Gives(t, "-2")
  BY DEF AllocateFails, keyVars, tableVars
<1>2. Values' = Values /\ Deleted' = Deleted
  BY <1>1, ValuesKept, DeletedKept DEF View, Held
<1>3. Calls' = [Calls EXCEPT ![t] = <<"-2">>]
  BY <1>1, MapGives DEF IInv, Result
<1>4. call[t].key \in Addr /\ call[t].val \in Value
  BY <1>1, CallIsSeen DEF IInv, TableInv, Roomy
<1>5. \E op \in {"set", "reset"} : Calls[t] = <<op, call[t].key, call[t].val>>
  BY <1>1, CallIsSeen
<1> QED
  BY <1>1, <1>2, <1>3, <1>4, <1>5 DEF Map!MemoryIsOut, Map!Becomes

LEMMA MapSetReturns ==
  ASSUME IInv, WellSeen, WellSeen', NEW t \in Thread, SetReturns(t)
  PROVE  Map!Returns(t)
<1>1. UNCHANGED <<deleted, table, old, exiting>> /\ call[t].at \in Result /\ Returns(t)
  BY DEF SetReturns, keyVars, tableVars
<1>2. Values' = Values /\ Deleted' = Deleted
  BY <1>1, ValuesKept, DeletedKept DEF View, Held
<1>3. call'[t] = Idle /\ \A u \in Thread \ {t} : call'[u] = call[u]
  BY <1>1, CallFacts DEF IInv
<1>4. SeenCall(t)' = <<>>
  BY <1>3 DEF SeenCall, Idle, Result
<1>5. Calls' = [Calls EXCEPT ![t] = <<>>]
  BY <1>3, <1>4, CallsFollow
<1>6. Calls[t] \in {<<"0">>, <<"-1">>, <<"-2">>}
  BY <1>1 DEF Calls, SeenCall, Result
<1> QED
  BY <1>1, <1>2, <1>5, <1>6 DEF Map!Returns, Map!Becomes

LEMMA MapInsert ==
  ASSUME IInv, WellSeen, WellSeen', NEW t \in Thread, Insert(t), uses' = uses
  PROVE  Map!Sets(t) \/ Map!Resets(t)
<1>1. PICK a \in Addr :
         /\ a = call[t].key
         /\ Held(t, a)' = call[t].val
         /\ \A b \in Addr \ {a} : Held(t, b)' = Held(t, b)
         /\ IF call[t].cleanup /\ Held(t, a) # Null
            THEN call'[t].at = "popped" /\ call'[t].key = a
            ELSE call'[t].at = "0" /\ call'[t].key = NoKey
  BY InsertSteps
<1>2. PICK v : v = call[t].val
  OBVIOUS
<1>3. OthersKept(t) /\ deleted' = deleted /\ exiting' = exiting
      /\ call[t].at \in {"grow", "move", "insert"}
  <2>1. OthersKept(t)
    BY InsertSteps
  <2> QED
    BY <2>1 DEF Insert
<1>4. v \in Value \cup {Null} /\ call[t].cleanup \in BOOLEAN
  BY <1>2, Types DEF IInv
<1>5. /\ ~call[t].cleanup => Calls[t] = <<"set", a, v>>
      /\ call[t].cleanup => Calls[t] = <<"reset", a, v>>
  BY <1>1, <1>2, <1>3, CallIsSeen
<1>6. SeenCall(t)' = IF call[t].cleanup /\ Held(t, a) # Null THEN <<"dtor", a>> ELSE <<"0">>
  <2>1. CASE call[t].cleanup /\ Held(t, a) # Null
    BY <1>1, <2>1 DEF SeenCall, Result
  <2>2. CASE ~(call[t].cleanup /\ Held(t, a) # Null)
    BY <1>1, <2>2 DEF SeenCall, Result
  <2> QED
    BY <2>1, <2>2
<1>7. Calls' = [Calls EXCEPT ![t] = IF call[t].cleanup /\ Held(t, a) # Null
                                    THEN <<"dtor", a>> ELSE <<"0">>]
  BY <1>3, <1>6, CallsFollow DEF OthersKept
<1>8. \A u \in Thread \ {t}, b \in Addr : View(u, b)' = View(u, b)
  BY <1>3, OthersSee
<1>9. Deleted' = Deleted /\ (a \in Deleted <=> deleted[a])
  BY <1>3, DeletedKept DEF Deleted
<1>10. Map!Takes(t, a, v)
  <2>1. CASE ~deleted[a]
    <3>1. View(t, a)' = v /\ \A b \in Addr \ {a} : View(t, b)' = View(t, b)
      BY <1>1, <1>2, <1>3, <2>1 DEF View
    <3>2. Values' = [Values EXCEPT ![t][a] = v]
      BY <1>8, <3>1, ValuesFollow
    <3> QED
      BY <1>9, <2>1, <3>2 DEF Map!Takes
  <2>2. CASE deleted[a]
    <3>1. \A b \in Addr : View(t, b)' = View(t, b)
      BY <1>1, <1>3, <2>2 DEF View
    <3>2. \A u \in Thread, b \in Addr : View(u, b)' = View(u, b)
      BY <1>8, <3>1
    <3>3. Values' = Values
      BY <3>2, ValuesKept
    <3> QED
      BY <1>9, <2>2, <3>3 DEF Map!Takes
  <2> QED
    BY <2>1, <2>2
<1>11. Values[t][a] = IF deleted[a] THEN Null ELSE Held(t, a)
  BY DEF WellSeen, View
<1>12. CASE ~call[t].cleanup
  <2>1. Calls' = [Calls EXCEPT ![t] = <<"0">>]
    BY <1>7, <1>12
  <2> QED
    BY <1>3, <1>4, <1>5, <1>9, <1>10, <1>12, <2>1 DEF Map!Sets, Map!Becomes
<1>13. CASE call[t].cleanup /\ Held(t, a) # Null
  <2>1. Calls' = [Calls EXCEPT ![t] = <<"dtor", a>>]
    BY <1>7, <1>13
  <2>2. Values[t][a] # Null \/ a \in Deleted
    BY <1>9, <1>11, <1>13
  <2> QED
    BY <1>3, <1>4, <1>5, <1>9, <1>10, <1>13, <2>1, <2>2 DEF Map!Resets, Map!Becomes
<1>14. CASE call[t].cleanup /\ Held(t, a) = Null
  <2>1. Calls' = [Calls EXCEPT ![t] = <<"0">>]
    BY <1>7, <1>14
  <2>2. Values[t][a] = Null
    BY <1>11, <1>14
  <2> QED
    BY <1>3, <1>4, <1>5, <1>9, <1>10, <1>14, <2>1, <2>2 DEF Map!Resets, Map!Becomes
<1> QED
  BY <1>4, <1>12, <1>13, <1>14

LEMMA MapPop ==
  ASSUME IInv, WellSeen, WellSeen', Leaving, NEW t \in Thread, Pop(t), uses' = uses
  PROVE  \E a \in Addr : Map!Pop(t, a)
<1>1. OthersKept(t)
  BY PopSteps
<1>2. PICK a \in Addr :
         /\ Held(t, a) # Null /\ ~deleted[a] /\ Held(t, a)' = Null
         /\ \A b \in Addr \ {a} : Held(t, b)' = Held(t, b)
         /\ call'[t].at = "popped" /\ call'[t].key = a
  BY PopSteps
<1>3. /\ deleted' = deleted /\ Deleted' = Deleted
      /\ call[t].at = "pop" /\ t \in exiting /\ exiting' = exiting
  BY DeletedKept DEF Pop, keyVars, Leaving
<1>4. View(t, a)' = Null /\ \A b \in Addr \ {a} : View(t, b)' = View(t, b)
  BY <1>2, <1>3 DEF View
<1>5. Values' = [Values EXCEPT ![t][a] = Null]
  BY <1>1, <1>3, <1>4, OthersSee, ValuesFollow
<1>6. Values[t][a] # Null
  BY <1>2 DEF WellSeen, View
<1>7. SeenCall(t)' = <<"dtor", a>>
  BY <1>2 DEF SeenCall, Result
<1>8. Calls' = [Calls EXCEPT ![t] = <<"dtor", a>>]
  BY <1>1, <1>7, CallsFollow DEF OthersKept
<1>9. Calls[t] = <<>>
  BY <1>3 DEF Calls, SeenCall, Result
<1> QED
  BY <1>3, <1>5, <1>6, <1>8, <1>9 DEF Map!Pop, Map!Becomes

LEMMA MapClose ==
  ASSUME IInv, WellSeen, WellSeen', Leaving, NEW t \in Thread, Close(t), uses' = uses
  PROVE  Map!Close(t)
<1>1. /\ \A a \in Addr : Held(t, a)' = Null /\ (~deleted[a] => Held(t, a) = Null)
      /\ OthersKept(t) /\ call'[t].at = "idle"
  BY CloseSteps
<1>2. /\ deleted' = deleted /\ Deleted' = Deleted /\ exiting' = exiting \ {t}
      /\ call[t].at = "pop" /\ t \in exiting
  BY DeletedKept DEF Close, Leaving
<1>3. \A a \in Addr : View(t, a) = Null /\ View(t, a)' = Null
  BY <1>1, <1>2 DEF View
<1>4. \A a \in Addr : Values[t][a] = Null
  BY <1>3 DEF WellSeen
<1>5. Values' = Values
  BY <1>1, <1>2, <1>3, OthersSee, ValuesKept
<1>6. SeenCall(t)' = <<>> /\ SeenCall(t) = <<>>
  BY <1>1, <1>2 DEF SeenCall, Result
<1>7. Calls' = Calls
  BY <1>1, <1>6, CallsKept DEF OthersKept
<1>8. Calls[t] = <<>>
  BY <1>6 DEF Calls
<1> QED
  BY <1>2, <1>4, <1>5, <1>7, <1>8 DEF Map!Close

LEMMA MapBeginExit ==
  ASSUME IInv, WellSeen, WellSeen', NEW t \in Thread, BeginExit(t)
  PROVE  Map!BeginExit(t)
<1>1. /\ UNCHANGED <<deleted, table, old>> /\ call[t] = Idle /\ Goes(t, "pop")
      /\ t \notin exiting /\ exiting' = exiting \cup {t}
  BY DEF BeginExit, keyVars, tableVars
<1>2. Values' = Values /\ Deleted' = Deleted
  BY <1>1, ValuesKept, DeletedKept DEF View, Held
<1>3. call'[t].at = "pop" /\ \A u \in Thread \ {t} : call'[u] = call[u]
  BY <1>1, CallFacts DEF IInv, At
<1>4. SeenCall(t)' = <<>> /\ SeenCall(t) = <<>>
  BY <1>1, <1>3 DEF SeenCall, Idle, Result
<1>5. Calls' = Calls /\ Calls[t] = <<>>
  <2>1. Calls' = Calls
    BY <1>3, <1>4, CallsKept
  <2> QED
    BY <1>4, <2>1 DEF Calls
<1> QED
  BY <1>1, <1>2, <1>5 DEF Map!BeginExit

LEMMA MapCallDtor ==
  ASSUME IInv, WellSeen, WellSeen', NEW t \in Thread, CallDtor(t)
  PROVE  Map!Destroy(t)
<1>1. UNCHANGED <<deleted, table, old, exiting>> /\ call[t].at = "popped" /\ Returns(t)
  BY DEF CallDtor, keyVars, tableVars
<1>2. Values' = Values /\ Deleted' = Deleted
  BY <1>1, ValuesKept, DeletedKept DEF View, Held
<1>3. call'[t] = Idle /\ \A u \in Thread \ {t} : call'[u] = call[u]
  BY <1>1, CallFacts DEF IInv
<1>4. SeenCall(t)' = <<>> /\ SeenCall(t) = <<"dtor", call[t].key>>
  BY <1>1, <1>3 DEF SeenCall, Idle, Result
<1>5. Calls' = [Calls EXCEPT ![t] = <<>>] /\ Calls[t] = <<"dtor", call[t].key>>
  <2>1. Calls' = [Calls EXCEPT ![t] = <<>>]
    BY <1>3, <1>4, CallsFollow
  <2> QED
    BY <1>4, <2>1 DEF Calls
<1>6. call[t].key \in Addr
  BY <1>1 DEF IInv, TableInv, Roomy
<1> QED
  BY <1>1, <1>2, <1>5, <1>6 DEF Map!Destroy, Map!Becomes

LEMMA MapStep ==
  ASSUME IInv, Leaving, WellSeen, WellSeen', [Next]_vars
  PROVE  [Map!Next]_(Map!vars)
<1>1. CASE \E a \in Addr : OfKeys(a) /\ UNCHANGED uses
  BY <1>1, MapOfKeys
<1>2. ASSUME NEW t \in Thread, OfTables(t), UNCHANGED uses
      PROVE  [Map!Next]_(Map!vars)
  <2>1. CASE \E a \in Addr, v \in Value \cup {Null}, cleanup \in BOOLEAN : CallSet(t, a, v, cleanup)
    BY <2>1, MapCallSet DEF Map!Next
  <2>2. CASE Allocate(t) \/ DropDeleted(t) \/ Relocate(t) \/ DtorReturns(t)
    BY <1>2, <2>2, MapStutters
  <2>3. CASE AllocateFails(t)
    BY <2>3, MapAllocateFails DEF Map!Next
  <2>4. CASE Insert(t)
    BY <1>2, <2>4, MapInsert DEF Map!Next
  <2>5. CASE BeginExit(t)
    BY <2>5, MapBeginExit DEF Map!Next
  <2>6. CASE Pop(t)
    BY <1>2, <2>6, MapPop DEF Map!Next
  <2>7. CASE CallDtor(t)
    BY <2>7, MapCallDtor DEF Map!Next
  <2>8. CASE Close(t)
    BY <1>2, <2>8, MapClose DEF Map!Next
  <2>9. CASE SetReturns(t)
    BY <2>9, MapSetReturns DEF Map!Next
  <2> QED
    BY <1>2, <2>1, <2>2, <2>3, <2>4, <2>5, <2>6, <2>7, <2>8, <2>9 DEF OfTables
<1>3. CASE UNCHANGED vars
  <2>1. UNCHANGED <<deleted, table, old, call, exiting>>
    BY <1>3 DEF vars
  <2>2. Values' = Values
    BY <2>1, ValuesKept DEF View, Held
  <2>3. Calls' = Calls
    BY <2>1 DEF Calls, SeenCall
  <2> QED
    BY <2>1, <2>2, <2>3, DeletedKept DEF Map!vars
<1> QED
  BY <1>1, <1>2, <1>3 DEF Next

(***************************************************************************)
(* The tables are a map for each thread: __MCF_tls_table_get finds what    *)
(* __MCF_tls_table_xset has set last for this key and this thread, however *)
(* keys collide, while tables grow, and when the memory of a deleted key   *)
(* becomes another one; what it returns tells whether the value has been   *)
(* set; and a thread that ends pops every value that it still has.         *)
(***************************************************************************)
THEOREM TablesAreMaps == Spec => IsTlsMap
<1>1. Init => IInv /\ Leaving
  BY Initially DEF Init, Idle, Leaving
<1>2. IInv /\ Leaving /\ [Next]_vars => IInv' /\ Leaving'
  BY EveryStep, LeavingStays DEF IInv
<1>3. IInv /\ Leaving /\ WellSeen /\ WellSeen' /\ [Next]_vars => [Map!Next]_(Map!vars)
  BY MapStep
<1>4. IInv => WellSeen
  BY ValuesAreViews
<1>5. Init => Map!Init
  BY MapBegins
<1> QED
  BY <1>1, <1>2, <1>3, <1>4, <1>5, PTL DEF Spec, IsTlsMap, Map!Spec

-----------------------------------------------------------------------------
(* Collections of CPUs *)

CpuTypeOK ==
    /\ pc \in {"new", "entries", "shift", "bits", "ready", "search", "found", "freed"}
    /\ data \in [Slot -> Element]
    /\ length \in Nat /\ refs \in Int /\ left \in Nat
    /\ mask \in SUBSET Slot
    /\ cpu \in Element
    /\ i \in Nat /\ k \in Nat
    /\ id \in Nat /\ bpos \in Nat /\ epos \in Nat
    /\ found \in Nat \cup {NoCpu}

(***************************************************************************)
(* What the loops of _MCF_cpu_collection_new maintain.  While an entry is  *)
(* inserted there is a gap at k: everything around it is in order, and the *)
(* entry belongs below all that is above the gap.                          *)
(***************************************************************************)
InOrder(n, gap) ==
    \A l, m \in 0 .. n - 1 : l < m /\ l # gap /\ m # gap => data[l].id < data[m].id

Room == pc \in {"new", "entries"} => length + left <= Cap

Gap ==
    pc = "shift" =>
        /\ length + left < Cap
        /\ i = k /\ k <= length
        /\ InOrder(length + 1, k)
        /\ \A m \in k + 1 .. length : cpu.id < data[m].id
        /\ \A m \in 0 .. k - 1 : cpu.id # data[m].id

BitsAhead ==
    pc \in {"new", "bits"} =>
        \A b \in mask : length <= b /\ \A m \in 0 .. length - 1 : data[m].id < 256 + b

Ordered == length <= Cap /\ (pc # "shift" => InOrder(length, -1))

BuildInv == CpuTypeOK /\ Ordered /\ Room /\ Gap /\ BitsAhead

(***************************************************************************)
(* What the search maintains: the CPU is in the range that is left, if it  *)
(* is there at all.                                                        *)
(***************************************************************************)
Narrowed ==
    pc = "search" =>
        /\ bpos <= epos /\ epos <= length
        /\ \A n \in 0 .. length - 1 : data[n].id = id => bpos <= n /\ n < epos

Inv == BuildInv /\ Narrowed /\ FindsIt

-----------------------------------------------------------------------------
(* Steps that keep every CPU where it is *)

SameIds == DOMAIN data' = Slot /\ data' \in [Slot -> Element]
             /\ \A m \in Slot : data'[m].id = data[m].id

LEMMA SelectionKeepsIds ==
    ASSUME CpuTypeOK, NEW n, NEW chosen, data' = WithSelection(data, n, chosen)
    PROVE  SameIds
<1>1. data \in [Slot -> Element]
  BY DEF CpuTypeOK
<1>2. ASSUME NEW m \in Slot
      PROVE  data'[m] \in Element /\ data'[m].id = data[m].id
  <2>1. data[m] \in Element
    BY <1>1
  <2>2. CASE m < n
    <3> DEFINE b == data[m].id \in chosen
    <3>1. data'[m] = [data[m] EXCEPT !.selected = b]
      BY Zenon, <1>1, <2>2 DEF WithSelection
    <3>2. b \in BOOLEAN
      OBVIOUS
    <3> HIDE DEF b
    <3> QED
      BY <2>1, <3>1, <3>2 DEF Element
  <2>3. CASE ~(m < n)
    <3>1. data'[m] = data[m]
      BY Zenon, <1>1, <2>3 DEF WithSelection
    <3> QED
      BY <2>1, <3>1
  <2> QED
    BY <2>2, <2>3
<1>3. DOMAIN data' = Slot /\ data' = [m \in Slot |-> data'[m]]
  BY <1>1 DEF WithSelection
<1> QED
  BY <1>2, <1>3 DEF SameIds

LEMMA SelectingKeepsIds ==
    ASSUME CpuTypeOK, NEW n, NEW selected \in BOOLEAN,
           data' = [data EXCEPT ![n].selected = selected]
    PROVE  SameIds
<1>1. data \in [Slot -> Element]
  BY DEF CpuTypeOK
<1>2. ASSUME NEW m \in Slot
      PROVE  data'[m] \in Element /\ data'[m].id = data[m].id
  <2>1. data[m] \in Element
    BY <1>1
  <2>2. CASE m = n
    <3>1. data'[m] = [data[m] EXCEPT !.selected = selected]
      BY <1>1, <2>2
    <3> QED
      BY <2>1, <3>1 DEF Element
  <2>3. CASE m # n
    <3>1. data'[m] = data[m]
      BY <1>1, <2>3
    <3> QED
      BY <2>1, <3>1
  <2> QED
    BY <2>2, <2>3
<1>3. DOMAIN data' = Slot /\ data' = [m \in Slot |-> data'[m]]
  BY <1>1
<1> QED
  BY <1>2, <1>3 DEF SameIds

-----------------------------------------------------------------------------
(* The collection is sorted *)

LEMMA InitBuild == ASSUME Cap \in Nat, CpuInit PROVE BuildInv
<1>1. data \in [Slot -> Element]
  BY DEF CpuInit, Unused
<1> QED
  BY <1>1 DEF CpuInit, BuildInv, CpuTypeOK, Ordered, InOrder, Room, Gap, BitsAhead, NoCpu, Slot

LEMMA BuildReadEntry == ASSUME Cap \in Nat, BuildInv, ReadEntry PROVE BuildInv'
<1> USE DEF BuildInv, ReadEntry, coll, search
<1>1. CpuTypeOK'
  BY DEF CpuTypeOK
<1>2. Gap'
  <2>1. \A m \in 0 .. length - 1 : cpu'.id # data[m].id
    BY DEF Present, CpuTypeOK
  <2> QED
    BY <2>1 DEF Gap, Room, Ordered, InOrder, CpuTypeOK
<1>3. Ordered' /\ Room' /\ BitsAhead'
  BY DEF Ordered, Room, BitsAhead
<1> QED
  BY <1>1, <1>2, <1>3

LEMMA BuildShift == ASSUME Cap \in Nat, BuildInv, Shift PROVE BuildInv'
<1> USE DEF BuildInv, Shift, search
<1>1. k \in Slot /\ k >= 1 /\ k - 1 \in Slot /\ i = k /\ k <= length
  BY DEF CpuTypeOK, Gap, IsAbove, Slot
<1>2. CpuTypeOK'
  BY <1>1 DEF CpuTypeOK
<1>3. /\ data'[k] = data[k - 1]
      /\ \A m \in Slot : m # k => data'[m] = data[m]
  BY <1>1 DEF CpuTypeOK
<1>4. cpu.id < data[k - 1].id
  BY <1>1 DEF IsAbove, CpuTypeOK, Element
<1>5. Gap'
  <2>1. 0 .. length \subseteq Slot
    BY DEF Gap, CpuTypeOK, Slot
  <2>2. ASSUME NEW l \in 0 .. length, NEW m \in 0 .. length,
               l < m, l # k - 1, m # k - 1
        PROVE  data'[l].id < data'[m].id
    <3>1. \A a, b \in 0 .. length : a < b /\ a # k /\ b # k => data[a].id < data[b].id
      BY DEF Gap, InOrder, CpuTypeOK
    <3>2. k - 1 \in 0 .. length /\ k - 1 # k /\ l \in Slot /\ m \in Slot
      BY <1>1, <2>1 DEF CpuTypeOK
    <3>3. CASE l = k
      <4>1. k - 1 < m /\ m # k
        BY <1>1, <2>2, <3>3 DEF CpuTypeOK
      <4> QED
        BY <1>3, <3>1, <3>2, <3>3, <4>1
    <3>4. CASE m = k
      <4>1. l < k - 1 /\ l # k
        BY <1>1, <2>2, <3>4 DEF CpuTypeOK
      <4> QED
        BY <1>3, <3>1, <3>2, <3>4, <4>1
    <3>5. CASE l # k /\ m # k
      BY <1>3, <2>2, <3>1, <3>2, <3>5
    <3> QED
      BY <3>3, <3>4, <3>5
  <2>3. \A m \in k .. length : cpu.id < data'[m].id
    BY <1>1, <1>3, <1>4, <2>1 DEF Gap, CpuTypeOK
  <2>4. \A m \in 0 .. k - 2 : cpu.id # data'[m].id
    BY <1>1, <1>3, <2>1 DEF Gap, CpuTypeOK
  <2> QED
    BY <1>1, <2>2, <2>3, <2>4 DEF Gap, CpuTypeOK, InOrder
<1>6. Ordered' /\ Room' /\ BitsAhead'
  BY DEF Ordered, Room, BitsAhead
<1> QED
  BY <1>2, <1>5, <1>6

LEMMA BuildPlace == ASSUME Cap \in Nat, BuildInv, Place PROVE BuildInv'
<1> USE DEF BuildInv, Place, build, search
<1>1. k \in Slot /\ k <= length /\ i = k /\ 0 .. length \subseteq Slot
  BY DEF CpuTypeOK, Gap, Slot
<1>2. CpuTypeOK'
  BY <1>1 DEF CpuTypeOK
<1>3. /\ data'[k] = cpu
      /\ \A m \in Slot : m # k => data'[m] = data[m]
  BY <1>1 DEF CpuTypeOK
<1>4. \A a \in Slot : data[a].id \in Nat
  BY DEF CpuTypeOK, Element
<1>5. cpu.id \in Nat
  BY DEF CpuTypeOK, Element
<1>6. \A a, b \in 0 .. length : a < b /\ a # k /\ b # k => data[a].id < data[b].id
  BY DEF Gap, InOrder, CpuTypeOK
<1>7. \A m \in 0 .. k - 1 : data[m].id < cpu.id
  <2> SUFFICES ASSUME NEW m \in 0 .. k - 1
               PROVE  data[m].id < cpu.id
    OBVIOUS
  <2>1. k - 1 \in 0 .. length /\ m \in 0 .. length /\ k - 1 \in Slot
    BY <1>1 DEF CpuTypeOK
  <2>2. data[k - 1].id < cpu.id
    <3>1. ~(data[k - 1].id > cpu.id)
      BY <1>1 DEF IsAbove, CpuTypeOK
    <3>2. data[k - 1].id # cpu.id
      BY <1>1 DEF Gap, CpuTypeOK
    <3> QED
      BY <1>4, <1>5, <2>1, <3>1, <3>2
  <2>3. m = k - 1 \/ data[m].id < data[k - 1].id
    BY <1>1, <1>6, <2>1 DEF CpuTypeOK
  <2> QED
    BY <1>1, <1>4, <1>5, <2>1, <2>2, <2>3
<1>8. InOrder(length, -1)'
  <2> SUFFICES ASSUME NEW l \in 0 .. length, NEW m \in 0 .. length, l < m
               PROVE  data'[l].id < data'[m].id
    BY DEF InOrder, CpuTypeOK
  <2>1. CASE l = k
    <3>1. m \in k + 1 .. length /\ m # k
      BY <1>1, <2>1 DEF CpuTypeOK
    <3> QED
      BY <1>1, <1>3, <2>1, <3>1 DEF Gap
  <2>2. CASE m = k
    <3>1. l \in 0 .. k - 1 /\ l # k
      BY <1>1, <2>2 DEF CpuTypeOK
    <3> QED
      BY <1>1, <1>3, <1>7, <2>2, <3>1
  <2>3. CASE l # k /\ m # k
    BY <1>1, <1>3, <1>6, <2>3
  <2> QED
    BY <2>1, <2>2, <2>3
<1>9. Ordered' /\ Room' /\ Gap' /\ BitsAhead'
  BY <1>8 DEF Ordered, Room, Gap, BitsAhead, CpuTypeOK
<1> QED
  BY <1>2, <1>9

LEMMA BuildTakeBit == ASSUME Cap \in Nat, BuildInv, TakeBit PROVE BuildInv'
<1> USE DEF BuildInv, TakeBit, search
<1>1. PICK b \in mask, info \in Info :
         /\ \A c \in mask : b <= c
         /\ data' = [data EXCEPT ![length] =
                        [id |-> 256 + b, info |-> info, selected |-> FALSE]]
         /\ mask' = mask \ {b}
  OBVIOUS
<1>2. b \in 0 .. Cap - 1 /\ length <= b /\ length \in Slot /\ 0 .. length \subseteq Slot
  BY DEF CpuTypeOK, BitsAhead, Slot
<1>3. CpuTypeOK'
  <2>1. [id |-> 256 + b, info |-> info, selected |-> FALSE] \in Element
    BY <1>2 DEF Element
  <2>2. data' \in [Slot -> Element] /\ mask' \in SUBSET Slot
    BY <1>1, <2>1 DEF CpuTypeOK
  <2> QED
    BY <2>2 DEF CpuTypeOK
<1>4. /\ data'[length].id = 256 + b
      /\ \A m \in Slot : m # length => data'[m] = data[m]
  BY <1>1, <1>2 DEF CpuTypeOK
<1>5. InOrder(length, -1)'
  <2> SUFFICES ASSUME NEW l \in 0 .. length, NEW m \in 0 .. length, l < m
               PROVE  data'[l].id < data'[m].id
    BY DEF InOrder, CpuTypeOK
  <2>1. l \in 0 .. length - 1 /\ l # length /\ l \in Slot /\ m \in Slot
    BY <1>2 DEF CpuTypeOK
  <2>2. CASE m = length
    BY <1>1, <1>4, <2>1, <2>2 DEF BitsAhead
  <2>3. CASE m # length
    <3>1. m \in 0 .. length - 1
      BY <2>3 DEF CpuTypeOK
    <3> QED
      BY <1>4, <2>1, <2>3, <3>1 DEF Ordered, InOrder, CpuTypeOK
  <2> QED
    BY <2>2, <2>3
<1>6. BitsAhead'
  <2> SUFFICES ASSUME NEW c \in mask, c # b
               PROVE  /\ length + 1 <= c
                      /\ \A m \in 0 .. length : data'[m].id < 256 + c
    BY <1>1 DEF BitsAhead, CpuTypeOK
  <2>1. b < c /\ c \in Int
    BY <1>1, <1>2 DEF CpuTypeOK, Slot
  <2>2. ASSUME NEW m \in 0 .. length - 1
        PROVE  data'[m].id < 256 + c
    <3>1. m # length /\ m \in Slot
      BY <1>2 DEF CpuTypeOK
    <3> QED
      BY <1>4, <3>1 DEF BitsAhead
  <2>3. data'[length].id < 256 + c
    BY <1>2, <1>4, <2>1
  <2> QED
    BY <1>2, <2>1, <2>2, <2>3 DEF CpuTypeOK
<1>7. Ordered' /\ Room' /\ Gap'
  BY <1>2, <1>5 DEF Ordered, Room, Gap, CpuTypeOK
<1> QED
  BY <1>3, <1>6, <1>7

LEMMA LessLeft ==
    ASSUME NEW a \in Nat, NEW b \in Nat, NEW c \in Nat, NEW d \in Nat, a + b <= d, c <= b
    PROVE  a + c <= d
OBVIOUS

(***************************************************************************)
(* Steps that change no identifier and are not between two rounds.         *)
(***************************************************************************)
LEMMA BuildSameIds ==
    ASSUME Cap \in Nat, BuildInv, CpuTypeOK', SameIds, length' = length,
           pc # "shift", pc' # "shift",
           pc' \in {"new", "entries"} => pc \in {"new", "entries"} /\ left' <= left,
           pc' \in {"new", "bits"} => pc \in {"new", "bits"} /\ mask' = mask
    PROVE  BuildInv'
<1>1. 0 .. length - 1 \subseteq Slot
  BY DEF BuildInv, CpuTypeOK, Ordered, Slot
<1>2. \A m \in 0 .. length - 1 : data'[m].id = data[m].id
  BY <1>1 DEF SameIds
<1>3. Ordered'
  BY <1>2 DEF BuildInv, Ordered, InOrder
<1>4. Room'
  <2> SUFFICES ASSUME pc' \in {"new", "entries"}
               PROVE  length + left' <= Cap
    BY DEF Room
  <2>1. length + left <= Cap /\ left' <= left
    BY DEF BuildInv, Room
  <2>2. length \in Nat /\ left \in Nat /\ left' \in Nat
    BY DEF BuildInv, CpuTypeOK
  <2> QED
    BY ONLY Cap \in Nat, <2>1, <2>2, LessLeft
<1>5. Gap'
  BY DEF Gap
<1>6. BitsAhead'
  BY <1>2 DEF BuildInv, BitsAhead
<1> QED
  BY <1>3, <1>4, <1>5, <1>6 DEF BuildInv

LEMMA BuildNext == ASSUME Cap \in Nat, BuildInv, [CpuNext]_cpuVars PROVE BuildInv'
<1> USE DEF BuildInv
<1> DEFINE Quiet == /\ pc # "shift" /\ pc' # "shift"
                    /\ pc' \in {"new", "entries"} => pc \in {"new", "entries"} /\ left' <= left
                    /\ pc' \in {"new", "bits"} => pc \in {"new", "bits"} /\ mask' = mask
                    /\ length' = length
<1>1. ASSUME data' = data PROVE CpuTypeOK => SameIds
  BY <1>1 DEF SameIds, CpuTypeOK
<1>2. CASE SkipEntry
  <2>1. CpuTypeOK' /\ Quiet /\ data' = data
    BY <1>2 DEF SkipEntry, CpuTypeOK, coll, search
  <2> QED
    BY <1>1, <2>1, BuildSameIds
<1>3. CASE ReadEntry
  BY <1>3, BuildReadEntry
<1>4. CASE Shift
  BY <1>4, BuildShift
<1>5. CASE Place
  BY <1>5, BuildPlace
<1>6. CASE TakeBit
  BY <1>6, BuildTakeBit
<1>7. CASE FillCores
  <2>1. PICK info \in [Slot -> Info] :
           data' = [n \in Slot |-> [data[n] EXCEPT !.info = info[n]]]
    BY <1>7 DEF FillCores
  <2>2. SameIds
    BY <2>1 DEF SameIds, CpuTypeOK, Element
  <2>3. CpuTypeOK' /\ Quiet
    BY <1>7, <2>2 DEF FillCores, CpuTypeOK, SameIds, build, search
  <2> QED
    BY <2>2, <2>3, BuildSameIds
<1>8. CASE \/ NewAllocates \/ NewFails \/ Created \/ AddCollRef \/ DropCollRef \/ NewCopy
           \/ GetFound \/ SetAffinity
  <2>1. CpuTypeOK' /\ Quiet /\ data' = data
    BY <1>8 DEF NewAllocates, NewFails, Created, AddCollRef, DropCollRef, NewCopy,
                GetFound, SetAffinity, CpuTypeOK, coll, build, search
  <2> QED
    BY <1>1, <2>1, BuildSameIds
<1>9. CASE \E x \in Nat : Find(x)
  <2>1. CpuTypeOK' /\ Quiet /\ data' = data
    BY <1>9 DEF Find, IsConsecutive, CpuTypeOK, coll, build
  <2> QED
    BY <1>1, <2>1, BuildSameIds
<1>10. CASE NotFound \/ Hit \/ Below \/ Above
  <2>1. Mid \in Int
    BY DEF Mid, CpuTypeOK
  <2>2. pc = "search" => Mid \in Nat
    <3>1. \A a, b \in Nat : a + ((b - a) \div 2) \in Nat
      <4> TAKE a, b \in Nat
      <4>1. /\ (b - a) \div 2 \in Int
            /\ 2 * ((b - a) \div 2) <= b - a /\ 2 * ((b - a) \div 2) >= b - a - 1
        OBVIOUS
      <4> QED
        BY <4>1
    <3> QED
      BY <3>1 DEF Mid, CpuTypeOK
  <2>3. CpuTypeOK' /\ Quiet /\ data' = data
    BY <1>10, <2>2 DEF NotFound, Hit, Below, Above, CpuTypeOK, coll, build
  <2> QED
    BY <1>1, <2>3, BuildSameIds
<1>11. CASE \E selected \in BOOLEAN : SetFound(selected)
  <2>1. PICK selected \in BOOLEAN : SetFound(selected)
    BY <1>11
  <2>2. SameIds
    <3>1. CASE found = NoCpu
      BY <1>1, <2>1, <3>1 DEF SetFound
    <3>2. CASE found # NoCpu
      BY <2>1, <3>2, SelectingKeepsIds DEF SetFound
    <3> QED
      BY <3>1, <3>2
  <2>3. CpuTypeOK' /\ Quiet
    BY <2>1, <2>2 DEF SetFound, CpuTypeOK, SameIds, build, search
  <2> QED
    BY <2>2, <2>3, BuildSameIds
<1>12. CASE \E selected \in BOOLEAN : \E n \in Slot : SetByIndex(n, selected)
  <2>1. PICK selected \in BOOLEAN, n \in Slot : SetByIndex(n, selected)
    BY <1>12
  <2>2. SameIds
    BY <2>1, SelectingKeepsIds DEF SetByIndex
  <2>3. CpuTypeOK' /\ Quiet
    BY <2>1, <2>2 DEF SetByIndex, CpuTypeOK, SameIds, build, search
  <2> QED
    BY <2>2, <2>3, BuildSameIds
<1>13. CASE (\E selected \in BOOLEAN : SetAll(selected)) \/ GetAffinity
  <2>1. PICK chosen : data' = WithSelection(data, length, chosen)
    BY <1>13 DEF SetAll, GetAffinity
  <2>2. SameIds
    BY <2>1, SelectionKeepsIds
  <2>3. CpuTypeOK' /\ Quiet
    BY <1>13, <2>2 DEF SetAll, GetAffinity, CpuTypeOK, SameIds, build, search
  <2> QED
    BY <2>2, <2>3, BuildSameIds
<1>14. CASE UNCHANGED cpuVars
  <2>1. CASE pc # "shift"
    <3>1. CpuTypeOK' /\ Quiet /\ data' = data
      BY <1>14, <2>1 DEF cpuVars, CpuTypeOK, coll, build, search
    <3> QED
      BY <1>1, <3>1, BuildSameIds
  <2>2. CASE pc = "shift"
    BY <1>14, <2>2 DEF cpuVars, coll, build, search, CpuTypeOK, Ordered, InOrder, Room, Gap,
                 BitsAhead
  <2> QED
    BY <2>1, <2>2
<1> QED
  BY <1>2, <1>3, <1>4, <1>5, <1>6, <1>7, <1>8, <1>9, <1>10, <1>11, <1>12, <1>13, <1>14
     DEF CpuNext

(***************************************************************************)
(* The collection is sorted, without a CPU that is there twice, whenever   *)
(* it is not being sorted, and never overruns its memory: what the search  *)
(* relies on according to its comment in src/cpu_collection.c:173.         *)
(***************************************************************************)
THEOREM CollectionIsSorted == ASSUME Cap \in Nat PROVE CpuSpec => []Sorted
<1>1. CpuInit => BuildInv
  BY InitBuild
<1>2. BuildInv /\ [CpuNext]_cpuVars => BuildInv'
  BY BuildNext
<1>3. BuildInv => Sorted
  BY DEF BuildInv, CpuTypeOK, Ordered, InOrder, Gap, Sorted
<1> QED
  BY <1>1, <1>2, <1>3, PTL DEF CpuSpec

-----------------------------------------------------------------------------
(* The search *)

LEMMA MidIsInside ==
    ASSUME NEW a \in Nat, NEW b \in Nat, a < b
    PROVE  a + ((b - a) \div 2) \in a .. b - 1
<1> DEFINE h == (b - a) \div 2
<1>1. h \in Int /\ 2 * h <= b - a /\ b - a - 1 <= 2 * h
  OBVIOUS
<1> HIDE DEF h
<1>2. a + h \in a .. b - 1
  BY <1>1
<1> QED
  BY <1>2 DEF h

LEMMA SearchInit == ASSUME CpuInit PROVE Narrowed /\ FindsIt
BY DEF CpuInit, Narrowed, FindsIt

(***************************************************************************)
(* Half of the range is given up because it is sorted.                     *)
(***************************************************************************)
LEMMA SearchGoesOn ==
    ASSUME Cap \in Nat, Inv, Hit \/ Below \/ Above
    PROVE  Narrowed' /\ FindsIt'
<1> USE DEF Inv, BuildInv, coll, build
<1>1. /\ pc = "search" /\ bpos < epos /\ epos <= length /\ length <= Cap
      /\ length \in Nat /\ bpos \in Nat /\ epos \in Nat /\ id \in Nat
      /\ data' = data /\ length' = length /\ id' = id
  BY DEF Narrowed, Hit, Below, Above, CpuTypeOK, Ordered
<1>2. Mid \in bpos .. epos - 1 /\ Mid \in 0 .. length - 1
  BY <1>1, MidIsInside DEF Mid
<1>3. \A m \in 0 .. length - 1 : data[m].id \in Nat
  BY <1>1 DEF CpuTypeOK, Element, Slot
<1>4. \A m, n \in 0 .. length - 1 : m < n => data[m].id < data[n].id
  BY <1>1 DEF Ordered, InOrder
<1>5. CASE Hit
  BY <1>1, <1>2, <1>5 DEF Hit, Narrowed, FindsIt
<1>6. CASE Below
  <2>1. ASSUME NEW n \in 0 .. length - 1, data[n].id = id
        PROVE  bpos <= n /\ n < Mid
    BY <1>1, <1>2, <1>3, <1>4, <1>6, <2>1 DEF Below, Narrowed
  <2> QED
    BY <1>1, <1>2, <1>6, <2>1 DEF Below, Narrowed, FindsIt
<1>7. CASE Above
  <2>1. ASSUME NEW n \in 0 .. length - 1, data[n].id = id
        PROVE  Mid + 1 <= n /\ n < epos
    BY <1>1, <1>2, <1>3, <1>4, <1>7, <2>1 DEF Above, Narrowed
  <2> QED
    BY <1>1, <1>2, <1>7, <2>1 DEF Above, Narrowed, FindsIt
<1> QED
  BY <1>5, <1>6, <1>7

LEMMA SearchStep == ASSUME Cap \in Nat, Inv, [CpuNext]_cpuVars PROVE Narrowed' /\ FindsIt'
<1>1. CASE Hit \/ Below \/ Above
  BY <1>1, SearchGoesOn
<1>2. CASE NotFound
  <2>1. pc = "search" /\ bpos = epos /\ pc' = "found" /\ found' = NoCpu /\ id' = id
    BY <1>2 DEF NotFound
  <2>2. id \notin Present
    BY <2>1 DEF Inv, BuildInv, CpuTypeOK, Narrowed, Present
  <2>3. Present' = Present
    BY <1>2 DEF NotFound, Present, coll
  <2> QED
    BY <2>1, <2>2, <2>3 DEF Narrowed, FindsIt
<1>3. CASE \E x \in Nat : Find(x)
  <2>1. PICK x \in Nat : Find(x)
    BY <1>3
  <2>2. data' = data /\ length' = length /\ id' = x /\ length \in Nat
    BY <2>1 DEF Find, coll, Inv, BuildInv, CpuTypeOK
  <2>3. CASE IsConsecutive(x)
    BY <2>1, <2>2, <2>3 DEF Find, IsConsecutive, Narrowed, FindsIt
  <2>4. CASE ~IsConsecutive(x)
    BY <2>1, <2>2, <2>4 DEF Find, Narrowed, FindsIt
  <2> QED
    BY <2>3, <2>4
<1>4. CASE UNCHANGED cpuVars
  <2>1. Present' = Present
    BY <1>4 DEF cpuVars, coll, Present
  <2> QED
    BY <1>4, <2>1 DEF cpuVars, coll, search, Inv, Narrowed, FindsIt
<1>5. CASE pc' \notin {"search", "found"}
  BY <1>5 DEF Narrowed, FindsIt
<1> QED
  <2>1. CASE \/ NewAllocates \/ NewFails \/ SkipEntry \/ ReadEntry \/ Shift \/ Place
             \/ TakeBit \/ FillCores \/ Created
             \/ AddCollRef \/ DropCollRef \/ NewCopy \/ GetFound \/ GetAffinity \/ SetAffinity
    BY <1>5, <2>1 DEF NewAllocates, NewFails, SkipEntry, ReadEntry, Shift, Place, TakeBit,
                      FillCores, Created, AddCollRef, DropCollRef, NewCopy, GetFound, GetAffinity,
                      SetAffinity
  <2>2. CASE \E selected \in BOOLEAN :
                SetFound(selected) \/ SetAll(selected) \/ \E n \in Slot : SetByIndex(n, selected)
    BY <1>5, <2>2 DEF SetFound, SetAll, SetByIndex
  <2> QED
    BY <1>1, <1>2, <1>3, <1>4, <2>1, <2>2 DEF CpuNext

(***************************************************************************)
(* do_find_cpu_opt returns the CPU with an identifier if and only if it is *)
(* in the collection, by the shortcut as by the search.                    *)
(***************************************************************************)
THEOREM FindIsRight == ASSUME Cap \in Nat PROVE CpuSpec => []FindsIt
<1>1. CpuInit => Inv
  BY InitBuild, SearchInit DEF Inv
<1>2. Inv /\ [CpuNext]_cpuVars => Inv'
  BY BuildNext, SearchStep DEF Inv
<1>3. Inv => FindsIt
  BY DEF Inv
<1> QED
  BY <1>1, <1>2, <1>3, PTL DEF CpuSpec

-----------------------------------------------------------------------------
(* Quotients *)

LEMMA Quotient ==
    ASSUME NEW a \in Int, NEW q \in Int,
           q * 18446744073709551616 <= a, a < (q + 1) * 18446744073709551616
    PROVE  a \div 18446744073709551616 = q
BY SMT

LEMMA TenThousands ==
    ASSUME NEW v \in Nat
    PROVE  /\ v \div 10000 \in Nat
           /\ (v \div 10000) * 10000 <= v
           /\ v < (v \div 10000) * 10000 + 10000
BY SMT

LEMMA Millions ==
    ASSUME NEW v \in Nat
    PROVE  /\ v \div 1000000 \in Nat
           /\ (v \div 1000000) * 1000000 <= v
           /\ v < (v \div 1000000) * 1000000 + 1000000
BY SMT

(***************************************************************************)
(* The factor is 2^64 / 10000, rounded up.                                 *)
(***************************************************************************)
LEMMA DivisionByMultiplication ==
    ASSUME NEW q \in Nat, NEW v \in Nat, q * 10000 <= v, v < q * 10000 + 10000,
           v <= 18446744073709551615
    PROVE  /\ q * 18446744073709551616 <= v * 1844674407370956
           /\ v * 1844674407370956 < (q + 2) * 18446744073709551616
           /\ 8384 * (q + 1) < 1844674407370956 =>
                 v * 1844674407370956 < (q + 1) * 18446744073709551616
BY SMT

-----------------------------------------------------------------------------
(* Clocks *)

(***************************************************************************)
(* do_divide_by_10000 is a division up to some 220 thousand millions of    *)
(* milliseconds, which is close to seven years: enough for the time since  *)
(* the start of a system.                                                  *)
(***************************************************************************)
THEOREM DivisionIsExact ==
    ASSUME NEW v \in UInt64, 8384 * ((v \div 10000) + 1) < 1844674407370956
    PROVE  DivideBy10000(v) = v \div 10000
<1> DEFINE q == v \div 10000
           a == v * 1844674407370956
<1>1. v \in Nat /\ v <= 18446744073709551615
  BY SMT DEF Between, UInt64
<1>2. q \in Nat /\ q * 10000 <= v /\ v < q * 10000 + 10000
  BY SMT, <1>1, TenThousands
<1>3. 8384 * (q + 1) < 1844674407370956
  BY SMT
<1> HIDE DEF q
<1>4. /\ q * 18446744073709551616 <= a
      /\ a < (q + 1) * 18446744073709551616
  BY SMT, <1>1, <1>2, <1>3, DivisionByMultiplication
<1>5. a \in Int /\ q \in Int
  BY SMT, <1>1, <1>2
<1> HIDE DEF a
<1>6. a \div 18446744073709551616 = q
  BY SMT, <1>4, <1>5, Quotient
<1> QED
  BY SMT, <1>6 DEF a, q, DivideBy10000

(***************************************************************************)
(* Beyond that, as for the time since 1970, it may be the next millisecond *)
(* already, and is never an earlier one, whatever the clock says.          *)
(***************************************************************************)
THEOREM DivisionIsClose ==
    ASSUME NEW v \in UInt64
    PROVE  DivideBy10000(v) \in {v \div 10000, (v \div 10000) + 1}
<1> DEFINE q == v \div 10000
           a == v * 1844674407370956
<1>1. v \in Nat /\ v <= 18446744073709551615
  BY SMT DEF Between, UInt64
<1>2. q \in Nat /\ q * 10000 <= v /\ v < q * 10000 + 10000
  BY SMT, <1>1, TenThousands
<1> HIDE DEF q
<1>3. /\ q * 18446744073709551616 <= a
      /\ a < (q + 2) * 18446744073709551616
  BY SMT, <1>1, <1>2, DivisionByMultiplication
<1>4. a \in Int /\ q \in Int
  BY SMT, <1>1, <1>2
<1> HIDE DEF a
<1>5. CASE a < (q + 1) * 18446744073709551616
  <2>1. a \div 18446744073709551616 = q
    BY SMT, <1>3, <1>4, <1>5, Quotient
  <2> QED
    BY SMT, <2>1 DEF a, q, DivideBy10000
<1>6. CASE ~(a < (q + 1) * 18446744073709551616)
  <2>1. /\ (q + 1) * 18446744073709551616 <= a
        /\ a < ((q + 1) + 1) * 18446744073709551616
    BY SMT, <1>3, <1>4, <1>6
  <2>2. a \div 18446744073709551616 = q + 1
    BY SMT, <2>1, <1>4, Quotient
  <2> QED
    BY SMT, <2>2 DEF a, q, DivideBy10000
<1> QED
  BY SMT, <1>5, <1>6

LEMMA Halves ==
    ASSUME NEW v \in Nat
    PROVE  /\ Hi(v) \in Nat /\ Lo(v) \in Nat /\ Lo(v) < 4294967296
           /\ v = Hi(v) * 4294967296 + Lo(v)
BY SMT DEF Hi, Lo

(***************************************************************************)
(* do_divide_by_10000 is the same with halves of 32 bits, none of whose    *)
(* sums overflows.                                                         *)
(***************************************************************************)
THEOREM HalvesAreTheSame ==
    ASSUME NEW v \in UInt64
    PROVE  /\ DivideInHalves(v) = DivideBy10000(v)
           /\ Hi(v) * 3133608140 + Lo(Lo(v) * 429496) + Hi(Lo(v) * 3133608140) \in UInt64
<1> DEFINE h == Hi(v)
           l == Lo(v)
           p == l * 3133608140
           x0 == Hi(p)
           x1 == l * 429496
           s == h * 3133608140 + Lo(x1) + x0
           q == h * 429496 + Hi(s) + Hi(x1)
           a == v * 1844674407370956
<1>1. v \in Nat /\ v <= 18446744073709551615
  BY SMT DEF Between, UInt64
<1>2. h \in Nat /\ l \in Nat /\ l < 4294967296 /\ v = h * 4294967296 + l
  BY SMT, <1>1, Halves
<1>3. h < 4294967296
  <2> HIDE DEF h, l
  <2> QED
    BY SMT, <1>1, <1>2
<1> HIDE DEF h, l
<1>4. p \in Nat /\ x1 \in Nat
  BY SMT, <1>2
<1>5. /\ x0 \in Nat /\ Lo(p) \in Nat /\ Lo(p) < 4294967296
      /\ p = x0 * 4294967296 + Lo(p)
      /\ Hi(x1) \in Nat /\ Lo(x1) \in Nat /\ Lo(x1) < 4294967296
      /\ x1 = Hi(x1) * 4294967296 + Lo(x1)
  <2> HIDE DEF p, x1
  <2> QED
    BY SMT, <1>4, Halves
<1>6. x0 = Hi(p) /\ p = l * 3133608140 /\ x1 = l * 429496 /\ a = v * 1844674407370956
      /\ s = h * 3133608140 + Lo(x1) + x0
      /\ q = h * 429496 + Hi(s) + Hi(x1)
  BY SMT
<1>7. s \in Nat
  <2> HIDE DEF x0, x1
  <2> QED
    BY SMT, <1>2, <1>5
<1>8. Hi(s) \in Nat /\ Lo(s) \in Nat /\ Lo(s) < 4294967296 /\ s = Hi(s) * 4294967296 + Lo(s)
  <2> HIDE DEF s
  <2> QED
    BY SMT, <1>7, Halves
<1>9. /\ s <= 18446744073709551615
      /\ q * 18446744073709551616 <= a /\ a < (q + 1) * 18446744073709551616
  <2> DEFINE pl == Lo(p)
             yh == Hi(x1)
             yl == Lo(x1)
             sh == Hi(s)
             sl == Lo(s)
  <2> HIDE DEF a, p, x1, q, s, x0
  <2>1. /\ x0 \in Nat /\ pl \in Nat /\ pl < 4294967296 /\ p = x0 * 4294967296 + pl
        /\ yh \in Nat /\ yl \in Nat /\ yl < 4294967296 /\ x1 = yh * 4294967296 + yl
        /\ sh \in Nat /\ sl \in Nat /\ sl < 4294967296 /\ s = sh * 4294967296 + sl
    BY SMT, <1>5, <1>8
  <2>2. p = l * 3133608140 /\ x1 = l * 429496 /\ a = v * 1844674407370956
        /\ s = h * 3133608140 + yl + x0
        /\ q = h * 429496 + sh + yh
    BY SMT, <1>6
  <2> HIDE DEF pl, yh, yl, sh, sl
  <2>3. s <= 18446744073709551615
    BY SMT, <1>2, <1>3, <2>1, <2>2
  <2> QED
    BY SMT, <1>2, <1>3, <2>1, <2>2, <2>3
<1>10. a \div 18446744073709551616 = q
  <2>1. a \in Int
    BY SMT, <1>1
  <2>2. q \in Int
    <3> HIDE DEF s, x1
    <3> QED
      BY SMT, <1>2, <1>5, <1>8
  <2> HIDE DEF a, q
  <2> QED
    BY SMT, <1>9, <2>1, <2>2, Quotient
<1> QED
  <2>1. DivideInHalves(v) = q
    BY SMT DEF DivideInHalves, h, l
  <2>2. DivideBy10000(v) = a \div 18446744073709551616
    BY SMT DEF DivideBy10000
  <2>3. s \in UInt64
    <3> HIDE DEF s
    <3> QED
      BY SMT, <1>7, <1>9 DEF Between, UInt64
  <2>4. s = Hi(v) * 3133608140 + Lo(Lo(v) * 429496) + Hi(Lo(v) * 3133608140)
    BY SMT DEF h, l
  <2> HIDE DEF q, a, s
  <2> QED
    BY SMT, <1>10, <2>1, <2>2, <2>3, <2>4

(***************************************************************************)
(* _MCF_utc_now returns the millisecond of the clock, or the one after it. *)
(***************************************************************************)
COROLLARY UtcNowIsClose ==
    ASSUME NEW f \in Between(116444736000000000, 9223372036854775807)
    PROVE  UtcNow(f) \in {(f - 116444736000000000) \div 10000,
                          ((f - 116444736000000000) \div 10000) + 1}
<1>1. f - 116444736000000000 \in UInt64
  BY SMT DEF Between, UInt64
<1> QED
  BY SMT, <1>1, DivisionIsClose DEF UtcNow

-----------------------------------------------------------------------------
(* Nanoseconds *)

(***************************************************************************)
(* Milliseconds are those that a program has asked for, rounded up: no     *)
(* wait is shorter than that, nor longer by a millisecond, unless it is    *)
(* longer than can be told.  A time that has not passed is never taken for *)
(* zero, with which the primitives would not wait at all.                  *)
(***************************************************************************)
THEOREM RoundedUp ==
    ASSUME NEW ns \in Int
    PROVE  /\ Clamped(ns) \in Between(0, MaxMs)
           /\ Clamped(ns) = 0 <=> ns <= 0
           /\ ns > 0 /\ Clamped(ns) < MaxMs =>
                 /\ ns <= Clamped(ns) * 1000000
                 /\ Clamped(ns) * 1000000 < ns + 1000000
<1>1. CASE ns <= 0
  BY SMT, <1>1 DEF Between, Clamped, MaxMs
<1>2. CASE ns > 0
  <2> DEFINE v == ns + 999999
             q == v \div 1000000
  <2>1. q \in Nat /\ q * 1000000 <= v /\ v < q * 1000000 + 1000000
    <3>1. v \in Nat
      BY SMT, <1>2
    <3> HIDE DEF v
    <3> QED
      BY SMT, <3>1, Millions
  <2>2. Clamped(ns) = Smaller(q, MaxMs)
    BY SMT, <1>2 DEF Clamped
  <2> HIDE DEF q
  <2>3. q > 0 /\ ns <= q * 1000000 /\ q * 1000000 < ns + 1000000
    BY SMT, <1>2, <2>1
  <2> QED
    BY SMT, <1>2, <2>1, <2>2, <2>3 DEF Between, Smaller, MaxMs
<1> QED
  BY SMT, <1>1, <1>2

-----------------------------------------------------------------------------
(* The timeout of a wait *)

(***************************************************************************)
(* The kinds of timeouts, of which KeyedWait and all models above know.    *)
(***************************************************************************)
KindOf(li) ==
    IF li = Infinite THEN "inf"
    ELSE IF li > 0 THEN "abs" ELSE IF li < 0 THEN "rel" ELSE "zero"

(***************************************************************************)
(* The limits of __MCF_initialize_winnt_timeout_v3 keep every timeout      *)
(* within 64 bits, and its sign as the assertions say.  What is finite     *)
(* within the limits does not become infinite, and what is beyond them is. *)
(***************************************************************************)
THEOREM InitializedFits ==
    ASSUME NEW ms \in Int64, NEW now \in Nat
    PROVE  /\ Initialized(ms, now).li \in Int64
           /\ KindOf(Initialized(ms, now).li) =
                 IF ms > 910692730085477 \/ ms < -922337203685477 THEN "inf" ELSE KindOf(ms)
<1> DEFINE to == Initialized(ms, now)
<1>1. CASE ms > 910692730085477 \/ ms < -922337203685477
  <2>1. to.li = Infinite
    BY SMT, <1>1 DEF Initialized, Forever
  <2> QED
    BY SMT, <1>1, <2>1 DEF Between, Infinite, KindOf, Int64
<1>2. CASE ms <= 910692730085477 /\ ms > 0
  <2>1. to.li = (11644473600000 + ms) * 10000
    BY SMT, <1>2 DEF Between, Initialized, Int64
  <2> QED
    BY SMT, <1>2, <2>1 DEF Between, Infinite, KindOf, Int64
<1>3. CASE ms >= -922337203685477 /\ ms < 0
  <2>1. to.li = ms * 10000
    BY SMT, <1>3 DEF Between, Initialized, Int64
  <2> QED
    BY SMT, <1>3, <2>1 DEF Between, Infinite, KindOf, Int64
<1>4. CASE ms = 0
  <2>1. to.li = 0
    BY SMT, <1>4 DEF Between, Initialized, Int64
  <2> QED
    BY SMT, <1>4, <2>1 DEF Between, Infinite, KindOf, Int64
<1> QED
  <2>1. ms \in Int
    BY SMT DEF Between, Int64
  <2> QED
    BY SMT, <1>1, <1>2, <1>3, <1>4, <2>1

(***************************************************************************)
(* An absolute timeout is the same time in the kernel's units.             *)
(***************************************************************************)
THEOREM InitializedIsThatTime ==
    ASSUME NEW ms \in Between(1, 910692730085477), NEW now \in Nat
    PROVE  Initialized(ms, now).li - 116444736000000000 = ms * 10000
BY SMT DEF Between, Initialized

(***************************************************************************)
(* When a relative wait will be over.                                      *)
(***************************************************************************)
Deadline(to) == to.since - to.li

Clock == Between(0, 9223372036854775807)

(***************************************************************************)
(* A thread that has been woken in vain waits until the same time as       *)
(* before, and not at all when it has passed, however often this happens;  *)
(* and the sum in __MCF_adjust_winnt_timeout_v3 stays within 64 bits.      *)
(***************************************************************************)
THEOREM AdjustmentKeepsDeadline ==
    ASSUME NEW to, NEW li \in Int64, NEW since \in Clock, NEW now \in Clock,
           to = [li |-> li, since |-> since], li < 0, since <= now
    PROVE  /\ li + (now - since) \in Int64
           /\ now < Deadline(to) => /\ AdjustedTo(to, now).li < 0
                                    /\ Deadline(AdjustedTo(to, now)) = Deadline(to)
           /\ now >= Deadline(to) => AdjustedTo(to, now).li = 0
<1> DEFINE rest == li + (now - since)
<1>1. rest \in Int64
  BY SMT DEF Between, Int64, Clock
<1>2. AdjustedTo(to, now) = [li |-> Smaller(rest, 0), since |-> now]
  BY SMT DEF Between, AdjustedTo, Int64
<1>3. Deadline(to) = since - li
  BY SMT DEF Deadline
<1>4. ASSUME now < Deadline(to)
      PROVE  /\ AdjustedTo(to, now).li < 0
             /\ Deadline(AdjustedTo(to, now)) = Deadline(to)
  <2>1. rest < 0 /\ now - rest = since - li
    BY SMT, <1>3, <1>4 DEF Between, Int64, Clock
  <2> HIDE DEF rest
  <2>2. AdjustedTo(to, now) = [li |-> rest, since |-> now]
    BY SMT, <1>2, <2>1 DEF Smaller
  <2>3. AdjustedTo(to, now).li = rest /\ Deadline(AdjustedTo(to, now)) = now - rest
    BY SMT, <2>2 DEF Deadline
  <2> QED
    BY SMT, <1>3, <2>1, <2>3
<1>5. ASSUME now >= Deadline(to)
      PROVE  AdjustedTo(to, now).li = 0
  <2>1. ~(rest < 0)
    BY SMT, <1>3, <1>5 DEF Between, Int64, Clock
  <2> HIDE DEF rest
  <2> QED
    BY SMT, <1>2, <2>1 DEF Smaller
<1> QED
  BY SMT, <1>1, <1>4, <1>5

(***************************************************************************)
(* While the process shuts down, a wait that has been asked for in         *)
(* milliseconds goes on exactly when it ends within three seconds of the   *)
(* system's clock, with the limits and the epoch of the one function and   *)
(* those of the other; an endless one, and one that is beyond the limits,  *)
(* does not.                                                               *)
(***************************************************************************)
THEOREM ShutdownLimit ==
    ASSUME NEW ms \in Int64, NEW now \in Nat,
           NEW filetime \in Nat, filetime + 30000000 < Infinite
    PROVE  /\ IsSafe(Initialized(ms, now), filetime) <=>
                 \/ ms \in Between(-3000, 0)
                 \/ ms > 0 /\ ms * 10000 <= (filetime - 116444736000000000) + 30000000
           /\ ~IsSafe(Forever, filetime)
<1> DEFINE to == Initialized(ms, now)
<1>1. ~IsSafe(Forever, filetime)
  BY SMT DEF IsSafe, Forever, Infinite, Between
<1>2. CASE ms > 910692730085477 \/ ms < -922337203685477
  <2>1. to = Forever
    BY SMT, <1>2 DEF Initialized
  <2>2. ~(ms > 0 /\ ms * 10000 <= (filetime - 116444736000000000) + 30000000)
    BY SMT, <1>2 DEF Between, Int64, Infinite
  <2>3. ms \notin Between(-3000, 0)
    BY SMT, <1>2 DEF Between
  <2> QED
    BY <1>1, <2>1, <2>2, <2>3
<1>3. CASE ms <= 910692730085477 /\ ms > 0
  <2>1. to.li = (11644473600000 + ms) * 10000
    BY SMT, <1>3 DEF Between, Initialized, Int64
  <2> QED
    BY SMT, <1>1, <1>3, <2>1 DEF IsSafe, Between, Int64
<1>4. CASE ms >= -922337203685477 /\ ms < 0
  <2>1. to.li = ms * 10000
    BY SMT, <1>4 DEF Between, Initialized, Int64
  <2> QED
    BY SMT, <1>1, <1>4, <2>1 DEF IsSafe, Between, Int64
<1>5. CASE ms = 0
  <2>1. to.li = 0
    BY SMT, <1>5 DEF Initialized
  <2> QED
    BY SMT, <1>1, <1>5, <2>1 DEF IsSafe, Between
<1> QED
  BY SMT, <1>2, <1>3, <1>4, <1>5 DEF Between, Int64

(***************************************************************************)
(* The kinds are adjusted as KeyedWait says: only a relative timeout may   *)
(* become zero.                                                            *)
(***************************************************************************)
THEOREM AdjustmentOfKinds ==
    ASSUME NEW to, NEW li \in Int64, NEW since \in Clock, NEW now \in Clock,
           to = [li |-> li, since |-> since], since <= now
    PROVE  KindOf(AdjustedTo(to, now).li) \in Adjusted(KindOf(li))
<1>1. CASE li >= 0
  <2>1. AdjustedTo(to, now).li = li
    BY SMT, <1>1 DEF AdjustedTo
  <2>2. KindOf(li) # "rel"
    BY SMT, <1>1 DEF Between, KindOf, Infinite, Int64
  <2> QED
    BY SMT, <2>1, <2>2 DEF Adjusted
<1>2. CASE li < 0
  <2>1. KindOf(li) = "rel"
    BY SMT, <1>2 DEF Between, KindOf, Infinite, Int64
  <2>2. Deadline(to) \in Int
    BY SMT DEF Between, Deadline, Int64, Clock
  <2>3. AdjustedTo(to, now).li < 0 \/ AdjustedTo(to, now).li = 0
    <3>1. now < Deadline(to) \/ now >= Deadline(to)
      BY SMT, <2>2 DEF Between, Clock
    <3> QED
      BY SMT, <1>2, <3>1, AdjustmentKeepsDeadline
  <2>4. AdjustedTo(to, now).li \in Int
    <3>1. AdjustedTo(to, now).li = Smaller(li + (now - since), 0)
      BY SMT, <1>2 DEF Between, AdjustedTo, Int64
    <3> QED
      BY SMT, <3>1 DEF Between, Smaller, Int64, Clock
  <2>5. KindOf(AdjustedTo(to, now).li) \in {"rel", "zero"}
    BY SMT, <2>3, <2>4 DEF KindOf, Infinite
  <2> QED
    BY SMT, <2>1, <2>5 DEF Adjusted
<1> QED
  BY SMT, <1>1, <1>2 DEF Between, Int64
=============================================================================
