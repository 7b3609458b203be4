-------------------------------- MODULE Tls ---------------------------------
(***************************************************************************)
(* Thread-local values: tls.h, src/tls.c and the loop over destructors in  *)
(* src/xglobals.c.                                                         *)
(*                                                                         *)
(* Each thread has a table of its own, a hash table with linear probing.   *)
(* Keys are shared: they are counted, are freed when nobody refers to      *)
(* them, and another key may then have the same address.  Any thread may   *)
(* delete a key while others have it in their tables, or are moving their  *)
(* tables to larger storage, which is not one step here.                   *)
(***************************************************************************)
EXTENDS Integers, Sequences, FiniteSetsExt

CONSTANTS
    Thread,     \* threads
    Addr,       \* addresses of keys, in units of pointers
    NoKey,      \* __key_opt of an empty element
    Value,      \* values that are not null
    Null,
    Golden,     \* 0x9E3779B9
    Radix,      \* 2^32
    Base, Step, \* 17 and 3
    Slack,      \* what __MCF_msize may give beyond what has been asked for
    MaxOwn,     \* bound on the references that the program holds to each key
    Programs    \* bound: which keys the code of each thread may use

ASSUME FinitelyMany == IsFiniteSet(Thread)
ASSUME AddrAssumption == Addr \subseteq Nat /\ NoKey \notin Addr
ASSUME ValueAssumption == Null \notin Value
ASSUME HashAssumption == Golden \in Nat /\ Radix \in Nat \ {0}
ASSUME CapacityAssumption ==
    Base \in Nat /\ Base >= 2 /\ Step \in Nat /\ Step >= 2 /\ Slack \subseteq Nat
ASSUME ProgramsAssumption == Programs \subseteq [Thread -> SUBSET Addr]
ASSUME MaxOwnAssumption == MaxOwn \in [Addr -> Nat \ {0}]

VARIABLES
    nref,       \* __nref of each key, 0 when the memory is not a key
    deleted,    \* __deleted
    own,        \* how many of the references belong to the program
    table,      \* __begin to __end
    size,       \* __size_hint
    old,        \* the storage that __MCF_tls_table_xset is moving out of
    call,       \* what each thread is doing
    hint,       \* __hint of its popped element
    exiting,    \* threads in __MCF_gthread_on_thread_exit
    uses        \* one of Programs

keyVars == <<nref, deleted, own>>
tableVars == <<table, size, old>>
vars == <<nref, deleted, own, table, size, old, call, hint, exiting, uses>>

Nil == [key |-> NoKey, val |-> Null]

Idle == [at |-> "idle", key |-> NoKey, val |-> Null, cleanup |-> FALSE]

-----------------------------------------------------------------------------
(* The table *)

Keys(tb) == {tb[i].key : i \in DOMAIN tb} \ {NoKey}

(***************************************************************************)
(* Where the search for a key starts in n elements, from 0, and the i-th   *)
(* element after that, from 1.                                             *)
(***************************************************************************)
Origin(n, a) == (n * ((a * Golden) % Radix)) \div Radix

Turn(n, a, i) == ((Origin(n, a) + i) % n) + 1

(***************************************************************************)
(* do_linear_probe_nonempty: the element of the key, or the first empty    *)
(* one.                                                                    *)
(***************************************************************************)
Probe(tb, a) ==
    LET Stops(i) == tb[Turn(Len(tb), a, i)].key \in {a, NoKey}
    IN  Turn(Len(tb), a,
             CHOOSE i \in 0 .. Len(tb) - 1 : Stops(i) /\ \A j \in 0 .. i - 1 : ~Stops(j))

(***************************************************************************)
(* __MCF_tls_table_get.                                                    *)
(***************************************************************************)
Get(tb, a) == IF deleted[a] \/ tb = <<>> THEN Null ELSE tb[Probe(tb, a)].val

-----------------------------------------------------------------------------
Init ==
    /\ nref = [a \in Addr |-> 0]
    /\ deleted = [a \in Addr |-> FALSE]
    /\ own = [a \in Addr |-> 0]
    /\ table = [t \in Thread |-> <<>>]
    /\ size = [t \in Thread |-> 0]
    /\ old = [t \in Thread |-> <<>>]
    /\ call = [t \in Thread |-> Idle]
    /\ hint = [t \in Thread |-> 0]
    /\ exiting = {}
    /\ uses \in Programs

-----------------------------------------------------------------------------
(* Keys *)

KeyNew(a) ==
    /\ nref[a] = 0
    /\ \E t \in Thread : a \in uses[t]
    /\ nref' = [nref EXCEPT ![a] = 1]
    /\ deleted' = [deleted EXCEPT ![a] = FALSE]
    /\ own' = [own EXCEPT ![a] = 1]
    /\ UNCHANGED <<tableVars, call, hint, exiting>>

(***************************************************************************)
(* The program may use a key while it has a reference, and a thread also   *)
(* while its table has one.  It does not give up its last reference when a *)
(* call needs it.  The reference of the table of the call is not enough    *)
(* when the table is to grow: if the key is deleted then, it is dropped.   *)
(***************************************************************************)
MayUse(t, a) == a \in uses[t] /\ (own[a] > 0 \/ a \in Keys(table[t]))

MayDrop(a) ==
    /\ own[a] > 0
    /\ own[a] = 1 =>
          \A t \in Thread :
              call[t].key = a => a \in Keys(table[t]) /\ call[t].at # "grow"

AddRef(a) ==
    /\ own[a] \in 1 .. MaxOwn[a] - 1
    /\ nref' = [nref EXCEPT ![a] = @ + 1]
    /\ own' = [own EXCEPT ![a] = @ + 1]
    /\ UNCHANGED <<deleted, tableVars, call, hint, exiting>>

DropRef(a) ==
    /\ MayDrop(a)
    /\ nref' = [nref EXCEPT ![a] = @ - 1]
    /\ own' = [own EXCEPT ![a] = @ - 1]
    /\ UNCHANGED <<deleted, tableVars, call, hint, exiting>>

KeyDelete(a) ==
    /\ MayDrop(a)
    /\ deleted' = [deleted EXCEPT ![a] = TRUE]
    /\ nref' = [nref EXCEPT ![a] = @ - 1]
    /\ own' = [own EXCEPT ![a] = @ - 1]
    /\ UNCHANGED <<tableVars, call, hint, exiting>>

-----------------------------------------------------------------------------
(* __MCF_tls_table_xset *)

Goes(t, at) == call' = [call EXCEPT ![t].at = at]

Returns(t) == call' = [call EXCEPT ![t] = Idle]

(***************************************************************************)
(* A function that sets a value returns 0, -1 or -2.                       *)
(***************************************************************************)
Result == {"0", "-1", "-2"}

Gives(t, code) == call' = [call EXCEPT ![t] = [Idle EXCEPT !.at = code]]

Popped(a, v) == [at |-> "popped", key |-> a, val |-> v, cleanup |-> FALSE]

\* Fault: one element more before the table grows.
IsOverfull(t) == table[t] = <<>> \/ size[t] > Len(table[t]) \div 2

IsFull(t) == size[t] >= Len(table[t]) \div 2

(***************************************************************************)
(* The functions that set values: which ones, and whether the old value is *)
(* destroyed, as thread_specific_ptr does.                                 *)
(***************************************************************************)
gthr_setspecific == [values |-> Value \cup {Null}, cleanup |-> FALSE]
libcxx_tls_set == [values |-> Value \cup {Null}, cleanup |-> FALSE]
tss_set == [values |-> Value \cup {Null}, cleanup |-> FALSE]
ptr_reset == [values |-> Value \cup {Null}, cleanup |-> TRUE]
ptr_release == [values |-> {Null}, cleanup |-> FALSE]

Setters == {gthr_setspecific, libcxx_tls_set, tss_set, ptr_reset, ptr_release}

(***************************************************************************)
(* Setting fails at once when the key has been deleted, and there is       *)
(* nothing to do when null is set in an empty table.                       *)
(***************************************************************************)
CallSet(t, a, v, cleanup) ==
    /\ call[t] = Idle
    /\ \E f \in Setters : v \in f.values /\ cleanup = f.cleanup
    /\ MayUse(t, a)
    /\ \/ /\ deleted[a]
          /\ Gives(t, "-1")
       \/ /\ ~deleted[a] /\ v = Null /\ table[t] = <<>>
          /\ Gives(t, "0")
       \/ /\ ~deleted[a] /\ (v # Null \/ table[t] # <<>>)
          /\ call' = [call EXCEPT ![t] =
                 [at |-> IF v # Null /\ IsFull(t) THEN "grow" ELSE "insert", key |-> a,
                  val |-> v, cleanup |-> cleanup]]
    /\ UNCHANGED <<keyVars, tableVars, hint, exiting>>

SetReturns(t) ==
    /\ call[t].at \in Result
    /\ Returns(t)
    /\ UNCHANGED <<keyVars, tableVars, hint, exiting>>

(***************************************************************************)
(* The keys that are not deleted are counted for the capacity.  When       *)
(* memory is out, nothing has changed.                                     *)
(***************************************************************************)
Active(tb) == Cardinality({i \in DOMAIN tb : tb[i].key # NoKey /\ ~deleted[tb[i].key]})

Allocate(t) ==
    /\ call[t].at = "grow"
    /\ \E more \in Slack :
          table' = [table EXCEPT ![t] =
              [i \in 1 .. Base + Step * Active(table[t]) + more |-> Nil]]
    /\ old' = [old EXCEPT ![t] = table[t]]
    /\ size' = [size EXCEPT ![t] = 0]
    /\ Goes(t, "move")
    /\ UNCHANGED <<keyVars, hint, exiting>>

\* Fault: it is not said that there is no memory.
FailsSilently(t) ==
    /\ call[t].at = "grow"
    /\ Gives(t, "0")
    /\ UNCHANGED <<keyVars, tableVars, hint, exiting>>

AllocateFails(t) ==
    /\ call[t].at = "grow"
    /\ Gives(t, "-2")
    /\ UNCHANGED <<keyVars, tableVars, hint, exiting>>

(***************************************************************************)
(* One element of the old storage, from its end, is moved, or dropped if   *)
(* its key has been deleted by now.                                        *)
(***************************************************************************)
Left(t) == {i \in DOMAIN old[t] : old[t][i].key # NoKey}

Moving(t) == old[t][Max(Left(t))]

TakesLast(t) ==
    /\ call[t].at = "move"
    /\ Left(t) # {}
    /\ old' = [old EXCEPT ![t] = SubSeq(@, 1, Max(Left(t)) - 1)]

DropDeleted(t) ==
    /\ TakesLast(t)
    /\ deleted[Moving(t).key]
    /\ nref' = [nref EXCEPT ![Moving(t).key] = @ - 1]
    /\ UNCHANGED <<deleted, own, table, size, call, hint, exiting>>

Relocate(t) ==
    /\ TakesLast(t)
    /\ ~deleted[Moving(t).key]
    /\ table' = [table EXCEPT ![t][Probe(table[t], Moving(t).key)] = Moving(t)]
    /\ size' = [size EXCEPT ![t] = @ + 1]
    /\ UNCHANGED <<keyVars, call, hint, exiting>>

(***************************************************************************)
(* The element of the key takes the value.  An empty one takes the key,    *)
(* too, with a reference, unless the value is null.  Old storage is empty  *)
(* by now and is freed.  The old value is passed back, to be destroyed.    *)
(***************************************************************************)
Insert(t) ==
    LET a == call[t].key
        i == Probe(table[t], a)
        new == table[t][i].key = NoKey
        oldValue == table[t][i].val
    IN  /\ call[t].at \in {"move", "insert"}
        /\ Left(t) = {}
        /\ IF new /\ call[t].val = Null
           THEN UNCHANGED <<nref, table, size>>
           ELSE /\ table' = [table EXCEPT ![t][i] = [key |-> a, val |-> call[t].val]]
                /\ nref' = [nref EXCEPT ![a] = IF new THEN @ + 1 ELSE @]
                /\ size' = [size EXCEPT ![t] = IF new THEN @ + 1 ELSE @]
        /\ old' = [old EXCEPT ![t] = <<>>]
        /\ IF call[t].cleanup /\ oldValue # Null
           THEN call' = [call EXCEPT ![t] = Popped(a, oldValue)]
           ELSE Gives(t, "0")
        /\ UNCHANGED <<deleted, own, hint, exiting>>

-----------------------------------------------------------------------------
(* __MCF_gthread_on_thread_exit and __MCF_tls_table_pop *)

\* The hint is not initialized.  A thread without keys has nothing to do.
BeginExit(t) ==
    /\ call[t] = Idle
    /\ t \notin exiting
    /\ uses[t] # {}
    /\ exiting' = exiting \cup {t}
    /\ \E h \in 0 .. Len(table[t]) : hint' = [hint EXCEPT ![t] = h]
    /\ Goes(t, "pop")
    /\ UNCHANGED <<keyVars, tableVars>>

(***************************************************************************)
(* Elements whose destructors are still to be called, in the order of the  *)
(* search, which starts after the element that was popped last.            *)
(***************************************************************************)
Due(t) ==
    {i \in DOMAIN table[t] : table[t][i].val # Null /\ ~deleted[table[t][i].key]}

Rank(t, i) ==
    LET n == Len(table[t])
        start == IF hint[t] < n THEN hint[t] + 1 ELSE 0
    IN  IF i > start THEN i ELSE i + n

(***************************************************************************)
(* An element is popped, its value reset and its destructor called, which  *)
(* may do what any code may.                                               *)
(***************************************************************************)
Pop(t) ==
    /\ call[t].at = "pop"
    /\ \E i \in Due(t) :
          /\ \A j \in Due(t) : Rank(t, i) <= Rank(t, j)
          /\ call' = [call EXCEPT ![t] = Popped(table[t][i].key, table[t][i].val)]
          /\ table' = [table EXCEPT ![t][i].val = Null]
          /\ hint' = [hint EXCEPT ![t] = i - 1]
    /\ UNCHANGED <<keyVars, size, old, exiting>>

CallDtor(t) ==
    /\ call[t].at = "popped"
    /\ Returns(t)
    /\ UNCHANGED <<keyVars, tableVars, hint, exiting>>

DtorReturns(t) ==
    /\ call[t] = Idle
    /\ t \in exiting
    /\ Goes(t, "pop")
    /\ UNCHANGED <<keyVars, tableVars, hint, exiting>>

(***************************************************************************)
(* Nothing is left, so the references to the keys are dropped and the      *)
(* storage is freed.  Another thread may have the same name afterwards.    *)
(***************************************************************************)
\* Fault: the storage is freed, but not the references.
CloseLeaks(t) ==
    /\ call[t].at = "pop"
    /\ Due(t) = {}
    /\ table' = [table EXCEPT ![t] = <<>>]
    /\ size' = [size EXCEPT ![t] = 0]
    /\ hint' = [hint EXCEPT ![t] = 0]
    /\ exiting' = exiting \ {t}
    /\ Returns(t)
    /\ UNCHANGED <<keyVars, old>>

Close(t) ==
    /\ call[t].at = "pop"
    /\ Due(t) = {}
    /\ nref' = [a \in Addr |-> IF a \in Keys(table[t]) THEN nref[a] - 1 ELSE nref[a]]
    /\ table' = [table EXCEPT ![t] = <<>>]
    /\ size' = [size EXCEPT ![t] = 0]
    /\ hint' = [hint EXCEPT ![t] = 0]
    /\ exiting' = exiting \ {t}
    /\ Returns(t)
    /\ UNCHANGED <<deleted, own, old>>

-----------------------------------------------------------------------------
OfKeys(a) == KeyNew(a) \/ AddRef(a) \/ DropRef(a) \/ KeyDelete(a)

OfTables(t) ==
    \/ \E a \in Addr, v \in Value \cup {Null}, cleanup \in BOOLEAN : CallSet(t, a, v, cleanup)
    \/ SetReturns(t)
    \/ Allocate(t) \/ AllocateFails(t)
    \/ DropDeleted(t) \/ Relocate(t) \/ Insert(t)
    \/ BeginExit(t) \/ Pop(t) \/ CallDtor(t) \/ DtorReturns(t) \/ Close(t)

Next ==
    \/ \E a \in Addr : OfKeys(a) /\ UNCHANGED uses
    \/ \E t \in Thread : OfTables(t) /\ UNCHANGED uses

Spec == Init /\ [][Next]_vars

-----------------------------------------------------------------------------
(* Properties *)

At == {"idle", "grow", "move", "insert", "pop", "popped"} \cup Result

Storage == Seq([key : Addr \cup {NoKey}, val : Value \cup {Null}])

TypeOK ==
    /\ nref \in [Addr -> Nat]
    /\ deleted \in [Addr -> BOOLEAN]
    /\ own \in [Addr -> Nat]
    /\ table \in [Thread -> Storage]
    /\ size \in [Thread -> Nat]
    /\ old \in [Thread -> Storage]
    /\ call \in [Thread -> [at : At, key : Addr \cup {NoKey}, val : Value \cup {Null},
                         cleanup : BOOLEAN]]
    /\ hint \in [Thread -> Nat]
    /\ exiting \in SUBSET Thread
    /\ uses \in Programs

(***************************************************************************)
(* A key is counted once for each table that it is in, whichever storage   *)
(* it is in while a table grows, and once for each reference of the        *)
(* program.  So no table ever holds a key that has been freed, and every   *)
(* key is freed in the end.  Nor does a call refer to a freed key, also    *)
(* when it drops the reference of its own table.                           *)
(***************************************************************************)
InTable(t, a) == a \in Keys(table[t]) \cup Keys(old[t])

RefsCounted ==
    /\ \A a \in Addr : nref[a] = own[a] + Cardinality({t \in Thread : InTable(t, a)})
    /\ \A t \in Thread : call[t].key # NoKey => nref[call[t].key] > 0

(***************************************************************************)
(* No more than half of a table is in use, each key has one element, and   *)
(* __size_hint says how many there are: the search always ends, although   *)
(* keys are deleted between the count and the moves.                       *)
(***************************************************************************)
HalfEmpty ==
    \A t \in Thread :
        LET used == {i \in DOMAIN table[t] : table[t][i].key # NoKey}
        IN  /\ size[t] = Cardinality(used)
            /\ 2 * size[t] <= Len(table[t])
            /\ \A i, j \in used : table[t][i].key = table[t][j].key => i = j

(***************************************************************************)
(* The tables behave like a map: what __MCF_tls_table_get finds is what    *)
(* was set last for this key with success, also when keys collide, when a  *)
(* table has grown, and when a key has the address of another one that has *)
(* been deleted; to set a value fails only when the key has been deleted,  *)
(* and then it does, or when memory is out; and a thread that ends forgets *)
(* no value.                                                               *)
(***************************************************************************)
Seen(t, a) ==
    IF nref[a] = 0 \/ deleted[a] THEN Null
    ELSE IF a \in Keys(old[t])
         THEN (CHOOSE e \in {old[t][i] : i \in DOMAIN old[t]} : e.key = a).val
         ELSE Get(table[t], a)

SeenCall(t) ==
    CASE call[t].at = "popped" -> <<"dtor", call[t].key>>
      [] call[t].at \in {"grow", "move", "insert"} ->
            <<IF call[t].cleanup THEN "reset" ELSE "set", call[t].key, call[t].val>>
      [] call[t].at \in Result -> <<call[t].at>>
      [] OTHER -> <<>>

Values == [t \in Thread |-> [a \in Addr |-> Seen(t, a)]]

Calls == [t \in Thread |-> SeenCall(t)]

Deleted == {a \in Addr : deleted[a]}

Map == INSTANCE TlsMap WITH Key <- Addr, value <- Values, call <- Calls, deleted <- Deleted

IsTlsMap == Map!Spec
=============================================================================
