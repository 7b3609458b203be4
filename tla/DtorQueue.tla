----------------------------- MODULE DtorQueue ------------------------------
(***************************************************************************)
(* __MCF_dtor_queue: dtor_queue.h and src/dtor_queue.c.                    *)
(*                                                                         *)
(* A queue is a chain of blocks, the current one first; within a block the *)
(* oldest element is first.  The current block is part of the queue itself *)
(* and the others are on the heap.  Moving the content of a block into the *)
(* current one and freeing it is the same as dropping the empty current    *)
(* block from the chain.                                                   *)
(***************************************************************************)
EXTENDS Integers, Sequences, FiniteSets

CONSTANTS
    Capacity,   \* elements in a block: 63
    NoDso       \* the null handle

ASSUME CapacityAssumption == Capacity \in Nat \ {0}

EmptyQueue == <<<<>>>>

Matches(e, d) == d = NoDso \/ e.dso = d

Positions(b, d) == {i \in DOMAIN b : Matches(b[i], d)}

\* Fault: the oldest element is taken.
OldestIn(b, d) == CHOOSE i \in Positions(b, d) : \A j \in Positions(b, d) : i <= j

NewestIn(b, d) == CHOOSE i \in Positions(b, d) : \A j \in Positions(b, d) : j <= i

(***************************************************************************)
(* __MCF_dtor_queue_reserve_and_push.  A new block is needed when fewer    *)
(* than n places are left; without memory for it nothing is pushed.        *)
(***************************************************************************)
NeedsBlock(q, n) == n > Capacity - Len(q[1])

\* Fault: the chain is cut where a new block begins.
PushedAlone(q, n, e) ==
    IF NeedsBlock(q, n) THEN <<<<e>>>> ELSE [q EXCEPT ![1] = Append(@, e)]

Pushed(q, n, e) ==
    IF NeedsBlock(q, n) THEN <<<<e>>>> \o q ELSE [q EXCEPT ![1] = Append(@, e)]

(***************************************************************************)
(* What is left of a sequence when the elements at the positions in `kept` *)
(* move together.                                                          *)
(***************************************************************************)
Kept(s, kept) ==
    LET Rank(i) == Cardinality({j \in kept : j <= i})
    IN  [n \in 1 .. Cardinality(kept) |-> s[CHOOSE i \in kept : Rank(i) = n]]

Without(b, out) == Kept(b, DOMAIN b \ out)

(***************************************************************************)
(* A search that ends at block k has passed those before it, and the empty *)
(* ones among them have disappeared on the way.  Block k stays even if it  *)
(* is empty, and so the chain always has a last block.                     *)
(***************************************************************************)
Compacted(q, k) == Kept(q, {j \in DOMAIN q : j >= k \/ q[j] # <<>>})

(***************************************************************************)
(* do_pop_element_common for one element: the newest match in the first    *)
(* block that has any.  That block may become empty and stays until the    *)
(* next search.                                                            *)
(***************************************************************************)
\* Fault: the search ends at the current block.
HoldingFirst(q, d) == {k \in {1} : Positions(q[k], d) # {}}

Holding(q, d) == {k \in DOMAIN q : Positions(q[k], d) # {}}

BlockWith(q, d) == CHOOSE k \in Holding(q, d) : \A j \in Holding(q, d) : k <= j

Found(q, d) ==
    LET b == q[BlockWith(q, d)] IN b[NewestIn(b, d)]

Popped(q, d) ==
    IF Holding(q, d) = {} THEN Compacted(q, Len(q))
    ELSE LET k == BlockWith(q, d)
         IN  Compacted([q EXCEPT ![k] = Without(@, {NewestIn(@, d)})], k)

(***************************************************************************)
(* do_pop_element_common for all elements: each block keeps the others.    *)
(***************************************************************************)
Removed(q, d) ==
    Compacted([k \in DOMAIN q |-> Without(q[k], Positions(q[k], d))], Len(q))

(***************************************************************************)
(* The elements of a queue.                                                *)
(***************************************************************************)
Contents(q) == UNION {{q[k][i] : i \in DOMAIN q[k]} : k \in DOMAIN q}
=============================================================================
