------------------------------ MODULE CpuSets -------------------------------
(***************************************************************************)
(* Collections of CPUs (src/cpu_collection.c, cpu_collection.h) and the    *)
(* affinity of a thread (src/thread.c): how a collection is filled and     *)
(* kept sorted, how a CPU is found in it, and how the selection travels to *)
(* the system and back.  One client has one collection; everything is      *)
(* sequential, so a loop is an action per round, and a function that       *)
(* visits every CPU is an action.                                          *)
(***************************************************************************)
EXTENDS Integers

CONSTANTS
    Cap,    \* number of elements that memory is allocated for
    Info    \* what is known of a CPU: group, core and classes

VARIABLES
    pc,         \* what is going on, or "ready", or "freed"
    data,       \* __data
    length,     \* __size
    refs,       \* __nref
    left,       \* how many entries of the system's answer have not been read
    mask,       \* mask_reg, as a set of bits
    cpu, i, k,  \* the entry that is being inserted, and the indices of the sort
    id,         \* the identifier that is being looked for
    bpos, epos, \* the range where it may be
    found,      \* what do_find_cpu_opt returns, as an index
    affinity    \* the CPUs that the system lets the thread run on

coll == <<data, length, refs>>
build == <<left, mask, cpu, i, k>>
search == <<id, bpos, epos, found>>
cpuVars == <<pc, coll, build, search, affinity>>

Slot == 0 .. Cap - 1
Element == [id : Nat, info : Info, selected : BOOLEAN]
NoCpu == -1

Unused == {e \in Element : e.id = 0 /\ ~e.selected}

Present == {data[n].id : n \in 0 .. length - 1}

-----------------------------------------------------------------------------
(* _MCF_cpu_collection_new *)

CpuInit ==
    /\ pc = "new"
    /\ data \in [Slot -> Unused]
    /\ length = 0
    /\ refs = 0
    /\ left \in 0 .. Cap
    /\ mask \in SUBSET Slot
    /\ cpu \in Element
    /\ i = 0 /\ k = 0
    /\ id = 0 /\ bpos = 0 /\ epos = 0 /\ found = NoCpu
    /\ affinity \in SUBSET Nat

(***************************************************************************)
(* Memory is allocated and cleared: for every entry that the answer of     *)
(* GetSystemCpuSetInformation may hold, or, where there is no such         *)
(* function, for every bit of a mask.  The system may fail, or have no     *)
(* memory.                                                                 *)
(***************************************************************************)
NewAllocates ==
    /\ pc = "new"
    /\ pc' \in {"entries", "bits"}
    /\ UNCHANGED <<coll, build, search, affinity>>

NewFails ==
    /\ pc = "new"
    /\ pc' = "freed"
    /\ UNCHANGED <<coll, build, search, affinity>>

(***************************************************************************)
(* An entry that does not describe a CPU is skipped.  The system names no  *)
(* CPU twice, and may name them in any order.                              *)
(***************************************************************************)
SkipEntry ==
    /\ pc = "entries" /\ left > 0
    /\ left' = left - 1
    /\ UNCHANGED <<pc, coll, mask, cpu, i, k, search, affinity>>

ReadEntry ==
    /\ pc = "entries" /\ left > 0
    /\ cpu' \in {e \in Element : e.id \notin Present /\ ~e.selected}
    /\ i' = length
    /\ k' = length
    /\ left' = left - 1
    /\ pc' = "shift"
    /\ UNCHANGED <<coll, mask, search, affinity>>

IsAbove == i # 0 /\ data[i - 1].id > cpu.id

Shift ==
    /\ pc = "shift" /\ IsAbove
    /\ data' = [data EXCEPT ![k] = data[i - 1]]
    /\ k' = k - 1
    /\ i' = i - 1
    /\ UNCHANGED <<pc, length, refs, left, mask, cpu, search, affinity>>

Place ==
    /\ pc = "shift" /\ ~IsAbove
    /\ data' = [data EXCEPT ![k] = cpu]
    /\ length' = length + 1
    /\ pc' = "entries"
    /\ UNCHANGED <<refs, build, search, affinity>>

(***************************************************************************)
(* Where the system has no CPU sets, the bits of the affinity mask of the  *)
(* process make identifiers, beginning with the lowest.  Then what is      *)
(* known of the cores of this group is filled in.                          *)
(***************************************************************************)
TakeBit ==
    /\ pc = "bits"
    /\ \E b \in mask :
          /\ \A c \in mask : b <= c
          /\ \E info \in Info :
                data' = [data EXCEPT ![length] =
                            [id |-> 256 + b, info |-> info, selected |-> FALSE]]
          /\ mask' = mask \ {b}
    /\ length' = length + 1
    /\ UNCHANGED <<pc, refs, left, cpu, i, k, search, affinity>>

FillCores ==
    /\ pc = "bits" /\ mask = {}
    /\ \E info \in [Slot -> Info] :
          data' = [n \in Slot |-> [data[n] EXCEPT !.info = info[n]]]
    /\ UNCHANGED <<pc, length, refs, build, search, affinity>>

(***************************************************************************)
(* The collection is returned.  There is a CPU that runs this.             *)
(***************************************************************************)
Created ==
    /\ \/ pc = "entries" /\ left = 0
       \/ pc = "bits" /\ mask = {}
    /\ length > 0
    /\ refs' = 1
    /\ pc' = "ready"
    /\ UNCHANGED <<data, length, build, search, affinity>>

-----------------------------------------------------------------------------
(* References *)

AddCollRef ==
    /\ pc = "ready"
    /\ refs' = refs + 1
    /\ UNCHANGED <<pc, data, length, build, search, affinity>>

DropCollRef ==
    /\ pc = "ready"
    /\ refs' = refs - 1
    /\ pc' = IF refs = 1 THEN "freed" ELSE pc
    /\ UNCHANGED <<data, length, build, search, affinity>>

(***************************************************************************)
(* _MCF_cpu_collection_new_copy, with whose result the client goes on.     *)
(***************************************************************************)
NewCopy ==
    /\ pc = "ready"
    /\ refs' = 1
    /\ UNCHANGED <<pc, data, length, build, search, affinity>>

-----------------------------------------------------------------------------
(* do_find_cpu_opt *)

IsConsecutive(x) ==
    x >= 256 /\ x < 256 + length /\ data[x - 256].id = x

Find(x) ==
    /\ pc = "ready"
    /\ id' = x
    /\ IF IsConsecutive(x)
       THEN pc' = "found" /\ found' = x - 256 /\ UNCHANGED <<bpos, epos>>
       ELSE pc' = "search" /\ bpos' = 0 /\ epos' = length /\ UNCHANGED found
    /\ UNCHANGED <<coll, build, affinity>>

Mid == bpos + ((epos - bpos) \div 2)

NotFound ==
    /\ pc = "search" /\ bpos = epos
    /\ found' = NoCpu
    /\ pc' = "found"
    /\ UNCHANGED <<coll, build, id, bpos, epos, affinity>>

Hit ==
    /\ pc = "search" /\ bpos # epos
    /\ data[Mid].id = id
    /\ found' = Mid
    /\ pc' = "found"
    /\ UNCHANGED <<coll, build, id, bpos, epos, affinity>>

Below ==
    /\ pc = "search" /\ bpos # epos
    /\ id < data[Mid].id
    /\ epos' = Mid
    /\ UNCHANGED <<pc, coll, build, id, bpos, found, affinity>>

Above ==
    /\ pc = "search" /\ bpos # epos
    /\ id > data[Mid].id
    /\ bpos' = Mid + 1
    /\ UNCHANGED <<pc, coll, build, id, epos, found, affinity>>

(***************************************************************************)
(* What the functions that look for a CPU do with it: those that only ask, *)
(* and _MCF_cpu_collection_set_selection.  One that has not been found     *)
(* makes them fail.                                                        *)
(***************************************************************************)
GetFound ==
    /\ pc = "found"
    /\ pc' = "ready"
    /\ UNCHANGED <<coll, build, search, affinity>>

SetFound(selected) ==
    /\ pc = "found"
    /\ data' = IF found = NoCpu THEN data
               ELSE [data EXCEPT ![found].selected = selected]
    /\ pc' = "ready"
    /\ UNCHANGED <<length, refs, build, search, affinity>>

-----------------------------------------------------------------------------
(* Selections *)

(***************************************************************************)
(* The CPUs whose selection is told by `IsSelected`.                       *)
(***************************************************************************)
WithSelection(d, n, chosen) ==
    [m \in DOMAIN d |-> IF m < n THEN [d[m] EXCEPT !.selected = d[m].id \in chosen] ELSE d[m]]

SelectionOf(d, n) == {d[m].id : m \in {l \in DOMAIN d : l < n /\ d[l].selected}}

SetByIndex(n, selected) ==
    /\ pc = "ready"
    /\ n < length
    /\ data' = [data EXCEPT ![n].selected = selected]
    /\ UNCHANGED <<pc, length, refs, build, search, affinity>>

SetAll(selected) ==
    /\ pc = "ready"
    /\ data' = WithSelection(data, length, IF selected THEN Present ELSE {})
    /\ UNCHANGED <<pc, length, refs, build, search, affinity>>

(***************************************************************************)
(* _MCF_thread_get_affinity: nothing stays selected when the system fails; *)
(* a thread for which no CPU has been selected runs on all of them.        *)
(***************************************************************************)
GetAffinity ==
    /\ pc = "ready"
    /\ data' \in {WithSelection(data, length, IF affinity = {} THEN Present ELSE affinity),
                  WithSelection(data, length, {})}
    /\ UNCHANGED <<pc, length, refs, build, search, affinity>>

(***************************************************************************)
(* _MCF_thread_set_affinity fails when nothing is selected, and may fail.  *)
(***************************************************************************)
SetAffinity ==
    /\ pc = "ready"
    /\ SelectionOf(data, length) # {}
    /\ affinity' = SelectionOf(data, length)
    /\ UNCHANGED <<pc, coll, build, search>>

-----------------------------------------------------------------------------
CpuNext ==
    \/ NewAllocates \/ NewFails \/ SkipEntry \/ ReadEntry \/ Shift \/ Place
    \/ TakeBit \/ FillCores \/ Created
    \/ AddCollRef \/ DropCollRef \/ NewCopy
    \/ \E x \in Nat : Find(x)
    \/ NotFound \/ Hit \/ Below \/ Above
    \/ GetFound
    \/ \E selected \in BOOLEAN :
          \/ SetFound(selected)
          \/ SetAll(selected)
          \/ \E n \in Slot : SetByIndex(n, selected)
    \/ GetAffinity \/ SetAffinity

CpuSpec == CpuInit /\ [][CpuNext]_cpuVars

-----------------------------------------------------------------------------
(***************************************************************************)
(* CPUs are in order and none is there twice, as the search and the        *)
(* selection need (the comment in do_find_cpu_opt), and nothing is written *)
(* beyond the memory that has been allocated.                              *)
(***************************************************************************)
Sorted ==
    /\ length <= Cap
    /\ pc = "shift" => k < Cap
    /\ pc # "shift" =>
          \A m, n \in 0 .. length - 1 : m < n => data[m].id < data[n].id

(***************************************************************************)
(* do_find_cpu_opt finds the CPU with this identifier exactly when it is   *)
(* there, whether identifiers are consecutive or not.                      *)
(***************************************************************************)
FindsIt ==
    pc = "found" =>
        \/ found = NoCpu /\ id \notin Present
        \/ found \in 0 .. length - 1 /\ data[found].id = id
=============================================================================
