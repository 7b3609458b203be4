--------------------------- MODULE ThreadsProofs ----------------------------
(***************************************************************************)
(* Proofs about the structures of threads, for any set of threads, any set *)
(* of blocks, and any number of references and of things registered; and   *)
(* about the queues of destructors of threads and of the process, for any  *)
(* size of blocks and any number of registrations and of nested calls.     *)
(***************************************************************************)
EXTENDS Threads, Exit, FiniteSetTheorems, TLAPS

-----------------------------------------------------------------------------
(* The invariant *)

NewPC == {"new", "newcxx", "newobjc"}

\* A thread has a structure of its own, if it has been created for one.
Running == NewPC \cup {"await", "run", "construct", "detach", "join", "exiting"}

Over == {"drop", "again", "ended"}

FinitelyMany == \A s \in Struct : IsFiniteSet(Refs(s))

(***************************************************************************)
(* What a thread has in its slot, as its parameter, and in its call.       *)
(***************************************************************************)
Placed ==
    \A t \in Thread :
        /\ pc[t] = "unborn" => self[t] = None /\ param[t] = None
        /\ pc[t] \in {"born", "await"} => param[t] \in Block
        /\ pc[t] \in {"born", "oom"} => self[t] # param[t] \/ self[t] = None
        /\ pc[t] = "oom" => self[t] = None
        /\ pc[t] \in NewPC \cup {"construct", "detach", "join", "drop"} => arg[t] \in Struct
        /\ pc[t] \in Running /\ param[t] # None => self[t] = param[t]
        /\ pc[t] \notin Over => self[t] # Bad
        /\ pc[t] = "ended" => self[t] \notin Struct

(***************************************************************************)
(* A structure in use is that of a thread which has begun.                 *)
(***************************************************************************)
Attached ==
    \A s \in Struct : st[s].nref > 0 => st[s].tid \in Thread /\ pc[st[s].tid] # "unborn"

(***************************************************************************)
(* What a thread does once its procedure has ended, it does at its end,    *)
(* where only one that has a structure has anything to do.                 *)
(***************************************************************************)
Begun ==
    \A t \in Thread :
        /\ pc[t] \in {"born", "await"} => outcome[t] = "none"
        /\ pc[t] \in Over \cup {"exiting"} => outcome[t] # "none"
        /\ outcome[t] # "none" /\ pc[t] \notin Over \cup {"exiting"} => self[t] \in Struct

(***************************************************************************)
(* A thread waits for the one that makes it, which is alone in that; and   *)
(* the arguments of a C++ thread are those of its constructor.             *)
(***************************************************************************)
Making ==
    /\ \A t \in Thread : pc[t] \in NewPC =>
          LET s == arg[t]
              u == st[s].tid
          IN  ~st[s].init /\ u \in Thread /\ pc[u] \in {"born", "oom"} /\ param[u] = s
    /\ \A t \in Thread : pc[t] \in {"newcxx", "construct"} =>
          st[arg[t]].ctor = "zero" /\ own[arg[t]] = 0
    /\ \A t, u \in Thread :
          /\ pc[t] \in NewPC \cup {"construct"} /\ pc[u] \in NewPC \cup {"construct"}
          /\ arg[t] = arg[u]
          => t = u
    /\ \A s \in Struct : st[s].ctor = "zero" =>
          \E u \in Thread : pc[u] \in {"newcxx", "construct"} /\ arg[u] = s
    /\ \A t \in Thread : param[t] # None =>
          /\ pc[t] \in {"born", "oom"} /\ ~st[param[t]].init =>
                \E u \in Thread : pc[u] \in NewPC /\ arg[u] = param[t]
          /\ pc[t] \in Running => st[param[t]].init
          /\ pc[t] \in Running \ {"await"} =>
                /\ st[param[t]].ctor # "zero"
                /\ outcome[t] = "none" => st[param[t]].ctor # "cancelled"

(***************************************************************************)
(* The data of a structure are those of the thread which it has been       *)
(* passed to, and the record of a gthread tells how far that has come.     *)
(***************************************************************************)
Result(t) == IF outcome[t] = "none" THEN "cancelled" ELSE outcome[t]

Resulting ==
    \A s \in Struct : st[s].nref > 0 =>
        LET u == st[s].tid IN
        /\ (st[s].result # "none" \/ st[s].ctor # "none") /\ pc[u] # "ended" => param[u] = s
        /\ st[s].result # "none" =>
              /\ pc[u] \in {"born", "oom"} => st[s].result = "arg"
              /\ pc[u] \notin {"born", "oom"} => st[s].result = Result(u)

IInv ==
    /\ TypeOK /\ FinitelyMany /\ Counted /\ OomInUse /\ Placed /\ Attached /\ Begun
    /\ Making /\ Resulting

(***************************************************************************)
(* Only in the structure that a thread has in its slot is there anything,  *)
(* but for the callbacks that were late; and what has been registered is   *)
(* what there is in it.                                                    *)
(***************************************************************************)
LeftBy(t) == IF self[t] = Bad THEN late[t] ELSE 0

Emptied ==
    \A s \in Struct : st[s].nref > 0 /\ self[st[s].tid] # s =>
        /\ st[s].content["table"] = 0
        /\ st[s].content["queue"] \in {0, LeftBy(st[s].tid)}

Clearing ==
    \A t \in Thread :
        /\ ~clearing[t] => late[t] = 0
        /\ clearing[t] => outcome[t] # "none"
        /\ clearing[t] /\ self[t] \in Struct => st[self[t]].content["queue"] = late[t]

Stored == Emptied /\ Clearing /\ NothingLost

(***************************************************************************)
(* A step frees only what is empty.                                        *)
(***************************************************************************)
Frees ==
    \A s \in Struct : st[s].nref > 0 /\ st'[s].nref = 0 =>
        /\ st'[s].content["table"] = 0
        /\ st'[s].content["queue"] \in {0, late[st[s].tid]}

(***************************************************************************)
(* A step leaves alone what there is in structures, and who has them.      *)
(***************************************************************************)
Keeps ==
    /\ self' = self /\ due' = due /\ late' = late /\ clearing' = clearing
    /\ \A t \in Thread : outcome[t] # "none" => outcome'[t] # "none"
    /\ \A s \in Struct :
          /\ st'[s].content = st[s].content
          /\ st'[s].nref > 0 => st[s].nref > 0 /\ st'[s].tid = st[s].tid

-----------------------------------------------------------------------------
(* References *)

Structure ==
    [nref : Nat,
     tid : Thread \cup {None},
     init : BOOLEAN,
     content : [Kind -> Nat],
     ctor : {"none", "zero", "constructed", "cancelled"},
     result : {"none", "arg", "cancelled", "value"}]

(***************************************************************************)
(* The set Refs(s) is what RefersTo says, before a step and after it.      *)
(***************************************************************************)
LEMMA RefsIff ==
    ASSUME NEW s, NEW t \in Thread, NEW x \in Place
    PROVE  /\ <<t, x>> \in Refs(s) <=> RefersTo(t, x, s)
           /\ <<t, x>> \in Refs(s)' <=> RefersTo(t, x, s)'
BY DEF Refs

LEMMA RefsArePairs ==
    ASSUME NEW s
    PROVE  Refs(s) \subseteq Thread \X Place /\ Refs(s)' \subseteq Thread \X Place
BY DEF Refs

(***************************************************************************)
(* What a step does to the references of one structure, as a set.          *)
(***************************************************************************)
LEMMA RefsStay ==
    ASSUME NEW s, \A t \in Thread, x \in Place : RefersTo(t, x, s)' <=> RefersTo(t, x, s)
    PROVE  Refs(s)' = Refs(s)
<1>1. ASSUME NEW r \in Thread \X Place PROVE r \in Refs(s)' <=> r \in Refs(s)
  <2>1. PICK t \in Thread, x \in Place : r = <<t, x>>
    OBVIOUS
  <2> QED
    BY <2>1, RefsIff
<1> QED
  BY <1>1, RefsArePairs

LEMMA RefAdded ==
    ASSUME NEW s, NEW u \in Thread, NEW y \in Place, IsFiniteSet(Refs(s)),
           ~RefersTo(u, y, s),
           \A t \in Thread, x \in Place :
               RefersTo(t, x, s)' <=> (RefersTo(t, x, s) \/ (t = u /\ x = y))
    PROVE  IsFiniteSet(Refs(s)') /\ Cardinality(Refs(s)') = Cardinality(Refs(s)) + 1
<1>1. <<u, y>> \notin Refs(s)
  BY RefsIff
<1>2. Refs(s)' = Refs(s) \cup {<<u, y>>}
  <2>1. ASSUME NEW r \in Thread \X Place
        PROVE  r \in Refs(s)' <=> (r \in Refs(s) \/ r = <<u, y>>)
    <3>1. PICK t \in Thread, x \in Place : r = <<t, x>>
      OBVIOUS
    <3> QED
      BY <3>1, RefsIff
  <2> QED
    BY <2>1, RefsArePairs
<1> QED
  BY <1>1, <1>2, FS_AddElement

LEMMA RefDropped ==
    ASSUME NEW s, NEW u \in Thread, NEW y \in Place, IsFiniteSet(Refs(s)),
           RefersTo(u, y, s),
           \A t \in Thread, x \in Place :
               RefersTo(t, x, s)' <=> (RefersTo(t, x, s) /\ ~(t = u /\ x = y))
    PROVE  IsFiniteSet(Refs(s)') /\ Cardinality(Refs(s)') = Cardinality(Refs(s)) - 1
<1>1. <<u, y>> \in Refs(s)
  BY RefsIff
<1>2. Refs(s)' = Refs(s) \ {<<u, y>>}
  <2>1. ASSUME NEW r \in Thread \X Place
        PROVE  r \in Refs(s)' <=> (r \in Refs(s) /\ r # <<u, y>>)
    <3>1. PICK t \in Thread, x \in Place : r = <<t, x>>
      OBVIOUS
    <3> QED
      BY <3>1, RefsIff
  <2> QED
    BY <2>1, RefsArePairs
<1> QED
  BY <1>1, <1>2, FS_RemoveElement

(***************************************************************************)
(* A reference of a thread is one of those that are counted.               *)
(***************************************************************************)
LEMMA Held ==
    ASSUME TypeOK, FinitelyMany, Counted, NEW s \in Struct,
           NEW t \in Thread, NEW x \in Place, RefersTo(t, x, s)
    PROVE  /\ st[s].nref \in Nat /\ own[s] \in Nat
           /\ st[s].nref >= own[s] + 1
           /\ \A u \in Thread, y \in Place :
                  RefersTo(u, y, s) /\ (u # t \/ y # x) => st[s].nref >= own[s] + 2
<1>1. /\ IsFiniteSet(Refs(s)) /\ Cardinality(Refs(s)) \in Nat
      /\ st[s].nref = own[s] + Cardinality(Refs(s)) /\ own[s] \in Nat /\ st[s].nref \in Nat
  BY FS_CardinalityType DEF FinitelyMany, Counted, TypeOK
<1>2. <<t, x>> \in Refs(s)
  BY RefsIff
<1>3. Cardinality(Refs(s)) >= 1
  BY <1>1, <1>2, FS_EmptySet
<1>4. ASSUME NEW u \in Thread, NEW y \in Place, RefersTo(u, y, s), u # t \/ y # x
      PROVE  Cardinality(Refs(s)) >= 2
  <2>1. <<u, y>> \in Refs(s) /\ <<u, y>> # <<t, x>>
    BY <1>4, RefsIff
  <2>2. /\ IsFiniteSet(Refs(s) \ {<<t, x>>})
        /\ Cardinality(Refs(s) \ {<<t, x>>}) = Cardinality(Refs(s)) - 1
    BY <1>1, <1>2, FS_RemoveElement
  <2>3. Cardinality(Refs(s) \ {<<t, x>>}) # 0
    BY <2>1, <2>2, FS_EmptySet
  <2> QED
    BY <1>1, <1>3, <2>2, <2>3
<1> QED
  BY <1>1, <1>3, <1>4

LEMMA Unheld ==
    ASSUME TypeOK, FinitelyMany, Counted, NEW s \in Struct, st[s].nref = 0
    PROVE  /\ own[s] = 0
           /\ Refs(s) = {}
           /\ \A t \in Thread, x \in Place : ~RefersTo(t, x, s)
<1>1. /\ IsFiniteSet(Refs(s)) /\ Cardinality(Refs(s)) \in Nat
      /\ st[s].nref = own[s] + Cardinality(Refs(s)) /\ own[s] \in Nat
  BY FS_CardinalityType DEF FinitelyMany, Counted, TypeOK
<1>2. own[s] = 0 /\ Cardinality(Refs(s)) = 0
  BY <1>1
<1>3. Refs(s) = {}
  BY <1>1, <1>2, FS_EmptySet
<1> QED
  BY <1>2, <1>3, RefsIff

LEMMA InUseThen ==
    ASSUME TypeOK', FinitelyMany', Counted', NEW t \in Thread, NEW s \in Struct, self'[t] = s
    PROVE  st'[s].nref > 0 /\ st'[s].nref # 0
<1>1. <<t, "self">> \in Refs(s)'
  BY RefsIff DEF RefersTo, Place
<1>2. /\ IsFiniteSet(Refs(s)') /\ Cardinality(Refs(s)') \in Nat
      /\ st'[s].nref = own'[s] + Cardinality(Refs(s)') /\ own'[s] \in Nat
  BY FS_CardinalityType DEF FinitelyMany, Counted, TypeOK
<1>3. Cardinality(Refs(s)') # 0
  BY <1>1, <1>2, FS_EmptySet
<1> QED
  BY <1>2, <1>3

(***************************************************************************)
(* Memory that has been cleared, and what is made of it.                   *)
(***************************************************************************)
LEMMA BlankFacts ==
    /\ Blank \in Structure /\ Nothing \in [Kind -> Nat]
    /\ Blank.nref = 0 /\ Blank.tid = None /\ Blank.init = FALSE /\ Blank.content = Nothing
    /\ Blank.ctor = "none" /\ Blank.result = "none"
BY DEF Blank, Structure, Nothing

LEMMA NothingFacts ==
    /\ Nothing["table"] = 0 /\ Nothing["queue"] = 0
    /\ \A c \in [Kind -> Nat] : c["table"] = 0 /\ c["queue"] = 0 => c = Nothing
BY DEF Nothing, Kind

(***************************************************************************)
(* Dropping: the structure has one reference less, keeps all the rest when *)
(* it has another one, and keeps what it has in it in any case.            *)
(***************************************************************************)
LEMMA DropsFacts ==
    ASSUME NEW now \in [Struct -> Structure], NEW s \in Struct, now[s].nref > 0,
           oomLocked \in BOOLEAN, DropsOf(now, s)
    PROVE  /\ st' \in [Struct -> Structure]
           /\ \A x \in Struct \ {s} : st'[x] = now[x]
           /\ st'[s].nref = now[s].nref - 1
           /\ st'[s].content = now[s].content
           /\ \/ /\ st'[s].tid = now[s].tid /\ st'[s].init = now[s].init
                 /\ st'[s].ctor = now[s].ctor /\ st'[s].result = now[s].result
              \/ /\ now[s].nref = 1
                 /\ st'[s].ctor = "none" /\ st'[s].result = "none"
           /\ oomLocked' = (oomLocked /\ ~(s = OomSt /\ now[s].nref = 1))
<1>0. now[s] \in Structure /\ now[s].content \in [Kind -> Nat] /\ now[s].nref \in Nat
  BY DEF Structure
<1>1. CASE now[s].nref = 1 /\ s # MainSt
  <2> DEFINE b == [Blank EXCEPT !.content = now[s].content]
  <2>1. st' = [now EXCEPT ![s] = b]
    BY <1>1 DEF DropsOf
  <2>2. /\ b \in Structure /\ b.nref = 0 /\ b.content = now[s].content
        /\ b.ctor = "none" /\ b.result = "none"
    BY <1>0, BlankFacts DEF Structure
  <2>3. oomLocked' = (oomLocked /\ ~(s = OomSt /\ now[s].nref = 1))
    BY <1>1 DEF DropsOf
  <2> HIDE DEF b
  <2> QED
    BY <1>1, <2>1, <2>2, <2>3
<1>2. CASE ~(now[s].nref = 1 /\ s # MainSt)
  <2>1. st' = [now EXCEPT ![s].nref = @ - 1]
    BY <1>2 DEF DropsOf
  <2>2. [now[s] EXCEPT !.nref = @ - 1] \in Structure
    BY <1>0 DEF Structure
  <2>3. oomLocked' = (oomLocked /\ ~(s = OomSt /\ now[s].nref = 1))
    BY <1>2, StructAssumption DEF DropsOf
  <2> QED
    BY <2>1, <2>2, <2>3 DEF Structure
<1> QED
  BY <1>1, <1>2

-----------------------------------------------------------------------------
(* Steps *)

LEMMA Types ==
    ASSUME TypeOK
    PROVE  /\ st \in [Struct -> Structure]
           /\ \A s \in Struct : st[s] \in Structure /\ st[s].nref \in Nat
                                /\ st[s].content \in [Kind -> Nat]
           /\ oomLocked \in BOOLEAN
BY DEF TypeOK, Structure

(***************************************************************************)
(* A step drops the reference to s that the program has, or the one that a *)
(* call has, which forgets it.                                             *)
(***************************************************************************)
OfProgram(t, s) ==
    /\ pc[t] = "run" /\ own[s] > 0
    /\ own' = [own EXCEPT ![s] = @ - 1]
    /\ UNCHANGED <<pc, arg>>

OfCall(t, s) ==
    /\ pc[t] \in {"detach", "join", "drop"} /\ arg[t] = s
    /\ pc' = [pc EXCEPT ![t] = IF pc[t] = "drop" THEN "again" ELSE "run"]
    /\ arg' = [arg EXCEPT ![t] = None]
    /\ UNCHANGED own

(***************************************************************************)
(* What a structure says of its thread, which stays while it is in use.    *)
(***************************************************************************)
Same(s) ==
    /\ st'[s].nref > 0
    /\ st'[s].tid = st[s].tid /\ st'[s].init = st[s].init
    /\ st'[s].result = st[s].result

LEMMA ReferredStays ==
    ASSUME TypeOK', \A s \in Struct, t \in Thread, x \in Place : RefersTo(t, x, s)' => Same(s),
           NEW t \in Thread
    PROVE  /\ self'[t] \in Struct => Same(self'[t])
           /\ pc'[t] \in {"born", "oom"} /\ param'[t] # None => Same(param'[t])
           /\ pc'[t] \in {"newcxx", "newobjc", "construct", "detach", "join", "drop"}
              /\ arg'[t] # None => Same(arg'[t])
<1>1. ASSUME NEW s \in Struct
      PROVE  RefersTo(t, "self", s)' \/ RefersTo(t, "param", s)' \/ RefersTo(t, "arg", s)'
                 => Same(s)
  BY DEF Place
<1>2. param'[t] \in Struct \cup {None} /\ arg'[t] \in Struct \cup {None}
  BY DEF TypeOK, Struct
<1> QED
  BY <1>1, <1>2 DEF RefersTo

(***************************************************************************)
(* The constructor of a C++ thread is done with s, one way or the other.   *)
(***************************************************************************)
LEMMA ConstructorDone ==
    ASSUME IInv, NEW t \in Thread, NEW s \in Struct, pc[t] = "construct", arg[t] = s,
           NEW to \in {"run", "detach"}, pc' = [pc EXCEPT ![t] = to],
           arg' = [arg EXCEPT ![t] = IF to = "run" THEN None ELSE @],
           self' = self, param' = param, outcome' = outcome,
           \A x \in Struct \ {s} : st'[x] = st[x] /\ own'[x] = own[x],
           st'[s].ctor \in {"none", "constructed", "cancelled"},
           \A u \in Thread :
               /\ pc[u] \in {"born", "oom"} \cup Running /\ param[u] = s
                     => st'[s].init = st[s].init
               /\ pc[u] \in Running \ {"await"} /\ param[u] = s
                     => st'[s].ctor # "cancelled"
    PROVE  Making' /\ Placed'
<1> USE DEF IInv
<1>1. /\ \A u \in Thread \ {t} : pc'[u] = pc[u] /\ arg'[u] = arg[u]
      /\ pc'[t] = to /\ arg'[t] \in {None, s}
      /\ \A u \in Thread : param[u] # None => param[u] \in Struct
      /\ \A u \in Thread : pc[u] \in NewPC \cup {"construct"} => arg[u] \in Struct
  BY DEF TypeOK, Struct, Placed
<1>2. \A u \in Thread : pc'[u] \in NewPC \cup {"construct"} =>
          u # t /\ pc'[u] = pc[u] /\ arg'[u] = arg[u] /\ arg[u] \in Struct \ {s}
  BY <1>1 DEF Making, NewPC
<1>3. ASSUME NEW u \in Thread, pc'[u] \in NewPC
      PROVE  LET x == arg'[u]
                 v == st'[x].tid
             IN  ~st'[x].init /\ v \in Thread /\ pc'[v] \in {"born", "oom"} /\ param'[v] = x
  BY <1>1, <1>2, <1>3 DEF Making
<1>4. ASSUME NEW u \in Thread, pc'[u] \in {"newcxx", "construct"}
      PROVE  st'[arg'[u]].ctor = "zero" /\ own'[arg'[u]] = 0
  BY <1>2, <1>4 DEF Making, NewPC
<1>5. ASSUME NEW u \in Thread, NEW v \in Thread, arg'[u] = arg'[v],
             pc'[u] \in NewPC \cup {"construct"}, pc'[v] \in NewPC \cup {"construct"}
      PROVE  u = v
  BY <1>2, <1>5 DEF Making
<1>6. ASSUME NEW x \in Struct, st'[x].ctor = "zero"
      PROVE  \E u \in Thread : pc'[u] \in {"newcxx", "construct"} /\ arg'[u] = x
  <2>1. PICK u \in Thread : pc[u] \in {"newcxx", "construct"} /\ arg[u] = x /\ x # s
    BY <1>6 DEF Making
  <2> QED
    BY <1>1, <2>1
<1>7. ASSUME NEW u \in Thread, param'[u] # None
      PROVE  /\ pc'[u] \in {"born", "oom"} /\ ~st'[param'[u]].init =>
                   \E v \in Thread : pc'[v] \in NewPC /\ arg'[v] = param'[u]
             /\ pc'[u] \in Running => st'[param'[u]].init
             /\ pc'[u] \in Running \ {"await"} =>
                   /\ st'[param'[u]].ctor # "zero"
                   /\ outcome'[u] = "none" => st'[param'[u]].ctor # "cancelled"
  <2>1. param[u] \in Struct /\ param'[u] = param[u]
    BY <1>1, <1>7
  <2>2. CASE pc'[u] \in {"born", "oom"} /\ ~st'[param'[u]].init
    <3>1. pc[u] \in {"born", "oom"} /\ ~st[param[u]].init
      BY <1>1, <2>1, <2>2
    <3>2. PICK v \in Thread : pc[v] \in NewPC /\ arg[v] = param[u]
      BY <2>1, <1>7, <3>1 DEF Making
    <3>3. pc'[v] \in NewPC /\ arg'[v] = param'[u]
      BY <1>1, <2>1, <3>2 DEF NewPC
    <3>4. pc'[u] \notin Running
      BY <2>2 DEF Running, NewPC
    <3> QED
      BY <3>2, <3>3, <3>4
  <2>3. CASE pc'[u] \in Running
    <3>1. pc[u] \in Running /\ (pc'[u] # "await" => pc[u] # "await")
      BY <1>1, <2>3 DEF Running, NewPC
    <3>2. st[param[u]].init
      BY <1>7, <2>1, <3>1 DEF Making
    <3>3. pc'[u] # "await" =>
              /\ st[param[u]].ctor # "zero"
              /\ outcome[u] = "none" => st[param[u]].ctor # "cancelled"
      BY <1>7, <2>1, <3>1 DEF Making
    <3>4. pc'[u] \notin {"born", "oom"}
      BY <2>3 DEF Running, NewPC
    <3> QED
      BY <2>1, <2>3, <3>1, <3>2, <3>3, <3>4
  <2> QED
    BY <2>2, <2>3
<1>8. Making'
  BY <1>3, <1>4, <1>5, <1>6, <1>7 DEF Making
<1>9. Placed'
  <2>1. pc[t] \in Running /\ pc'[t] \in Running
    BY <1>1 DEF Running, NewPC
  <2> QED
    BY <1>1, <2>1, StructAssumption DEF Placed, Running, Over, NewPC, Struct
<1> QED
  BY <1>8, <1>9

(***************************************************************************)
(* A step that only drops one reference.                                   *)
(***************************************************************************)
LEMMA DropStep ==
    ASSUME IInv, NEW t \in Thread, NEW s \in Struct, Drops(s),
           OfProgram(t, s) \/ OfCall(t, s),
           UNCHANGED <<self, param, endVars, countVars>>
    PROVE  IInv' /\ Keeps
<1> USE DEF IInv
<1>1. /\ st[s].nref > 0
      /\ OfCall(t, s) => RefersTo(t, "arg", s)
      /\ \A u \in Thread, x \in Place : RefersTo(u, x, s)' => st[s].nref >= 2
  <2>1. CASE OfProgram(t, s)
    <3>1. st[s].nref # 0 /\ st[s].nref \in Nat /\ own[s] \in Nat /\ own[s] > 0
      BY <2>1, Unheld, Types DEF OfProgram, TypeOK
    <3>2. ASSUME NEW u \in Thread, NEW x \in Place, RefersTo(u, x, s)'
          PROVE  RefersTo(u, x, s)
      BY <2>1, <3>2 DEF OfProgram, RefersTo
    <3>3. ~OfCall(t, s)
      BY <2>1, <3>1 DEF OfProgram, OfCall, TypeOK
    <3> QED
      BY <3>1, <3>2, <3>3, Held
  <2>2. CASE OfCall(t, s)
    <3>1. RefersTo(t, "arg", s)
      BY <2>2 DEF OfCall, RefersTo
    <3>2. ASSUME NEW u \in Thread, NEW x \in Place, RefersTo(u, x, s)'
          PROVE  RefersTo(u, x, s) /\ (u # t \/ x # "arg")
      BY <2>2, <3>2, StructAssumption DEF OfCall, RefersTo, Place, TypeOK, Struct
    <3> QED
      BY <3>1, <3>2, Held, Types DEF Place, TypeOK
  <2> QED
    BY <2>1, <2>2 DEF OfProgram, OfCall
<1>2. /\ st' \in [Struct -> Structure] /\ oomLocked' \in BOOLEAN
      /\ \A x \in Struct \ {s} : st'[x] = st[x]
      /\ st'[s].nref = st[s].nref - 1
      /\ st'[s].content = st[s].content
      /\ \/ /\ st'[s].tid = st[s].tid /\ st'[s].init = st[s].init
            /\ st'[s].ctor = st[s].ctor /\ st'[s].result = st[s].result
         \/ /\ st[s].nref = 1
            /\ st'[s].ctor = "none" /\ st'[s].result = "none"
      /\ oomLocked' = (oomLocked /\ ~(s = OomSt /\ st[s].nref = 1))
  BY <1>1, Types, DropsFacts DEF Drops
<1>3. /\ self' = self /\ param' = param /\ outcome' = outcome /\ due' = due /\ made' = made
      /\ late' = late /\ clearing' = clearing
      /\ \A u \in Thread \ {t} : pc'[u] = pc[u] /\ arg'[u] = arg[u]
      /\ \/ pc'[t] = pc[t] /\ arg'[t] = arg[t]
         \/ pc[t] \in {"detach", "join"} /\ pc'[t] = "run"
         \/ pc[t] = "drop" /\ pc'[t] = "again"
  BY DEF OfProgram, OfCall, TypeOK, countVars, endVars
<1>type. TypeOK'
  <2>1. own' \in [Struct -> Nat]
    <3>1. own \in [Struct -> Nat] /\ own[s] \in Nat
      BY DEF TypeOK
    <3>2. CASE OfProgram(t, s)
      BY <3>1, <3>2 DEF OfProgram
    <3>3. CASE OfCall(t, s)
      BY <3>1, <3>3 DEF OfCall
    <3> QED
      BY <3>2, <3>3
  <2>2. pc' \in [Thread -> {"unborn", "born", "oom", "await", "run", "new", "newcxx",
                          "newobjc", "construct", "detach", "join", "exiting", "drop", "again",
                      "ended"}]
        /\ arg' \in [Thread -> Struct \cup {None}]
    BY DEF OfProgram, OfCall, TypeOK
  <2> QED
    BY <1>2, <1>3, <2>1, <2>2 DEF TypeOK, Structure
<1> USE <1>type
<1>4. FinitelyMany' /\ \A x \in Struct : st'[x].nref = own'[x] + Cardinality(Refs(x)')
  <2>1. CASE OfProgram(t, s)
    <3>1. \A x : Refs(x)' = Refs(x)
      BY <1>3, <2>1, RefsStay DEF RefersTo, OfProgram
    <3>2. \A x \in Struct : Cardinality(Refs(x)) \in Nat
      BY FS_CardinalityType DEF FinitelyMany
    <3> QED
      BY <1>2, <2>1, <3>1, <3>2 DEF FinitelyMany, Counted, OfProgram, TypeOK
  <2>2. CASE OfCall(t, s)
    <3>1. ASSUME NEW x \in Struct \ {s}
          PROVE  Refs(x)' = Refs(x)
      <4>1. \A u \in Thread, y \in Place : RefersTo(u, y, x)' <=> RefersTo(u, y, x)
        BY <1>3, <2>2, StructAssumption DEF RefersTo, OfCall, TypeOK, Struct
      <4> QED
        BY <4>1, RefsStay
    <3>2. \A u \in Thread, x \in Place :
              RefersTo(u, x, s)' <=> (RefersTo(u, x, s) /\ ~(u = t /\ x = "arg"))
      BY <1>3, <2>2, StructAssumption DEF RefersTo, OfCall, TypeOK, Struct, Place
    <3>3. IsFiniteSet(Refs(s)') /\ Cardinality(Refs(s)') = Cardinality(Refs(s)) - 1
      BY <1>1, <2>2, <3>2, RefDropped DEF FinitelyMany, Place
    <3>4. Cardinality(Refs(s)) \in Nat
      BY FS_CardinalityType DEF FinitelyMany
    <3>5. FinitelyMany'
      BY <3>1, <3>3 DEF FinitelyMany
    <3>6. st'[s].nref = own'[s] + Cardinality(Refs(s)')
      BY <1>2, <2>2, <3>3, <3>4 DEF Counted, OfCall, TypeOK
    <3> QED
      BY <1>2, <2>2, <3>1, <3>5, <3>6 DEF Counted, OfCall
  <2> QED
    BY <2>1, <2>2
<1>5. ASSUME NEW x \in Struct, NEW u \in Thread, NEW y \in Place, RefersTo(u, y, x)'
      PROVE  Same(x)
  <2>1. RefersTo(u, y, x)
    BY <1>3, <1>5, StructAssumption DEF RefersTo, OfProgram, OfCall, TypeOK, Struct
  <2>2. CASE x = s
    BY <1>1, <1>2, <1>5, <2>2, Types DEF Same
  <2>3. CASE x # s
    <3>1. st[x].nref > 0
      BY <2>1, Held, Types
    <3> QED
      BY <1>2, <2>3, <3>1 DEF Same
  <2> QED
    BY <2>2, <2>3
<1>6. \A u \in Thread :
          /\ self'[u] \in Struct => Same(self'[u])
          /\ pc'[u] \in {"born", "oom"} /\ param'[u] # None => Same(param'[u])
          /\ pc'[u] \in {"newcxx", "newobjc", "construct", "detach", "join", "drop"}
             /\ arg'[u] # None => Same(arg'[u])
  BY <1>5, ReferredStays
<1>7. \A u \in Thread : pc'[u] \in NewPC \cup {"construct"} => arg'[u] = arg[u] /\ Same(arg[u])
  <2>1. ASSUME NEW u \in Thread, pc'[u] \in NewPC \cup {"construct"}
        PROVE  /\ pc[u] = pc'[u] /\ arg'[u] = arg[u] /\ arg[u] \in Struct
    BY <2>1, <1>3 DEF OfProgram, OfCall, TypeOK, Placed, NewPC
  <2>2. ASSUME NEW u \in Thread, pc'[u] \in NewPC \cup {"construct"}
        PROVE  Same(arg[u])
    <3>1. pc[u] = pc'[u] /\ arg'[u] = arg[u] /\ arg[u] \in Struct /\ arg[u] # None
      BY <2>1, <2>2, StructAssumption DEF Struct
    <3>2. CASE pc[u] = "new"
      <4> DEFINE v == st[arg[u]].tid
      <4>1. v \in Thread /\ pc[v] \in {"born", "oom"} /\ param[v] = arg[u]
        BY <3>2 DEF Making, NewPC
      <4>2. pc'[v] = pc[v] /\ param'[v] = arg[u]
        BY <1>3, <4>1
      <4> QED
        BY <1>6, <3>1, <4>1, <4>2
    <3>3. CASE pc[u] # "new"
      BY <1>6, <2>2, <3>1, <3>3 DEF NewPC
    <3> QED
      BY <3>2, <3>3
  <2> QED
    BY <2>1, <2>2
<1>8. Counted'
  <2>1. ASSUME NEW u \in Thread, self'[u] \in Struct
        PROVE  st'[self'[u]].tid = u
    BY <1>3, <1>6, <2>1 DEF Counted, Same
  <2>2. ASSUME NEW u \in Thread, pc'[u] \in {"born", "oom"}, param'[u] # None
        PROVE  st'[param'[u]].tid = u
    <3>1. pc[u] = pc'[u]
      BY <1>3, <2>2
    <3> QED
      BY <1>3, <1>6, <2>2, <3>1 DEF Counted, Same
  <2>3. ASSUME NEW u \in Thread, pc'[u] = "new"
        PROVE  st'[arg'[u]].nref > 0
    BY <1>7, <2>3 DEF Same, NewPC
  <2> QED
    BY <1>4, <2>1, <2>2, <2>3 DEF Counted
<1>9. OomInUse'
  <2>1. CASE s = OomSt
    <3>1. st[s].nref \in Nat /\ st[s].nref > 0 /\ oomLocked = TRUE
      BY <1>1, <2>1, Types DEF OomInUse
    <3>2. oomLocked' = ~(st[s].nref = 1)
      BY <1>2, <2>1, <3>1
    <3>3. st'[s].nref > 0 <=> ~(st[s].nref = 1)
      BY <1>2, <3>1
    <3> QED
      BY <2>1, <3>2, <3>3, Zenon DEF OomInUse
  <2>2. CASE s # OomSt
    BY <1>2, <2>2, Types DEF OomInUse, Struct
  <2> QED
    BY <2>1, <2>2
<1>10. Placed'
  BY <1>3 DEF Placed, OfProgram, OfCall, TypeOK, NewPC, Running, Over
<1>11. ASSUME NEW x \in Struct, st'[x].nref > 0
       PROVE  /\ st[x].nref > 0 /\ st[x].tid \in Thread
              /\ st'[x].tid = st[x].tid /\ st'[x].init = st[x].init
              /\ st'[x].ctor = st[x].ctor /\ st'[x].result = st[x].result
  BY <1>1, <1>2, <1>11, Types DEF Attached
<1>12. Attached' /\ Keeps
  BY <1>2, <1>3, <1>11 DEF Attached, Keeps
<1>13. Making'
  <2>1. ASSUME NEW u \in Thread, pc'[u] \in NewPC
        PROVE  LET x == arg'[u]
                   v == st'[x].tid
               IN  ~st'[x].init /\ v \in Thread /\ pc'[v] \in {"born", "oom"} /\ param'[v] = x
    <3>1. pc[u] \in NewPC
      BY <1>3, <2>1 DEF NewPC
    <3> QED
      BY <1>3, <1>7, <2>1, <3>1 DEF Making, Same
  <2>2. ASSUME NEW u \in Thread, pc'[u] \in {"newcxx", "construct"}
        PROVE  st'[arg'[u]].ctor = "zero" /\ own'[arg'[u]] = 0
    <3>1. pc[u] = pc'[u]
      BY <1>3, <2>2
    <3>2. own[arg[u]] = 0 /\ arg[u] \in Struct /\ st[arg[u]].ctor = "zero"
      BY <2>2, <3>1 DEF Making, Placed, NewPC
    <3>3. own'[arg[u]] = 0
      BY <3>2 DEF OfProgram, OfCall, TypeOK
    <3>4. st'[arg[u]].ctor = "zero"
      BY <1>2, <1>7, <2>2, <3>2 DEF Same, NewPC
    <3> QED
      BY <1>7, <2>2, <3>3, <3>4 DEF NewPC
  <2>3. ASSUME NEW u \in Thread, NEW v \in Thread, arg'[u] = arg'[v],
               pc'[u] \in NewPC \cup {"construct"}, pc'[v] \in NewPC \cup {"construct"}
        PROVE  u = v
    BY <1>3, <1>7, <2>3 DEF Making, NewPC
  <2>4. ASSUME NEW x \in Struct, st'[x].ctor = "zero"
        PROVE  \E u \in Thread : pc'[u] \in {"newcxx", "construct"} /\ arg'[u] = x
    <3>1. st[x].ctor = "zero"
      BY <1>2, <2>4
    <3>2. PICK u \in Thread : pc[u] \in {"newcxx", "construct"} /\ arg[u] = x
      BY <3>1 DEF Making
    <3> QED
      BY <1>3, <3>2
  <2>5. ASSUME NEW u \in Thread, param'[u] # None
        PROVE  /\ pc'[u] \in {"born", "oom"} /\ ~st'[param'[u]].init =>
                     \E v \in Thread : pc'[v] \in NewPC /\ arg'[v] = param'[u]
               /\ pc'[u] \in Running => st'[param'[u]].init
               /\ pc'[u] \in Running \ {"await"} =>
                     /\ st'[param'[u]].ctor # "zero"
                     /\ outcome'[u] = "none" => st'[param'[u]].ctor # "cancelled"
    <3>1. CASE pc'[u] \in {"born", "oom"}
      <4>1. pc[u] = pc'[u] /\ Same(param[u])
        BY <1>3, <1>6, <2>5, <3>1
      <4>2. CASE st'[param'[u]].init
        BY <3>1, <4>2 DEF Running, NewPC
      <4>3. CASE ~st'[param'[u]].init
        <5>1. PICK v \in Thread : pc[v] \in NewPC /\ arg[v] = param[u]
          BY <1>3, <2>5, <3>1, <4>1, <4>3 DEF Making, Same
        <5> QED
          BY <1>3, <3>1, <5>1 DEF NewPC, Running
      <4> QED
        BY <4>2, <4>3
    <3>2. CASE pc'[u] \in Running
      <4>1. pc[u] \in Running /\ (pc'[u] # "await" => pc[u] # "await")
        BY <1>3, <3>2 DEF Running, NewPC
      <4>2. self[u] = param[u] /\ param[u] \in Struct
        BY <1>3, <2>5, <4>1 DEF Placed, TypeOK, Struct
      <4> QED
        BY <1>2, <1>3, <1>6, <2>5, <3>2, <4>1, <4>2 DEF Making, Same, Running, NewPC
    <3> QED
      BY <3>1, <3>2
  <2> QED
    BY <2>1, <2>2, <2>3, <2>4, <2>5 DEF Making
<1>14. Begun'
  BY <1>3 DEF Begun, Over
<1>15. Resulting'
  <2>1. \A u \in Thread :
            /\ pc'[u] = "ended" <=> pc[u] = "ended"
            /\ pc'[u] \in {"born", "oom"} <=> pc[u] \in {"born", "oom"}
    BY <1>3
  <2> QED
    BY <1>3, <1>11, <2>1 DEF Resulting, Result
<1> QED
  BY <1>4, <1>8, <1>9, <1>10, <1>12, <1>13, <1>14, <1>15

LEMMA StepDropRef ==
    ASSUME IInv, NEW t \in Thread, NEW s \in Struct, DropRef(t, s)
    PROVE  IInv' /\ Keeps
<1>1. Drops(s) /\ OfProgram(t, s) /\ UNCHANGED <<self, param, endVars, countVars>>
  BY DEF DropRef, OfProgram, threadVars
<1> QED
  BY <1>1, DropStep

LEMMA StepDrops ==
    ASSUME IInv, NEW t \in Thread, Detach(t) \/ DropSelf(t) \/ JoinReturns(t)
    PROVE  IInv' /\ Keeps
<1>1. PICK s \in Struct : arg[t] = s
  BY DEF IInv, Placed, Detach, DropSelf, JoinReturns
<1>2. OfCall(t, s) /\ Drops(s) /\ UNCHANGED <<self, param, endVars, countVars>>
  BY <1>1 DEF Detach, DropSelf, JoinReturns, Joined, OfCall, Goes
<1> QED
  BY <1>2, DropStep

(***************************************************************************)
(* A step that gives no reference to anybody and takes none away.          *)
(***************************************************************************)
LEMMA CountsStay ==
    ASSUME FinitelyMany, Counted, own' = own,
           \A s \in Struct : st'[s].nref = st[s].nref,
           \A s \in Struct, t \in Thread, x \in Place : RefersTo(t, x, s)' <=> RefersTo(t, x, s)
    PROVE  FinitelyMany' /\ \A s \in Struct : st'[s].nref = own'[s] + Cardinality(Refs(s)')
<1>1. \A s \in Struct : Refs(s)' = Refs(s)
  BY RefsStay
<1> QED
  BY <1>1 DEF FinitelyMany, Counted

(***************************************************************************)
(* A step that takes a thread from one place to another.                   *)
(***************************************************************************)
LEMMA StepMoves ==
    ASSUME IInv, NEW t \in Thread,
           \/ ForeignStarts(t) \/ MemoryIsOut(t) \/ StartProc(t) \/ ProcCancelled(t)
           \/ CallbackReturns(t) \/ End(t)
    PROVE  IInv' /\ Keeps
<1> USE DEF IInv
<1>1. /\ st' = st /\ self' = self /\ arg' = arg /\ own' = own /\ oomLocked' = oomLocked
      /\ due' = due /\ made' = made /\ late' = late /\ clearing' = clearing
  BY DEF ForeignStarts, MemoryIsOut, StartProc, ProcCancelled, CallbackReturns, End,
     countVars, endVars
<1>2. \A u \in Thread \ {t} : pc'[u] = pc[u] /\ param'[u] = param[u] /\ outcome'[u] = outcome[u]
  BY DEF ForeignStarts, MemoryIsOut, StartProc, ProcCancelled, CallbackReturns, End, Goes,
     endVars, TypeOK
<1>3. \/ /\ pc[t] = "unborn" /\ pc'[t] = "run"
         /\ param'[t] = param[t] /\ outcome'[t] = outcome[t]
      \/ /\ pc[t] \in {"born", "run"} /\ self[t] = None /\ pc'[t] = "oom"
         /\ param'[t] = param[t] /\ outcome'[t] = outcome[t]
      \/ /\ pc[t] = "await" /\ st[self[t]].ctor \in {"none", "constructed"} /\ pc'[t] = "run"
         /\ param'[t] = param[t] /\ outcome'[t] = outcome[t]
      \/ /\ pc[t] = "await" /\ st[self[t]].ctor = "cancelled" /\ pc'[t] = "exiting"
         /\ param'[t] = param[t] /\ outcome'[t] = "cancelled"
      \/ /\ pc[t] = "run" /\ outcome[t] # "none" /\ pc'[t] = "exiting"
         /\ param'[t] = param[t] /\ outcome'[t] = outcome[t]
      \/ /\ pc[t] \in {"exiting", "again"} /\ self[t] \in {None, Bad} /\ pc'[t] = "ended"
         /\ param'[t] = None /\ outcome'[t] = outcome[t]
  BY DEF ForeignStarts, MemoryIsOut, StartProc, ProcCancelled, CallbackReturns, End, Goes,
     endVars, TypeOK
<1>4. TypeOK'
  BY <1>1 DEF TypeOK, ForeignStarts, MemoryIsOut, StartProc, ProcCancelled, CallbackReturns,
     End, Goes, endVars
<1>5. ASSUME NEW s \in Struct, NEW u \in Thread, NEW x \in Place
      PROVE  RefersTo(u, x, s)' <=> RefersTo(u, x, s)
  <2>1. CASE u # t
    BY <1>1, <1>2, <2>1 DEF RefersTo
  <2>2. CASE u = t
    BY <1>1, <1>3, <2>2, StructAssumption DEF RefersTo, Placed, Struct, Running
  <2> QED
    BY <2>1, <2>2
<1>6. FinitelyMany' /\ \A s \in Struct : st'[s].nref = own'[s] + Cardinality(Refs(s)')
  BY <1>1, <1>5, CountsStay
<1>7. Counted'
  BY <1>1, <1>2, <1>3, <1>6 DEF Counted, Placed, Running
<1>8. OomInUse'
  BY <1>1 DEF OomInUse
<1>9. Placed'
  BY <1>1, <1>2, <1>3, StructAssumption DEF Placed, Running, Over, NewPC, Struct
<1>10. Attached' /\ Keeps
  BY <1>1, <1>2, <1>3 DEF Attached, Keeps
<1>11. Making'
  BY <1>1, <1>2, <1>3 DEF Making, Placed, Running, NewPC
<1>12. Begun'
  BY <1>1, <1>2, <1>3, StructAssumption DEF Begun, Placed, Over, Struct
<1>13. Resulting'
  <2> SUFFICES ASSUME NEW s \in Struct, st[s].nref > 0
               PROVE  LET u == st[s].tid IN
                      /\ (st[s].result # "none" \/ st[s].ctor # "none") /\ pc'[u] # "ended"
                            => param'[u] = s
                      /\ st[s].result # "none" =>
                            /\ pc'[u] \in {"born", "oom"} => st[s].result = "arg"
                            /\ pc'[u] \notin {"born", "oom"} => st[s].result = Result(u)'
    BY <1>1 DEF Resulting
  <2>1. st[s].tid \in Thread /\ pc[st[s].tid] # "unborn"
    BY DEF Attached
  <2>2. CASE st[s].tid # t
    BY <1>1, <1>2, <2>1, <2>2 DEF Resulting, Result
  <2>3. CASE st[s].tid = t
    <3>1. pc[t] = "run" /\ st[s].result # "none" => self[t] # None
      BY <2>1, <2>3, StructAssumption DEF Resulting, Placed, Running, Struct
    <3> QED
      BY <1>1, <1>3, <2>1, <2>3, <3>1 DEF Resulting, Result, Begun
  <2> QED
    BY <2>2, <2>3
<1> QED
  BY <1>4, <1>6, <1>7, <1>8, <1>9, <1>10, <1>11, <1>12, <1>13

(***************************************************************************)
(* Where a step leaves alone what structures have in them, what a thread   *)
(* has drops is freed empty.                                               *)
(***************************************************************************)
LEMMA KeepsStored ==
    ASSUME IInv, Stored, IInv', Keeps
    PROVE  Stored' /\ Frees
<1> USE DEF Keeps
<1>1. ASSUME NEW u \in Thread, self[u] \in Struct
      PROVE  st'[self[u]].content = st[self[u]].content
  BY <1>1
<1>2. Emptied'
  BY DEF Stored, Emptied, LeftBy, Attached, IInv
<1>3. Clearing'
  BY <1>1 DEF Stored, Clearing
<1>4. NothingLost'
  BY <1>1 DEF Stored, NothingLost
<1>5. Frees
  <2> SUFFICES ASSUME NEW s \in Struct, st[s].nref > 0, st'[s].nref = 0
               PROVE  /\ st[s].content["table"] = 0
                      /\ st[s].content["queue"] \in {0, late[st[s].tid]}
    BY DEF Frees
  <2>1. st[s].tid \in Thread
    BY DEF IInv, Attached
  <2>2. self'[st[s].tid] # s
    BY <2>1, InUseThen DEF IInv
  <2> QED
    BY <2>2 DEF Stored, Emptied, LeftBy
<1> QED
  BY <1>2, <1>3, <1>4, <1>5 DEF Stored

(***************************************************************************)
(* A thread registers something in its structure, or runs what is in it.   *)
(***************************************************************************)
LEMMA StepContent ==
    ASSUME IInv, Stored, NEW t \in Thread, NEW k \in Kind, Register(t, k) \/ RunOne(t, k)
    PROVE  IInv' /\ Stored' /\ Frees
<1> USE DEF IInv
<1> DEFINE s == self[t]
<1>1. s \in Struct /\ st[s].nref > 0 /\ st[s].tid = t /\ due[t] = st[s].content
  <2>1. s \in Struct
    BY DEF Register, RunOne
  <2>2. RefersTo(t, "self", s)
    BY DEF RefersTo
  <2>3. due[t] = st[s].content
    BY <2>1 DEF Stored, NothingLost
  <2> QED
    BY <2>1, <2>2, <2>3, Held, Types DEF Place, Counted, TypeOK
<1>2. /\ self' = self /\ param' = param /\ arg' = arg /\ outcome' = outcome
      /\ own' = own /\ oomLocked' = oomLocked
  BY DEF Register, RunOne, threadVars, endVars
<1>3. PICK n \in Nat :
        /\ st' = [st EXCEPT ![s].content[k] = n] /\ due' = [due EXCEPT ![t][k] = n]
        /\ \/ /\ n = st[s].content[k] + 1 /\ pc[t] \in {"born", "run"} /\ pc' = pc
              /\ clearing' = clearing
              /\ late' = IF k = "queue" /\ clearing[t] THEN [late EXCEPT ![t] = @ + 1]
                                                       ELSE late
           \/ /\ n = st[s].content[k] - 1 /\ pc[t] = "exiting"
              /\ pc' = [pc EXCEPT ![t] = "run"]
              /\ clearing' = [clearing EXCEPT ![t] = (k = "table")] /\ late' = late
              /\ IF k = "queue" THEN ~clearing[t]
                                ELSE clearing[t] \/ st[s].content["queue"] = 0
  <2>1. st[s].content[k] \in Nat /\ due \in [Thread -> [Kind -> Nat]]
    BY <1>1, Types DEF TypeOK
  <2>2. CASE Register(t, k)
    <3> DEFINE m == st[s].content[k] + 1
    <3>1. m \in Nat /\ st' = [st EXCEPT ![s].content[k] = m]
      BY <2>1, <2>2 DEF Register
    <3>2. due' = [due EXCEPT ![t][k] = m]
      BY <1>1, <2>1, <2>2 DEF Register
    <3>3. /\ pc[t] \in {"born", "run"} /\ pc' = pc /\ clearing' = clearing
          /\ late' = IF k = "queue" /\ clearing[t] THEN [late EXCEPT ![t] = @ + 1] ELSE late
      BY <2>2 DEF Register, threadVars, endVars
    <3> QED
      BY <3>1, <3>2, <3>3
  <2>3. CASE RunOne(t, k)
    <3> DEFINE m == st[s].content[k] - 1
    <3>1. m \in Nat /\ st' = [st EXCEPT ![s].content[k] = m]
      BY <2>1, <2>3 DEF RunOne
    <3>2. due' = [due EXCEPT ![t][k] = m]
      BY <1>1, <2>1, <2>3 DEF RunOne
    <3>3. /\ pc[t] = "exiting" /\ pc' = [pc EXCEPT ![t] = "run"] /\ late' = late
          /\ clearing' = [clearing EXCEPT ![t] = (k = "table")]
          /\ IF k = "queue" THEN ~clearing[t]
                            ELSE clearing[t] \/ st[s].content["queue"] = 0
      BY <2>3 DEF RunOne, Goes
    <3> QED
      BY <3>1, <3>2, <3>3
  <2> QED
    BY <2>2, <2>3
<1>4. /\ st' \in [Struct -> Structure]
      /\ \A x \in Struct : /\ st'[x].nref = st[x].nref /\ st'[x].tid = st[x].tid
                           /\ st'[x].init = st[x].init /\ st'[x].ctor = st[x].ctor
                           /\ st'[x].result = st[x].result
      /\ \A x \in Struct \ {s} : st'[x] = st[x]
      /\ st'[s].content = [st[s].content EXCEPT ![k] = n]
      /\ due' \in [Thread -> [Kind -> Nat]]
      /\ \A u \in Thread \ {t} : due'[u] = due[u]
      /\ due'[t] = [due[t] EXCEPT ![k] = n]
  <2>1. /\ st' \in [Struct -> Structure]
        /\ \A x \in Struct : /\ st'[x].nref = st[x].nref /\ st'[x].tid = st[x].tid
                             /\ st'[x].init = st[x].init /\ st'[x].ctor = st[x].ctor
                             /\ st'[x].result = st[x].result
        /\ \A x \in Struct \ {s} : st'[x] = st[x]
        /\ st'[s].content = [st[s].content EXCEPT ![k] = n]
    <3> DEFINE new == [st[s] EXCEPT !.content[k] = n]
    <3>1. st' = [st EXCEPT ![s] = new]
      BY <1>3
    <3>2. /\ new \in Structure
          /\ new.nref = st[s].nref /\ new.tid = st[s].tid /\ new.init = st[s].init
          /\ new.ctor = st[s].ctor /\ new.result = st[s].result
          /\ new.content = [st[s].content EXCEPT ![k] = n]
      <4>1. st[s] \in Structure
        BY <1>1, Types
      <4> QED
        BY <4>1 DEF Structure
    <3> HIDE DEF new
    <3> QED
      BY <1>1, <3>1, <3>2, Types
  <2>2. /\ due \in [Thread -> [Kind -> Nat]]
        /\ [due[t] EXCEPT ![k] = n] \in [Kind -> Nat]
    BY DEF TypeOK
  <2> QED
    BY <1>3, <2>1, <2>2
<1> HIDE DEF s
<1>m. /\ \A u \in Thread \ {t} :
            /\ pc'[u] = pc[u] /\ clearing'[u] = clearing[u] /\ late'[u] = late[u]
      /\ \/ pc'[t] = pc[t] /\ pc[t] \in {"born", "run"}
         \/ pc[t] = "exiting" /\ pc'[t] = "run"
  BY <1>3 DEF TypeOK
<1>5. TypeOK'
  <2>1. late' \in [Thread -> Nat]
    <3>1. late \in [Thread -> Nat] /\ late[t] + 1 \in Nat
      BY DEF TypeOK
    <3>2. \E m \in Nat : late' = [late EXCEPT ![t] = m] \/ late' = late
      BY <1>3, <3>1
    <3> QED
      BY <3>1, <3>2
  <2>2. clearing' \in [Thread -> BOOLEAN]
    <3>1. clearing \in [Thread -> BOOLEAN]
      BY DEF TypeOK
    <3>2. \E b \in BOOLEAN : clearing' = [clearing EXCEPT ![t] = b] \/ clearing' = clearing
      BY <1>3
    <3> QED
      BY <3>1, <3>2
  <2>3. pc' \in [Thread -> {"unborn", "born", "oom", "await", "run", "new", "newcxx",
                      "newobjc", "construct", "detach", "join", "exiting", "drop", "again",
                      "ended"}]
    <3>1. pc' = pc \/ pc' = [pc EXCEPT ![t] = "run"]
      BY <1>3
    <3> QED
      BY <3>1 DEF TypeOK
  <2>4. made' \in Nat
    BY DEF TypeOK, Register, RunOne
  <2> QED
    BY <1>2, <1>4, <2>1, <2>2, <2>3, <2>4 DEF TypeOK, Structure
<1>6. FinitelyMany' /\ \A x \in Struct : st'[x].nref = own'[x] + Cardinality(Refs(x)')
  <2>1. ASSUME NEW x \in Struct, NEW u \in Thread, NEW y \in Place
        PROVE  RefersTo(u, y, x)' <=> RefersTo(u, y, x)
    BY <1>2, <1>m DEF RefersTo
  <2> QED
    BY <1>2, <1>4, <2>1, CountsStay
<1>7. /\ \A u \in Thread : param[u] # None => param[u] \in Struct
      /\ \A u \in Thread : pc[u] \in NewPC \cup {"construct"} => arg[u] \in Struct
      /\ \A u \in Thread :
            /\ pc'[u] \in NewPC \cup {"construct", "born", "oom", "await", "unborn", "detach",
                          "join", "drop", "again", "ended"}
                  <=> pc[u] \in NewPC \cup {"construct", "born", "oom", "await", "unborn",
                          "detach", "join", "drop", "again", "ended"}
            /\ pc[u] \notin {"exiting", "run"} => pc'[u] = pc[u]
            /\ pc'[u] \in Running <=> pc[u] \in Running
    BY <1>m DEF TypeOK, Struct, Placed, NewPC, Running
<1>8. Counted'
  BY <1>2, <1>4, <1>6, <1>7, <1>m DEF Counted, NewPC
<1>9. OomInUse' /\ Frees
  BY <1>2, <1>4 DEF OomInUse, Struct, Frees
<1>10. Placed'
  BY <1>2, <1>m DEF Placed, Running, Over, NewPC
<1>11. Attached'
  BY <1>2, <1>4, <1>m DEF Attached
<1>12. Making'
  <2>1. ASSUME NEW u \in Thread, pc'[u] \in NewPC \cup {"construct", "born", "oom"} \/
                                 pc[u] \in NewPC \cup {"construct", "born", "oom"}
        PROVE  pc'[u] = pc[u]
    BY <2>1, <1>m DEF NewPC
  <2>2. \A u \in Thread : pc'[u] \in Running \ {"await"} => pc[u] \in Running \ {"await"}
    BY <1>m DEF NewPC, Running
  <2>3. \A x \in Struct : st'[x].ctor = st[x].ctor /\ st'[x].init = st[x].init
                         /\ st'[x].tid = st[x].tid
    BY <1>4
  <2>4. ASSUME NEW u \in Thread, param[u] # None
        PROVE  /\ pc'[u] \in {"born", "oom"} /\ ~st'[param[u]].init =>
                     \E v \in Thread : pc'[v] \in NewPC /\ arg[v] = param[u]
               /\ pc'[u] \in Running => st'[param[u]].init
               /\ pc'[u] \in Running \ {"await"} =>
                     /\ st'[param[u]].ctor # "zero"
                     /\ outcome[u] = "none" => st'[param[u]].ctor # "cancelled"
    <3>1. /\ pc[u] \in {"born", "oom"} /\ ~st[param[u]].init =>
                \E v \in Thread : pc[v] \in NewPC /\ arg[v] = param[u]
          /\ pc[u] \in Running => st[param[u]].init
          /\ pc[u] \in Running \ {"await"} =>
                /\ st[param[u]].ctor # "zero"
                /\ outcome[u] = "none" => st[param[u]].ctor # "cancelled"
      BY <2>4 DEF Making
    <3>2. param[u] \in Struct
      BY <1>7, <2>4
    <3>3. \A v \in Thread : pc[v] \in NewPC => pc'[v] \in NewPC
      BY <2>1
    <3>4. pc'[u] \in {"born", "oom"} => pc[u] \in {"born", "oom"}
      BY <2>1
    <3> QED
      BY <1>7, <2>2, <2>3, <3>1, <3>2, <3>3, <3>4
  <2>5. ASSUME NEW u \in Thread, pc'[u] \in NewPC
        PROVE  LET x == arg[u]
                   v == st'[x].tid
               IN  ~st'[x].init /\ v \in Thread /\ pc'[v] \in {"born", "oom"} /\ param[v] = x
    BY <1>7, <2>1, <2>3, <2>5 DEF Making
  <2>6. ASSUME NEW u \in Thread, pc'[u] \in {"newcxx", "construct"}
        PROVE  st'[arg[u]].ctor = "zero" /\ own[arg[u]] = 0
    BY <1>7, <2>1, <2>3, <2>6 DEF Making, NewPC
  <2>7. ASSUME NEW u \in Thread, NEW v \in Thread, arg[u] = arg[v],
               pc'[u] \in NewPC \cup {"construct"}, pc'[v] \in NewPC \cup {"construct"}
        PROVE  u = v
    BY <2>1, <2>7 DEF Making
  <2>8. ASSUME NEW x \in Struct, st'[x].ctor = "zero"
        PROVE  \E u \in Thread : pc'[u] \in {"newcxx", "construct"} /\ arg[u] = x
    BY <2>1, <2>3, <2>8 DEF Making, NewPC
  <2> QED
    BY <1>2, <2>4, <2>5, <2>6, <2>7, <2>8 DEF Making
<1>13. Begun'
  BY <1>1, <1>2, <1>m DEF Begun, Over, s
<1>14. Resulting'
  <2>1. \A u \in Thread : /\ pc'[u] = "ended" <=> pc[u] = "ended"
                          /\ pc'[u] \in {"born", "oom"} <=> pc[u] \in {"born", "oom"}
    BY <1>m
  <2> QED
    BY <1>2, <1>4, <2>1 DEF Resulting, Result, Attached
<1>15. Emptied'
  <2> SUFFICES ASSUME NEW x \in Struct, st[x].nref > 0, self[st[x].tid] # x
               PROVE  /\ st'[x].content["table"] = 0
                      /\ st'[x].content["queue"] \in {0, LeftBy(st[x].tid)'}
    BY <1>2, <1>4 DEF Emptied
  <2>1. /\ st[x].content["table"] = 0
        /\ st[x].content["queue"] \in {0, LeftBy(st[x].tid)}
        /\ st[x].tid \in Thread
    BY DEF Stored, Emptied, Attached
  <2>2. x # s /\ self[t] # Bad
    BY <1>1, StructAssumption DEF s, Struct
  <2> QED
    BY <1>2, <1>4, <1>m, <2>1, <2>2 DEF LeftBy
<1>16. Clearing'
  <2> SUFFICES ASSUME NEW u \in Thread
               PROVE  /\ ~clearing'[u] => late'[u] = 0
                      /\ clearing'[u] => outcome[u] # "none"
                      /\ clearing'[u] /\ self[u] \in Struct =>
                            st'[self[u]].content["queue"] = late'[u]
    BY <1>2 DEF Clearing
  <2>1. /\ ~clearing[u] => late[u] = 0
        /\ clearing[u] => outcome[u] # "none"
        /\ clearing[u] /\ self[u] \in Struct => st[self[u]].content["queue"] = late[u]
    BY DEF Stored, Clearing
  <2>2. CASE u # t
    <3>1. self[u] \in Struct => self[u] # s
      BY <1>1, <2>2 DEF Counted
    <3> QED
      BY <1>4, <1>m, <2>1, <2>2, <3>1
  <2>3. CASE u = t
    <3>1. /\ st[s].content \in [Kind -> Nat] /\ late[t] \in Nat /\ clearing[t] \in BOOLEAN
          /\ "queue" \in Kind /\ clearing \in [Thread -> BOOLEAN] /\ late \in [Thread -> Nat]
      BY <1>1, Types DEF TypeOK, Kind
    <3>2. st'[s].content["queue"] = IF k = "queue" THEN n ELSE st[s].content["queue"]
      BY <1>4, <3>1
    <3>3. CASE pc[t] = "exiting"
      <4>1. /\ clearing'[t] = (k = "table") /\ late'[t] = late[t] /\ outcome[t] # "none"
            /\ IF k = "queue" THEN ~clearing[t]
                              ELSE clearing[t] \/ st[s].content["queue"] = 0
        BY <1>3, <3>1, <3>3 DEF Begun
      <4> QED
        BY <2>1, <2>3, <3>2, <4>1, <1>1 DEF s, Kind
    <3>4. CASE pc[t] # "exiting"
      <4>1. /\ clearing'[t] = clearing[t] /\ n = st[s].content[k] + 1
            /\ late'[t] = IF k = "queue" /\ clearing[t] THEN late[t] + 1 ELSE late[t]
        BY <1>3, <3>1, <3>4
      <4> QED
        BY <2>1, <2>3, <3>2, <4>1, <1>1 DEF s, Kind
    <3> QED
      BY <3>3, <3>4
  <2> QED
    BY <2>2, <2>3
<1>17. NothingLost'
  <2> SUFFICES ASSUME NEW u \in Thread
               PROVE  IF self[u] \in Struct
                      THEN due'[u] = st'[self[u]].content
                      ELSE due'[u]["table"] = 0 /\ due'[u]["queue"] = late'[u]
    BY <1>2 DEF NothingLost
  <2>1. CASE u # t
    <3>1. self[u] \in Struct => self[u] # s
      BY <1>1, <2>1 DEF Counted
    <3> QED
      BY <1>4, <1>m, <2>1, <3>1 DEF Stored, NothingLost
  <2>2. CASE u = t
    BY <1>1, <1>4, <2>2 DEF s
  <2> QED
    BY <2>1, <2>2
<1> QED
  BY <1>5, <1>6, <1>8, <1>9, <1>10, <1>11, <1>12, <1>13, <1>14, <1>15, <1>16, <1>17 DEF Stored

(***************************************************************************)
(* The procedure ends, and writes its result where that of a gthread is.   *)
(***************************************************************************)
LEMMA StepFinish ==
    ASSUME IInv, Stored, NEW t \in Thread, GiveValue(t) \/ Finish(t)
    PROVE  IInv' /\ Stored' /\ Frees
<1> USE DEF IInv
<1>1. /\ self' = self /\ param' = param /\ arg' = arg /\ own' = own /\ oomLocked' = oomLocked
      /\ due' = due /\ made' = made
      /\ late' = [late EXCEPT ![t] = 0] /\ clearing' = [clearing EXCEPT ![t] = FALSE]
      /\ pc[t] = "run" /\ pc' = [pc EXCEPT ![t] = "exiting"]
      /\ \E how \in {"value", "cancelled"} : outcome' = [outcome EXCEPT ![t] = how]
  BY DEF GiveValue, Finish, Exits, Goes, Result, TypeOK
<1>2. /\ st' \in [Struct -> Structure]
      /\ \A s \in Struct :
            /\ st'[s].nref = st[s].nref /\ st'[s].tid = st[s].tid /\ st'[s].init = st[s].init
            /\ st'[s].ctor = st[s].ctor /\ st'[s].content = st[s].content
            /\ s # self[t] => st'[s].result = st[s].result
            /\ st'[s].result # "none" <=> st[s].result # "none"
      /\ \/ \A s \in Struct : st'[s].result = st[s].result /\ outcome'[t] = Result(t)
         \/ /\ self[t] \in Struct /\ st'[self[t]].result = "value" /\ outcome'[t] = "value"
  <2>1. CASE GiveValue(t)
    <3>1. /\ st' = [st EXCEPT ![self[t]].result = "value"] /\ self[t] \in Struct
          /\ st[self[t]].result # "none" /\ outcome'[t] = "value"
      BY <2>1 DEF GiveValue, HasRecord, TypeOK
    <3> QED
      BY <3>1, Types DEF Structure
  <2>2. CASE Finish(t)
    <3>1. st' = st /\ outcome'[t] = Result(t)
      BY <2>2 DEF Finish, TypeOK, Result
    <3> QED
      BY <3>1, Types
  <2> QED
    BY <2>1, <2>2
<1>3. TypeOK'
  BY <1>1, <1>2 DEF TypeOK, Structure
<1>4. FinitelyMany' /\ \A s \in Struct : st'[s].nref = own'[s] + Cardinality(Refs(s)')
  <2>1. ASSUME NEW s \in Struct, NEW u \in Thread, NEW x \in Place
        PROVE  RefersTo(u, x, s)' <=> RefersTo(u, x, s)
    BY <1>1 DEF RefersTo, TypeOK
  <2> QED
    BY <1>1, <1>2, <2>1, CountsStay
<1>5. /\ \A u \in Thread : param[u] # None => param[u] \in Struct
      /\ \A u \in Thread : pc[u] \in NewPC \cup {"construct"} => arg[u] \in Struct
      /\ \A u \in Thread \ {t} : pc'[u] = pc[u] /\ outcome'[u] = outcome[u]
      /\ pc'[t] = "exiting" /\ outcome'[t] \in {"value", "cancelled"}
  BY <1>1 DEF TypeOK, Struct, Placed
<1>6. Counted'
  BY <1>1, <1>2, <1>4, <1>5 DEF Counted, NewPC
<1>7. OomInUse' /\ Frees
  BY <1>1, <1>2 DEF OomInUse, Struct, Frees
<1>8. Placed'
  BY <1>1, <1>5 DEF Placed, Running, Over, NewPC
<1>9. Attached'
  BY <1>1, <1>2, <1>5 DEF Attached
<1>10. Making'
  BY <1>1, <1>2, <1>5 DEF Making, Running, NewPC
<1>11. Begun'
  BY <1>1, <1>5 DEF Begun, Over
<1>12. Resulting'
  <2> SUFFICES ASSUME NEW s \in Struct, st'[s].nref > 0
               PROVE  LET u == st[s].tid IN
                      /\ (st'[s].result # "none" \/ st'[s].ctor # "none") /\ pc'[u] # "ended"
                            => param'[u] = s
                      /\ st'[s].result # "none" =>
                            /\ pc'[u] \in {"born", "oom"} => st'[s].result = "arg"
                            /\ pc'[u] \notin {"born", "oom"} => st'[s].result = Result(u)'
    BY <1>2 DEF Resulting
  <2>1. /\ st[s].nref > 0 /\ st'[s].tid = st[s].tid /\ st[s].tid \in Thread
        /\ st'[s].result # "none" <=> st[s].result # "none"
        /\ st'[s].ctor = st[s].ctor
    BY <1>2 DEF Attached
  <2>2. CASE st[s].tid # t
    <3>1. s # self[t]
      BY <2>2 DEF Counted
    <3> QED
      BY <1>1, <1>2, <1>5, <2>1, <2>2, <3>1 DEF Resulting, Result
  <2>3. CASE st[s].tid = t
    <3>1. st[s].result # "none" => param[t] = s /\ self[t] = s /\ st[s].result = Result(t)
      BY <1>1, <2>1, <2>3, StructAssumption DEF Resulting, Placed, Running, Struct
    <3>2. st[s].ctor # "none" => param[t] = s
      BY <1>1, <2>1, <2>3 DEF Resulting
    <3>3. Result(t)' = outcome'[t] /\ Result(t) # "none"
      BY <1>5 DEF Result
    <3> QED
      BY <1>1, <1>2, <1>5, <2>1, <2>3, <3>1, <3>2, <3>3
  <2> QED
    BY <2>2, <2>3
<1>13. Emptied'
  <2> SUFFICES ASSUME NEW x \in Struct, st[x].nref > 0, self[st[x].tid] # x
               PROVE  /\ st'[x].content["table"] = 0
                      /\ st'[x].content["queue"] \in {0, LeftBy(st[x].tid)'}
    BY <1>1, <1>2 DEF Emptied
  <2>1. self[t] # Bad
    BY <1>1 DEF Placed, Over
  <2> QED
    BY <1>1, <1>2, <2>1 DEF Stored, Emptied, LeftBy, TypeOK, Attached
<1>14. Clearing'
  BY <1>1, <1>2, <1>5 DEF Stored, Clearing, TypeOK
<1>15. NothingLost'
  <2>1. self[t] \notin Struct => late[t] = 0
    BY <1>1, StructAssumption DEF Stored, Clearing, Begun, Over, TypeOK
  <2> QED
    BY <1>1, <1>2, <2>1 DEF Stored, NothingLost, TypeOK
<1> QED
  BY <1>3, <1>4, <1>6, <1>7, <1>8, <1>9, <1>10, <1>11, <1>12, <1>13, <1>14, <1>15 DEF Stored

(***************************************************************************)
(* The creator sets the event of the structure that it alone makes.        *)
(***************************************************************************)
LEMMA StepLetGo ==
    ASSUME IInv, NEW t \in Thread, LetGo(t)
    PROVE  IInv' /\ Keeps
<1> USE DEF IInv
<1> DEFINE s == arg[t]
<1>1. /\ self' = self /\ param' = param /\ outcome' = outcome /\ own' = own
      /\ oomLocked' = oomLocked /\ due' = due /\ made' = made
      /\ late' = late /\ clearing' = clearing
      /\ pc[t] \in NewPC /\ s \in Struct
  BY DEF LetGo, countVars, endVars, Placed, NewPC
<1>2. /\ st' \in [Struct -> Structure]
      /\ \A x \in Struct :
            /\ st'[x].nref = st[x].nref /\ st'[x].tid = st[x].tid
            /\ x # s => st'[x].init = st[x].init
            /\ x = s => st'[x].init = TRUE
            /\ st'[x].ctor = st[x].ctor /\ st'[x].content = st[x].content
            /\ st'[x].result = st[x].result
  <2>1. st' = [st EXCEPT ![s].init = TRUE]
    BY DEF LetGo
  <2> QED
    BY <1>1, <2>1, Types DEF Structure
<1>3. \A u \in Thread \ {t} : pc'[u] = pc[u] /\ arg'[u] = arg[u]
  BY DEF LetGo, Goes, TypeOK
<1>4. \/ pc[t] = "new" /\ pc'[t] = "run" /\ arg'[t] = None
      \/ pc[t] = "newcxx" /\ pc'[t] = "construct" /\ arg'[t] = s
      \/ pc[t] = "newobjc" /\ pc'[t] = "detach" /\ arg'[t] = s
  BY <1>1 DEF LetGo, Goes, TypeOK, NewPC
<1> HIDE DEF s
<1>5. TypeOK'
  <2>1. pc' \in [Thread -> {"unborn", "born", "oom", "await", "run", "new", "newcxx",
                    "newobjc", "construct", "detach", "join", "exiting", "drop", "again",
                      "ended"}]
        /\ arg' \in [Thread -> Struct \cup {None}]
    BY DEF LetGo, Goes, TypeOK
  <2> QED
    BY <1>1, <1>2, <2>1 DEF TypeOK, Structure
<1>6. FinitelyMany' /\ \A x \in Struct : st'[x].nref = own'[x] + Cardinality(Refs(x)')
  <2>1. ASSUME NEW x \in Struct, NEW u \in Thread, NEW y \in Place
        PROVE  RefersTo(u, y, x)' <=> RefersTo(u, y, x)
    <3>1. CASE u # t
      BY <1>1, <1>3, <3>1 DEF RefersTo
    <3>2. CASE u = t
      BY <1>1, <1>4, <3>2, StructAssumption DEF RefersTo, Struct, s
    <3> QED
      BY <3>1, <3>2
  <2> QED
    BY <1>1, <1>2, <2>1, CountsStay
<1>7. /\ \A u \in Thread : param[u] # None => param[u] \in Struct
      /\ \A u \in Thread : pc[u] \in NewPC \cup {"construct"} => arg[u] \in Struct
      /\ s \in Struct /\ arg[t] = s
  BY <1>1 DEF TypeOK, Struct, Placed, s
<1>8. Counted'
  BY <1>1, <1>2, <1>3, <1>4, <1>6, <1>7 DEF Counted, NewPC
<1>9. OomInUse'
  BY <1>1, <1>2 DEF OomInUse, Struct
<1>10. Placed'
  <2>1. pc[t] \in Running /\ pc'[t] \in Running
    BY <1>4 DEF Running, NewPC
  <2> QED
    BY <1>1, <1>3, <1>4, <1>7, <2>1 DEF Placed, Running, Over, NewPC
<1>11. Attached' /\ Keeps
  BY <1>1, <1>2, <1>3, <1>4 DEF Attached, Keeps
<1>12. Making'
  <2>1. ASSUME NEW u \in Thread, pc'[u] \in NewPC
        PROVE  /\ u # t /\ arg'[u] = arg[u] /\ arg[u] \in Struct \ {s}
               /\ LET v == st[arg[u]].tid
                  IN  v \in Thread /\ pc'[v] \in {"born", "oom"} /\ param[v] = arg[u]
    <3>1. u # t /\ pc[u] \in NewPC /\ arg'[u] = arg[u]
      BY <1>3, <1>4, <2>1 DEF NewPC
    <3>2. arg[u] \in Struct \ {s}
      BY <1>1, <1>7, <3>1 DEF Making
    <3> QED
      BY <1>3, <1>4, <3>1, <3>2 DEF Making, NewPC
  <2>2. ASSUME NEW u \in Thread, pc'[u] \in {"newcxx", "construct"}
        PROVE  st'[arg'[u]].ctor = "zero" /\ own'[arg'[u]] = 0
    BY <1>1, <1>2, <1>3, <1>4, <1>7, <2>2 DEF Making, NewPC
  <2>3. ASSUME NEW u \in Thread, NEW v \in Thread, arg'[u] = arg'[v],
               pc'[u] \in NewPC \cup {"construct"}, pc'[v] \in NewPC \cup {"construct"}
        PROVE  u = v
    BY <1>3, <1>4, <1>7, <2>3 DEF Making, NewPC
  <2>4. ASSUME NEW x \in Struct, st'[x].ctor = "zero"
        PROVE  \E u \in Thread : pc'[u] \in {"newcxx", "construct"} /\ arg'[u] = x
    <3>1. PICK u \in Thread : pc[u] \in {"newcxx", "construct"} /\ arg[u] = x
      BY <1>2, <2>4 DEF Making
    <3> QED
      BY <1>3, <1>4, <1>7, <3>1
  <2>5. ASSUME NEW u \in Thread, param'[u] # None
        PROVE  /\ pc'[u] \in {"born", "oom"} /\ ~st'[param'[u]].init =>
                     \E v \in Thread : pc'[v] \in NewPC /\ arg'[v] = param'[u]
               /\ pc'[u] \in Running => st'[param'[u]].init
               /\ pc'[u] \in Running \ {"await"} =>
                     /\ st'[param'[u]].ctor # "zero"
                     /\ outcome'[u] = "none" => st'[param'[u]].ctor # "cancelled"
    <3>1. param'[u] = param[u] /\ param[u] \in Struct
      BY <1>1, <1>7, <2>5
    <3>2. CASE pc'[u] \in {"born", "oom"} /\ ~st'[param'[u]].init
      <4>1. pc[u] \in {"born", "oom"} /\ ~st[param[u]].init /\ param[u] # s
        BY <1>2, <1>3, <1>4, <3>1, <3>2
      <4>2. PICK v \in Thread : pc[v] \in NewPC /\ arg[v] = param[u]
        BY <1>1, <2>5, <4>1 DEF Making
      <4>3. pc'[v] \in NewPC /\ arg'[v] = param'[u]
        BY <1>3, <1>7, <3>1, <4>1, <4>2
      <4>4. pc'[u] \notin Running
        BY <3>2 DEF Running, NewPC
      <4> QED
        BY <4>2, <4>3, <4>4
    <3>3. CASE pc'[u] \in Running
      <4>1. pc[u] \in Running /\ (pc'[u] # "await" => pc[u] # "await")
        BY <1>3, <1>4, <3>3 DEF Running, NewPC
      <4> QED
        BY <1>1, <1>2, <2>5, <3>1, <3>3, <4>1 DEF Making, Running, NewPC
    <3> QED
      BY <3>2, <3>3 DEF Running
  <2>6. ASSUME NEW u \in Thread, pc'[u] \in NewPC
        PROVE  LET x == arg'[u]
                   v == st'[x].tid
               IN  ~st'[x].init /\ v \in Thread /\ pc'[v] \in {"born", "oom"} /\ param'[v] = x
    <3>1. pc[u] \in NewPC
      BY <1>3, <2>1, <2>6
    <3> QED
      BY <1>1, <1>2, <2>1, <2>6, <3>1 DEF Making
  <2> QED
    BY <2>2, <2>3, <2>4, <2>5, <2>6 DEF Making
<1>13. Begun'
  BY <1>1, <1>3, <1>4 DEF Begun, Over
<1>14. Resulting'
  <2>1. \A u \in Thread :
            /\ pc'[u] = "ended" <=> pc[u] = "ended"
            /\ pc'[u] \in {"born", "oom"} <=> pc[u] \in {"born", "oom"}
    BY <1>3, <1>4
  <2> QED
    BY <1>1, <1>2, <2>1 DEF Resulting, Attached, Result
<1> QED
  BY <1>5, <1>6, <1>8, <1>9, <1>10, <1>11, <1>12, <1>13, <1>14

LEMMA StepConstruct ==
    ASSUME IInv, NEW t \in Thread, Construct(t) \/ CancelThread(t)
    PROVE  IInv' /\ Keeps
<1> USE DEF IInv
<1>0. PICK s \in Struct : arg[t] = s
  BY DEF Construct, CancelThread, Placed
<1>1. /\ self' = self /\ param' = param /\ outcome' = outcome
      /\ oomLocked' = oomLocked /\ due' = due /\ made' = made /\ late' = late
      /\ clearing' = clearing
      /\ pc[t] = "construct" /\ s # None /\ own[s] = 0 /\ st[s].ctor = "zero"
  BY <1>0, StructAssumption DEF Construct, CancelThread, countVars, endVars, Making, Struct
<1>2. PICK to \in {"run", "detach"} :
          /\ pc' = [pc EXCEPT ![t] = to]
          /\ arg' = [arg EXCEPT ![t] = IF to = "run" THEN None ELSE @]
          /\ own' = [own EXCEPT ![s] = IF to = "run" THEN 1 ELSE 0]
          /\ st' = [st EXCEPT ![s].ctor = IF to = "run" THEN "constructed" ELSE "cancelled"]
  <2>1. CASE Construct(t)
    BY <1>0, <2>1 DEF Construct, Goes
  <2>2. CASE CancelThread(t)
    BY <1>0, <1>1, <2>2 DEF CancelThread, Goes, TypeOK
  <2> QED
    BY <2>1, <2>2
<1>3. /\ st' \in [Struct -> Structure]
      /\ \A x \in Struct :
            /\ st'[x].nref = st[x].nref /\ st'[x].tid = st[x].tid
            /\ st'[x].init = st[x].init /\ st'[x].content = st[x].content
            /\ st'[x].result = st[x].result
      /\ \A x \in Struct \ {s} : st'[x] = st[x]
      /\ st'[s].ctor = IF to = "run" THEN "constructed" ELSE "cancelled"
  BY <1>2, Types DEF Structure
<1>4. TypeOK'
  BY <1>1, <1>2, <1>3 DEF TypeOK, Structure
<1>5. FinitelyMany' /\ \A x \in Struct : st'[x].nref = own'[x] + Cardinality(Refs(x)')
  <2>1. ASSUME NEW x \in Struct, x # s \/ to = "detach"
        PROVE  Refs(x)' = Refs(x) /\ own'[x] = own[x]
    <3>1. \A u \in Thread, y \in Place : RefersTo(u, y, x)' <=> RefersTo(u, y, x)
      BY <1>0, <1>1, <1>2, <2>1, StructAssumption DEF RefersTo, TypeOK, Struct
    <3> QED
      BY <1>1, <1>2, <2>1, <3>1, RefsStay DEF TypeOK
  <2>2. CASE to = "detach"
    BY <1>3, <2>1, <2>2 DEF FinitelyMany, Counted
  <2>3. CASE to = "run"
    <3>1. \A u \in Thread, x \in Place :
              RefersTo(u, x, s)' <=> (RefersTo(u, x, s) /\ ~(u = t /\ x = "arg"))
      BY <1>0, <1>1, <1>2, <2>3, StructAssumption DEF RefersTo, TypeOK, Struct, Place
    <3>2. RefersTo(t, "arg", s)
      BY <1>1, <1>0 DEF RefersTo
    <3>3. IsFiniteSet(Refs(s)') /\ Cardinality(Refs(s)') = Cardinality(Refs(s)) - 1
      BY <3>1, <3>2, RefDropped DEF FinitelyMany, Place
    <3>4. Cardinality(Refs(s)) \in Nat
      BY FS_CardinalityType DEF FinitelyMany
    <3>5. st'[s].nref = own'[s] + Cardinality(Refs(s)')
      BY <1>1, <1>2, <1>3, <2>3, <3>3, <3>4 DEF Counted, TypeOK
    <3> QED
      BY <1>3, <2>1, <3>3, <3>5 DEF Counted, FinitelyMany
  <2> QED
    BY <2>2, <2>3
<1>6. Making' /\ Placed'
  <2>1. \A x \in Struct \ {s} : own'[x] = own[x]
    BY <1>2 DEF TypeOK
  <2>2. ASSUME NEW u \in Thread, pc[u] \in Running \ {"await"}, param[u] = s
        PROVE  FALSE
    BY <1>1, <2>2 DEF Making
  <2>3. \A x \in Struct \ {s} : st'[x] = st[x] /\ own'[x] = own[x]
    BY <1>3, <2>1
  <2>4. \A u \in Thread :
            /\ pc[u] \in {"born", "oom"} \cup Running /\ param[u] = s
                  => st'[s].init = st[s].init
            /\ pc[u] \in Running \ {"await"} /\ param[u] = s => st'[s].ctor # "cancelled"
    BY <1>3, <2>2
  <2>5. st'[s].ctor \in {"none", "constructed", "cancelled"}
    BY <1>3
  <2> QED
    BY <1>0, <1>1, <1>2, <2>3, <2>4, <2>5, ConstructorDone
<1>7. Counted'
  <2>1. \A u \in Thread : /\ param[u] # None => param[u] \in Struct
                          /\ pc'[u] = "new" => pc[u] = "new" /\ arg'[u] = arg[u]
                                               /\ arg[u] \in Struct
                          /\ pc'[u] \in {"born", "oom"} => pc[u] = pc'[u]
    BY <1>2 DEF TypeOK, Struct, Placed, NewPC
  <2> QED
    BY <1>1, <1>3, <1>5, <2>1 DEF Counted
<1>8. OomInUse'
  BY <1>1, <1>3 DEF OomInUse, Struct
<1>9. Attached' /\ Keeps
  BY <1>1, <1>2, <1>3 DEF Attached, Keeps, TypeOK
<1>10. Begun'
  BY <1>1, <1>2 DEF Begun, Over, TypeOK
<1>11. Resulting'
  <2>1. \A u \in Thread :
            /\ pc'[u] = "ended" <=> pc[u] = "ended"
            /\ pc'[u] \in {"born", "oom"} <=> pc[u] \in {"born", "oom"}
    BY <1>1, <1>2 DEF TypeOK
  <2>2. \A x \in Struct : st'[x].ctor # "none" => st[x].ctor # "none"
    BY <1>1, <1>3
  <2> QED
    BY <1>1, <1>3, <2>1, <2>2 DEF Resulting, Attached, Result
<1> QED
  BY <1>4, <1>5, <1>6, <1>7, <1>8, <1>9, <1>10, <1>11

(***************************************************************************)
(* The program gets another reference to a structure.                      *)
(***************************************************************************)
LEMMA StepAddRef ==
    ASSUME IInv, NEW t \in Thread, NEW s \in Struct, AddRef(t, s)
    PROVE  IInv' /\ Keeps
<1> USE DEF IInv
<1>1. /\ pc' = pc /\ self' = self /\ param' = param /\ arg' = arg /\ outcome' = outcome
      /\ oomLocked' = oomLocked /\ due' = due /\ made' = made
      /\ late' = late /\ clearing' = clearing
      /\ pc[t] \in {"born", "run"} /\ own' = [own EXCEPT ![s] = @ + 1]
      /\ own[s] > 0 \/ self[t] = s
  BY DEF AddRef, threadVars, countVars, endVars
<1>2. st[s].nref > 0 /\ st[s].nref \in Nat /\ own[s] \in Nat
  <2>1. self[t] = s => RefersTo(t, "self", s)
    BY DEF RefersTo
  <2> QED
    BY <1>1, <2>1, Held, Unheld, Types DEF Place, TypeOK
<1>3. /\ st' \in [Struct -> Structure]
      /\ \A x \in Struct \ {s} : st'[x] = st[x]
      /\ st'[s].nref = st[s].nref + 1
      /\ \A x \in Struct :
            /\ st'[x].tid = st[x].tid /\ st'[x].init = st[x].init
            /\ st'[x].content = st[x].content /\ st'[x].ctor = st[x].ctor
            /\ st'[x].result = st[x].result
            /\ st'[x].nref > 0 <=> st[x].nref > 0
  <2>1. st' = [st EXCEPT ![s].nref = @ + 1]
    BY DEF AddRef
  <2> QED
    BY <1>2, <2>1, Types DEF Structure
<1>4. TypeOK'
  <2>1. own' \in [Struct -> Nat]
    BY <1>1, <1>2 DEF TypeOK
  <2> QED
    BY <1>1, <1>3, <2>1 DEF TypeOK, Structure
<1>5. FinitelyMany' /\ \A x \in Struct : st'[x].nref = own'[x] + Cardinality(Refs(x)')
  <2>1. \A x \in Struct : Refs(x)' = Refs(x)
    BY <1>1, RefsStay DEF RefersTo
  <2>2. Cardinality(Refs(s)) \in Nat
    BY FS_CardinalityType DEF FinitelyMany
  <2> QED
    BY <1>1, <1>2, <1>3, <2>1, <2>2 DEF FinitelyMany, Counted, TypeOK
<1>6. /\ \A u \in Thread : param[u] # None => param[u] \in Struct
      /\ \A u \in Thread : pc[u] \in NewPC \cup {"construct"} => arg[u] \in Struct
  BY DEF TypeOK, Struct, Placed
<1>7. Counted'
  BY <1>1, <1>3, <1>5, <1>6 DEF Counted, NewPC
<1>8. OomInUse'
  BY <1>1, <1>3, Types DEF OomInUse, Struct
<1>9. Placed'
  BY <1>1 DEF Placed
<1>10. Attached' /\ Keeps
  BY <1>1, <1>3 DEF Attached, Keeps
<1>11. Making'
  <2>1. ASSUME NEW u \in Thread, pc[u] \in {"newcxx", "construct"}
        PROVE  own'[arg[u]] = 0
    <3>1. own[arg[u]] = 0 /\ st[arg[u]].ctor = "zero" /\ arg[u] \in Struct
      BY <1>6, <2>1 DEF Making, NewPC
    <3>2. SUFFICES ASSUME arg[u] = s PROVE FALSE
      BY <1>1, <3>1 DEF TypeOK
    <3>3. self[t] = s /\ st[s].tid = t
      BY <1>1, <3>1, <3>2 DEF Counted
    <3>4. param[t] = s
      BY <1>1, <1>2, <3>1, <3>2, <3>3 DEF Resulting
    <3>5. pc[t] = "run"
      BY <1>1, <3>3, <3>4, StructAssumption DEF Placed, Struct
    <3> QED
      BY <3>1, <3>2, <3>4, <3>5, StructAssumption DEF Making, Running, Struct
  <2> QED
    BY <1>1, <1>3, <1>6, <2>1 DEF Making, NewPC
<1>12. Begun'
  BY <1>1 DEF Begun
<1>13. Resulting'
  BY <1>1, <1>3 DEF Resulting, Result
<1> QED
  BY <1>4, <1>5, <1>7, <1>8, <1>9, <1>10, <1>11, <1>12, <1>13

(***************************************************************************)
(* A reference goes from one place to another, and its structure is not    *)
(* touched: who joins takes that of the program, and the slot is poisoned. *)
(***************************************************************************)
LEMMA StepHandsOver ==
    ASSUME IInv, Stored, NEW t \in Thread, NEW s \in Struct,
           Join(t, s) \/ (Poison(t) /\ self[t] = s)
    PROVE  IInv' /\ Stored' /\ Frees
<1> USE DEF IInv
<1>1. /\ st' = st /\ param' = param /\ outcome' = outcome /\ oomLocked' = oomLocked
      /\ due' = due /\ made' = made /\ late' = late /\ clearing' = clearing /\ arg' = [arg EXCEPT ![t] = s]
  BY DEF Join, Poison, countVars, endVars
<1>2. \/ /\ pc[t] = "run" /\ pc' = [pc EXCEPT ![t] = "join"] /\ self' = self
         /\ own[s] > 0 /\ own' = [own EXCEPT ![s] = @ - 1]
      \/ /\ pc[t] = "exiting" /\ pc' = [pc EXCEPT ![t] = "drop"] /\ self[t] = s
         /\ self' = [self EXCEPT ![t] = Bad] /\ own' = own
         /\ st[s].content["table"] = 0
         /\ clearing[t] \/ st[s].content["queue"] = 0
  BY DEF Join, Poison, AllDone, MayJoin, Goes
<1>3. TypeOK'
  <2>1. own' \in [Struct -> Nat]
    <3>1. own \in [Struct -> Nat] /\ own[s] \in Nat
      BY DEF TypeOK
    <3> QED
      BY <1>2, <3>1
  <2> QED
    BY <1>1, <1>2, <2>1 DEF TypeOK
<1>4. /\ \A u \in Thread \ {t} : /\ pc'[u] = pc[u] /\ arg'[u] = arg[u] /\ self'[u] = self[u]
      /\ arg'[t] = s /\ s # None /\ s # Bad
      /\ \/ pc[t] = "run" /\ pc'[t] = "join" /\ self'[t] = self[t]
         \/ pc[t] = "exiting" /\ pc'[t] = "drop" /\ self[t] = s /\ self'[t] = Bad
      /\ \A x \in Struct : own[x] = 0 => own'[x] = 0
      /\ Bad \notin Struct
  BY <1>1, <1>2, StructAssumption DEF TypeOK, Struct
<1>5. FinitelyMany' /\ \A x \in Struct : st'[x].nref = own'[x] + Cardinality(Refs(x)')
  <2>1. ASSUME NEW x \in Struct \ {s}
        PROVE  Refs(x)' = Refs(x) /\ own'[x] = own[x]
    <3>1. \A u \in Thread, y \in Place : RefersTo(u, y, x)' <=> RefersTo(u, y, x)
      BY <1>1, <1>4 DEF RefersTo
    <3> QED
      BY <1>2, <3>1, RefsStay DEF TypeOK
  <2>2. IsFiniteSet(Refs(s)) /\ Cardinality(Refs(s)) \in Nat
    BY FS_CardinalityType DEF FinitelyMany
  <2>3. CASE pc[t] = "run"
    <3>1. \A u \in Thread, x \in Place :
              RefersTo(u, x, s)' <=> (RefersTo(u, x, s) \/ (u = t /\ x = "arg"))
      BY <1>1, <1>4, <2>3 DEF RefersTo, Place
    <3>2. ~RefersTo(t, "arg", s)
      BY <2>3 DEF RefersTo
    <3>3. IsFiniteSet(Refs(s)') /\ Cardinality(Refs(s)') = Cardinality(Refs(s)) + 1
      BY <2>2, <3>1, <3>2, RefAdded DEF Place
    <3>4. own'[s] = own[s] - 1 /\ own[s] \in Nat
      BY <1>2, <2>3 DEF TypeOK
    <3> QED
      BY <1>1, <2>1, <2>2, <3>3, <3>4 DEF FinitelyMany, Counted
  <2>4. CASE pc[t] = "exiting"
    <3>1. Refs(s)' = (Refs(s) \ {<<t, "self">>}) \cup {<<t, "arg">>}
      <4>1. ASSUME NEW u \in Thread, NEW x \in Place
            PROVE  RefersTo(u, x, s)' <=> \/ RefersTo(u, x, s) /\ ~(u = t /\ x = "self")
                                          \/ u = t /\ x = "arg"
        BY <1>1, <1>4, <2>4 DEF RefersTo, Place
      <4>2. ASSUME NEW r \in Thread \X Place
            PROVE  r \in Refs(s)' <=> r \in (Refs(s) \ {<<t, "self">>}) \cup {<<t, "arg">>}
        <5>1. PICK u \in Thread, x \in Place : r = <<u, x>>
          OBVIOUS
        <5> QED
          BY <4>1, <5>1, RefsIff
      <4> QED
        BY <4>2, RefsArePairs DEF Place
    <3>2. <<t, "self">> \in Refs(s) /\ <<t, "arg">> \notin Refs(s)
      BY <1>4, <2>4, RefsIff DEF RefersTo, Place
    <3>3. /\ IsFiniteSet(Refs(s) \ {<<t, "self">>})
          /\ Cardinality(Refs(s) \ {<<t, "self">>}) = Cardinality(Refs(s)) - 1
      BY <2>2, <3>2, FS_RemoveElement
    <3>4. IsFiniteSet(Refs(s)') /\ Cardinality(Refs(s)') = Cardinality(Refs(s))
      <4> DEFINE rest == Refs(s) \ {<<t, "self">>}
      <4>1. <<t, "arg">> \notin rest /\ IsFiniteSet(rest)
        BY <3>2, <3>3
      <4>2. /\ IsFiniteSet(rest \cup {<<t, "arg">>})
            /\ Cardinality(rest \cup {<<t, "arg">>}) = Cardinality(rest) + 1
        BY <4>1, FS_AddElement
      <4> QED
        BY <2>2, <3>1, <3>3, <4>2
    <3>5. own' = own
      BY <1>2, <2>4
    <3> QED
      BY <1>1, <2>1, <3>4, <3>5 DEF FinitelyMany, Counted
  <2> QED
    BY <1>4, <2>3, <2>4
<1>6. Counted'
  BY <1>1, <1>4, <1>5 DEF Counted
<1>7. OomInUse' /\ Frees
  BY <1>1 DEF OomInUse, Frees
<1>8. Placed'
  BY <1>1, <1>4 DEF Placed, Running, Over, NewPC
<1>9. Attached'
  BY <1>1, <1>4 DEF Attached
<1>10. Making'
  <2>1. \A u \in Thread :
            /\ pc'[u] \in NewPC \cup {"construct", "born", "oom", "await"}
                  => pc'[u] = pc[u] /\ arg'[u] = arg[u]
            /\ pc[u] \in NewPC \cup {"construct", "born", "oom", "await"}
                  => pc'[u] = pc[u] /\ arg'[u] = arg[u]
            /\ pc'[u] \in Running => pc[u] \in Running
            /\ pc[u] \in NewPC \cup {"construct"} => arg[u] \in Struct
    BY <1>4 DEF NewPC, Running, Placed
  <2> QED
    BY <1>1, <1>4, <2>1 DEF Making, NewPC
<1>11. Begun'
  BY <1>1, <1>4 DEF Begun, Over
<1>12. Resulting'
  <2>1. \A u \in Thread : /\ pc'[u] = "ended" <=> pc[u] = "ended"
                          /\ pc'[u] \in {"born", "oom"} <=> pc[u] \in {"born", "oom"}
    BY <1>4
  <2> QED
    BY <1>1, <2>1 DEF Resulting, Attached, Result
<1>13. /\ clearing[t] /\ self[t] \in Struct => st[self[t]].content["queue"] = late[t]
       /\ ~clearing[t] => late[t] = 0
  BY DEF Stored, Clearing
<1>14. Emptied'
  <2> SUFFICES ASSUME NEW x \in Struct, st[x].nref > 0, self'[st[x].tid] # x
               PROVE  /\ st[x].content["table"] = 0
                      /\ st[x].content["queue"] \in {0, LeftBy(st[x].tid)'}
    BY <1>1 DEF Emptied
  <2>1. CASE self[st[x].tid] # x
    <3>1. /\ st[x].content["table"] = 0
          /\ st[x].content["queue"] \in {0, LeftBy(st[x].tid)}
          /\ st[x].tid \in Thread
      BY <2>1 DEF Stored, Emptied, Attached
    <3> QED
      BY <1>1, <1>4, <3>1 DEF LeftBy
  <2>2. CASE self[st[x].tid] = x
    <3>1. st[x].tid = t /\ self[t] = s /\ x = s /\ self'[t] = Bad /\ pc[t] = "exiting"
      BY <1>4, <2>2 DEF Attached
    <3> QED
      BY <1>1, <1>2, <1>13, <3>1 DEF LeftBy
  <2> QED
    BY <2>1, <2>2
<1>15. Clearing'
  BY <1>1, <1>4 DEF Stored, Clearing
<1>16. NothingLost'
  <2>1. CASE pc[t] = "run"
    BY <1>1, <1>4, <2>1 DEF Stored, NothingLost
  <2>2. CASE pc[t] = "exiting"
    <3>1. due[t] = st[s].content /\ self[t] = s /\ self'[t] \notin Struct
      BY <1>4, <2>2 DEF Stored, NothingLost
    <3>2. due[t]["table"] = 0 /\ due[t]["queue"] = late[t]
      BY <1>2, <1>13, <2>2, <3>1
    <3> QED
      BY <1>1, <1>4, <3>1, <3>2 DEF Stored, NothingLost
  <2> QED
    BY <1>4, <2>1, <2>2
<1> QED
  BY <1>3, <1>5, <1>6, <1>7, <1>8, <1>9, <1>10, <1>11, <1>12, <1>14, <1>15, <1>16 DEF Stored

(***************************************************************************)
(* Nobody refers to a structure that has been freed.                       *)
(***************************************************************************)
LEMMA Unused ==
    ASSUME IInv, NEW s \in Struct, st[s].nref = 0
    PROVE  /\ own[s] = 0 /\ Refs(s) = {} /\ s # None
           /\ \A u \in Thread :
                 /\ self[u] # s
                 /\ pc[u] \in {"born", "oom"} \cup Running => param[u] # s
                 /\ pc[u] \in NewPC \cup {"construct", "detach", "join", "drop"} => arg[u] # s
<1> USE DEF IInv
<1>1. own[s] = 0 /\ Refs(s) = {} /\ s # None
  BY Unheld, StructAssumption DEF Struct
<1>2. ASSUME NEW u \in Thread
      PROVE  ~RefersTo(u, "self", s) /\ ~RefersTo(u, "param", s) /\ ~RefersTo(u, "arg", s)
  BY Unheld DEF Place
<1>3. \A u \in Thread : self[u] # s
  BY <1>2 DEF RefersTo
<1>4. ASSUME NEW u \in Thread, pc[u] \in {"born", "oom"} \cup Running
      PROVE  param[u] # s
  BY <1>1, <1>2, <1>3, <1>4 DEF RefersTo, Placed
<1>5. ASSUME NEW u \in Thread, pc[u] \in NewPC \cup {"construct", "detach", "join", "drop"}
      PROVE  arg[u] # s
  BY <1>2, <1>5 DEF RefersTo, Counted, NewPC
<1> QED
  BY <1>1, <1>3, <1>4, <1>5

(***************************************************************************)
(* A new structure, to which nobody refers yet.                            *)
(***************************************************************************)
LEMMA StepCreate ==
    ASSUME IInv, Stored, NEW t \in Thread, NEW v \in Thread, NEW s \in Block, NEW f \in Creators,
           Create(t, v, s, f)
    PROVE  IInv' /\ Stored' /\ Frees
<1> USE DEF IInv
<1> DEFINE to == CASE f.for = "program" -> "new"
                   [] f.for = "constructor" -> "newcxx"
                   [] OTHER -> "newobjc"
           mine == IF to = "new" THEN 1 ELSE 0
<1>1. /\ self' = self /\ outcome' = outcome /\ oomLocked' = oomLocked
      /\ due' = due /\ made' = made /\ late' = late /\ clearing' = clearing
      /\ pc[t] = "run" /\ pc[v] = "unborn" /\ st[s].nref = 0
      /\ st' = [st EXCEPT ![s] = Fresh(v, 2, f.data)]
      /\ pc' = [pc EXCEPT ![t] = to, ![v] = "born"]
      /\ param' = [param EXCEPT ![v] = s] /\ arg' = [arg EXCEPT ![t] = s]
      /\ own' = [own EXCEPT ![s] = mine]
  BY DEF Create, countVars, endVars
<1>2. to \in NewPC /\ (f.data = "cxx" <=> to = "newcxx") /\ s \in Struct /\ s # None
  BY StructAssumption DEF Creators, gthr_create_v3, libcxx_thread_create, thrd_create,
     objc_thread_detach, cxx_thread, NewPC, Struct
<1> HIDE DEF to
<1>3. /\ st' \in [Struct -> Structure]
      /\ \A x \in Struct \ {s} : st'[x] = st[x]
      /\ st'[s].nref = 2 /\ st'[s].tid = v /\ st'[s].init = FALSE
      /\ st'[s].content = Nothing
      /\ st'[s].ctor = IF to = "newcxx" THEN "zero" ELSE "none"
      /\ st'[s].result \in {"none", "arg"}
  <2> DEFINE new == Fresh(v, 2, f.data)
  <2>1. /\ new \in Structure /\ new.nref = 2 /\ new.tid = v /\ new.init = FALSE
        /\ new.content = Nothing /\ new.ctor = IF to = "newcxx" THEN "zero" ELSE "none"
        /\ new.result \in {"none", "arg"}
    <3>1. /\ new \in Structure /\ new.nref = 2 /\ new.tid = v /\ new.init = FALSE
          /\ new.content = Nothing
          /\ new.ctor = IF f.data = "cxx" THEN "zero" ELSE "none"
          /\ new.result = IF f.data = "gthread" THEN "arg" ELSE "none"
      BY BlankFacts DEF Fresh, Structure
    <3> HIDE DEF new
    <3> QED
      BY <1>2, <3>1
  <2> HIDE DEF new
  <2>2. st' = [st EXCEPT ![s] = new]
    BY <1>1 DEF new
  <2> QED
    BY <1>2, <2>1, <2>2, Types
<1>4. /\ t # v
      /\ \A u \in Thread \ {t, v} : pc'[u] = pc[u] /\ param'[u] = param[u] /\ arg'[u] = arg[u]
      /\ pc'[t] = to /\ pc'[v] = "born" /\ arg'[t] = s /\ arg'[v] = arg[v]
      /\ param'[t] = param[t] /\ param'[v] = s
      /\ \A x \in Struct \ {s} : own'[x] = own[x]
      /\ own'[s] = mine
      /\ self[v] = None
  BY <1>1, <1>2 DEF TypeOK, Placed
<1>5. /\ own[s] = 0 /\ Refs(s) = {}
      /\ \A u \in Thread :
            /\ self[u] # s
            /\ pc[u] \in {"born", "oom"} \cup Running => param[u] # s
            /\ pc[u] \in NewPC \cup {"construct", "detach", "join", "drop"} => arg[u] # s
  BY <1>1, <1>2, Unused
<1>6. TypeOK'
  <2>1. /\ pc' \in [Thread -> {"unborn", "born", "oom", "await", "run", "new", "newcxx",
                    "newobjc", "construct", "detach", "join", "exiting", "drop", "again",
                      "ended"}]
        /\ param' \in [Thread -> Block \cup {None}] /\ arg' \in [Thread -> Struct \cup {None}]
        /\ own' \in [Struct -> Nat]
    BY <1>1, <1>2 DEF TypeOK, NewPC
  <2> QED
    BY <1>1, <1>3, <2>1 DEF TypeOK, Structure
<1>7. FinitelyMany' /\ \A x \in Struct : st'[x].nref = own'[x] + Cardinality(Refs(x)')
  <2>1. ASSUME NEW x \in Struct \ {s}
        PROVE  Refs(x)' = Refs(x)
    <3>1. ASSUME NEW u \in Thread, NEW y \in Place
          PROVE  RefersTo(u, y, x)' <=> RefersTo(u, y, x)
      <4>1. CASE u = t
        BY <1>1, <1>2, <1>4, <4>1 DEF RefersTo, NewPC
      <4>2. CASE u = v
        BY <1>1, <1>2, <1>4, <4>2 DEF RefersTo, NewPC
      <4>3. CASE u \notin {t, v}
        BY <1>1, <1>4, <4>3 DEF RefersTo, NewPC
      <4> QED
        BY <4>1, <4>2, <4>3
    <3> QED
      BY <3>1, RefsStay
  <2>2. ASSUME NEW u \in Thread, NEW x \in Place
        PROVE  RefersTo(u, x, s)' <=> \/ u = v /\ x = "param"
                                      \/ u = t /\ x = "arg" /\ to # "new"
    <3>1. CASE u = t
      BY <1>1, <1>2, <1>4, <1>5, <3>1 DEF RefersTo, NewPC, Place
    <3>2. CASE u = v
      BY <1>1, <1>2, <1>4, <1>5, <3>2 DEF RefersTo, NewPC, Place
    <3>3. CASE u \notin {t, v}
      BY <1>1, <1>4, <1>5, <3>3 DEF RefersTo, NewPC, Place
    <3> QED
      BY <3>1, <3>2, <3>3
  <2>3. Refs(s)' = IF to = "new" THEN {<<v, "param">>} ELSE {<<v, "param">>} \cup {<<t, "arg">>}
    <3>1. ASSUME NEW r \in Thread \X Place
          PROVE  r \in Refs(s)' <=> \/ r = <<v, "param">>
                                    \/ r = <<t, "arg">> /\ to # "new"
      <4>1. PICK u \in Thread, x \in Place : r = <<u, x>>
        OBVIOUS
      <4> QED
        BY <2>2, <4>1, RefsIff
    <3> QED
      BY <3>1, RefsArePairs DEF Place
  <2>4. /\ IsFiniteSet({<<v, "param">>}) /\ Cardinality({<<v, "param">>}) = 1
        /\ IsFiniteSet({<<v, "param">>} \cup {<<t, "arg">>})
        /\ Cardinality({<<v, "param">>} \cup {<<t, "arg">>}) = 2
    <3>1. IsFiniteSet({<<v, "param">>}) /\ Cardinality({<<v, "param">>}) = 1
      BY FS_Singleton
    <3> DEFINE one == {<<v, "param">>}
    <3>2. <<t, "arg">> \notin one
      OBVIOUS
    <3>3. /\ IsFiniteSet(one \cup {<<t, "arg">>})
          /\ Cardinality(one \cup {<<t, "arg">>}) = Cardinality(one) + 1
      BY <3>1, <3>2, FS_AddElement
    <3> QED
      BY <3>1, <3>3
  <2>5. IsFiniteSet(Refs(s)') /\ st'[s].nref = own'[s] + Cardinality(Refs(s)')
    BY <1>3, <1>4, <2>3, <2>4
  <2>6. FinitelyMany'
    BY <2>1, <2>5 DEF FinitelyMany
  <2> QED
    BY <1>3, <1>4, <2>1, <2>5, <2>6 DEF Counted
<1>8. Counted'
  BY <1>1, <1>2, <1>3, <1>4, <1>5, <1>7 DEF Counted, NewPC, TypeOK, Struct, Placed
<1>9. OomInUse' /\ Frees
  BY <1>1, <1>3, StructAssumption DEF OomInUse, Struct, Frees
<1>10. Placed'
  <2> SUFFICES ASSUME NEW u \in Thread
               PROVE  /\ pc'[u] = "unborn" => self[u] = None /\ param'[u] = None
                      /\ pc'[u] \in {"born", "await"} => param'[u] \in Block
                      /\ pc'[u] \in {"born", "oom"} => self[u] # param'[u] \/ self[u] = None
                      /\ pc'[u] = "oom" => self[u] = None
                      /\ pc'[u] \in NewPC \cup {"construct", "detach", "join", "drop"}
                            => arg'[u] \in Struct
                      /\ pc'[u] \in Running /\ param'[u] # None => self[u] = param'[u]
                      /\ pc'[u] \notin Over => self[u] # Bad
                      /\ pc'[u] = "ended" => self[u] \notin Struct
    BY <1>1 DEF Placed
  <2>1. CASE u \notin {t, v}
    BY <1>4, <2>1 DEF Placed
  <2>2. CASE u = t
    <3>1. pc[t] \in Running /\ pc[t] \notin Over /\ pc'[t] \notin Over
      BY <1>1, <1>2, <1>4 DEF Running, NewPC, Over
    <3> QED
      BY <1>2, <1>4, <2>2, <3>1 DEF Placed, NewPC
  <2>3. CASE u = v
    BY <1>4, <2>3, StructAssumption DEF Running, NewPC
  <2> QED
    BY <2>1, <2>2, <2>3
<1>11. Attached'
  <2>1. \A u \in Thread : pc'[u] = "unborn" => pc[u] = "unborn"
    BY <1>2, <1>4 DEF NewPC
  <2> QED
    <3>1. ASSUME NEW x \in Struct, st'[x].nref > 0
          PROVE  st'[x].tid \in Thread /\ pc'[st'[x].tid] # "unborn"
      <4>1. CASE x = s
        BY <1>3, <1>4, <4>1
      <4>2. CASE x # s
        BY <1>3, <2>1, <3>1, <4>2 DEF Attached
      <4> QED
        BY <4>1, <4>2
    <3> QED
      BY <3>1 DEF Attached
<1>12. Making'
  <2>1. ASSUME NEW u \in Thread, pc'[u] \in NewPC
        PROVE  LET x == arg'[u]
                   w == st'[x].tid
               IN  ~st'[x].init /\ w \in Thread /\ pc'[w] \in {"born", "oom"} /\ param'[w] = x
    <3>1. CASE u = t
      BY <1>3, <1>4, <3>1
    <3>2. CASE u # t
      <4>1. pc[u] \in NewPC /\ arg'[u] = arg[u] /\ arg[u] \in Struct \ {s}
        BY <1>4, <1>5, <2>1, <3>2 DEF NewPC, Placed
      <4> DEFINE w == st[arg[u]].tid
      <4>2. ~st[arg[u]].init /\ w \in Thread /\ pc[w] \in {"born", "oom"} /\ param[w] = arg[u]
        BY <4>1 DEF Making
      <4>3. w \notin {t, v}
        BY <1>1, <4>2
      <4> HIDE DEF w
      <4>4. pc'[w] \in {"born", "oom"} /\ param'[w] = arg[u]
        BY <1>4, <4>2, <4>3
      <4> QED
        BY <1>3, <4>1, <4>2, <4>4 DEF w
    <3> QED
      BY <3>1, <3>2
  <2>2. ASSUME NEW u \in Thread, pc'[u] \in {"newcxx", "construct"}
        PROVE  st'[arg'[u]].ctor = "zero" /\ own'[arg'[u]] = 0
    <3>1. CASE u = t
      BY <1>2, <1>3, <1>4, <2>2, <3>1 DEF NewPC
    <3>2. CASE u # t
      <4>1. pc[u] = pc'[u] /\ arg'[u] = arg[u] /\ arg[u] \in Struct \ {s}
        BY <1>4, <1>5, <2>2, <3>2 DEF NewPC, Placed
      <4> QED
        BY <1>3, <1>4, <2>2, <4>1 DEF Making
    <3> QED
      BY <3>1, <3>2
  <2>3. ASSUME NEW u \in Thread, NEW w \in Thread, arg'[u] = arg'[w],
               pc'[u] \in NewPC \cup {"construct"}, pc'[w] \in NewPC \cup {"construct"}
        PROVE  u = w
    BY <1>4, <1>5, <2>3 DEF Making, NewPC
  <2>4. ASSUME NEW x \in Struct, st'[x].ctor = "zero"
        PROVE  \E u \in Thread : pc'[u] \in {"newcxx", "construct"} /\ arg'[u] = x
    <3>1. CASE x = s
      BY <1>3, <1>4, <2>4, <3>1
    <3>2. CASE x # s
      <4>1. PICK u \in Thread : pc[u] \in {"newcxx", "construct"} /\ arg[u] = x
        BY <1>3, <2>4, <3>2 DEF Making
      <4> QED
        BY <1>1, <1>4, <4>1
    <3> QED
      BY <3>1, <3>2
  <2>5. ASSUME NEW u \in Thread, param'[u] # None
        PROVE  /\ pc'[u] \in {"born", "oom"} /\ ~st'[param'[u]].init =>
                     \E w \in Thread : pc'[w] \in NewPC /\ arg'[w] = param'[u]
               /\ pc'[u] \in Running => st'[param'[u]].init
               /\ pc'[u] \in Running \ {"await"} =>
                     /\ st'[param'[u]].ctor # "zero"
                     /\ outcome'[u] = "none" => st'[param'[u]].ctor # "cancelled"
    <3>1. CASE u = v
      <4>1. pc'[t] \in NewPC /\ arg'[t] = param'[u] /\ pc'[u] \notin Running
        BY <1>2, <1>4, <3>1 DEF Running, NewPC
      <4> QED
        BY <4>1
    <3>2. CASE u # v /\ pc'[u] \in {"born", "oom"} /\ ~st'[param'[u]].init
      <4>1. pc[u] = pc'[u] /\ param'[u] = param[u] /\ param[u] \in Struct \ {s}
        BY <1>2, <1>4, <1>5, <2>5, <3>2 DEF NewPC, TypeOK, Struct
      <4>2. PICK w \in Thread : pc[w] \in NewPC /\ arg[w] = param[u]
        BY <1>3, <2>5, <3>2, <4>1 DEF Making
      <4>3. pc'[w] \in NewPC /\ arg'[w] = param'[u]
        BY <1>1, <1>4, <4>1, <4>2 DEF NewPC
      <4>4. pc'[u] \notin Running
        BY <3>2 DEF Running, NewPC
      <4> QED
        BY <4>2, <4>3, <4>4
    <3>3. CASE u # v /\ pc'[u] \in Running
      <4>1. pc[u] \in Running /\ (pc'[u] # "await" => pc[u] # "await")
        BY <1>1, <1>2, <1>4, <3>3 DEF Running, NewPC
      <4>2. param'[u] = param[u] /\ param[u] \in Struct \ {s}
        BY <1>4, <1>5, <2>5, <3>3, <4>1 DEF TypeOK, Struct
      <4>3. pc'[u] \notin {"born", "oom"}
        BY <3>3 DEF Running, NewPC
      <4> QED
        BY <1>1, <1>3, <2>5, <3>3, <4>1, <4>2, <4>3 DEF Making
    <3> QED
      BY <3>1, <3>2, <3>3
  <2> QED
    BY <2>1, <2>2, <2>3, <2>4, <2>5 DEF Making
<1>13. Begun'
  <2>1. outcome[v] = "none"
    BY <1>1, <1>4, StructAssumption DEF Begun, Over, Struct
  <2> QED
    BY <1>1, <1>2, <1>4, <2>1 DEF Begun, Over, NewPC
<1>14. Resulting'
  <2>1. ASSUME NEW x \in Struct \ {s}, st'[x].nref > 0
        PROVE  LET u == st'[x].tid IN
               /\ (st'[x].result # "none" \/ st'[x].ctor # "none") /\ pc'[u] # "ended"
                     => param'[u] = x
               /\ st'[x].result # "none" =>
                     /\ pc'[u] \in {"born", "oom"} => st'[x].result = "arg"
                     /\ pc'[u] \notin {"born", "oom"} => st'[x].result = Result(u)
    <3>1. st'[x] = st[x] /\ st[x].nref > 0
      BY <1>3, <2>1
    <3>2. PICK u \in Thread : u = st[x].tid /\ pc[u] # "unborn"
      BY <3>1 DEF Attached
    <3>3. /\ (st[x].result # "none" \/ st[x].ctor # "none") /\ pc[u] # "ended" => param[u] = x
          /\ st[x].result # "none" =>
                /\ pc[u] \in {"born", "oom"} => st[x].result = "arg"
                /\ pc[u] \notin {"born", "oom"} => st[x].result = Result(u)
      BY <3>1, <3>2 DEF Resulting
    <3>4. /\ param'[u] = param[u] /\ Result(u)' = Result(u)
          /\ pc'[u] = "ended" <=> pc[u] = "ended"
          /\ pc'[u] \in {"born", "oom"} <=> pc[u] \in {"born", "oom"}
      <4>1. u # v /\ param'[u] = param[u] /\ Result(u)' = Result(u)
        BY <1>1, <1>4, <3>2 DEF Result
      <4>2. pc[t] = "run" /\ pc'[t] \in NewPC
        BY <1>1, <1>2, <1>4
      <4>3. u # t => pc'[u] = pc[u]
        BY <1>4, <4>1
      <4> QED
        BY <4>1, <4>2, <4>3 DEF NewPC
    <3> QED
      BY <3>1, <3>2, <3>3, <3>4
  <2>2. /\ param'[st'[s].tid] = s /\ pc'[st'[s].tid] = "born"
        /\ st'[s].result \in {"none", "arg"}
    BY <1>3, <1>4
  <2>3. ASSUME NEW x \in Struct, st'[x].nref > 0
        PROVE  /\ (st'[x].result # "none" \/ st'[x].ctor # "none") /\ pc'[st'[x].tid] # "ended"
                     => param'[st'[x].tid] = x
               /\ st'[x].result # "none" =>
                     /\ pc'[st'[x].tid] \in {"born", "oom"} => st'[x].result = "arg"
                     /\ pc'[st'[x].tid] \notin {"born", "oom"}
                           => st'[x].result = Result(st'[x].tid)
    <3>1. CASE x = s
      BY <2>2, <3>1
    <3>2. CASE x # s
      BY <2>1, <2>3, <3>2
    <3> QED
      BY <3>1, <3>2
  <2>4. outcome' = outcome
    BY <1>1
  <2> QED
    BY ONLY <2>3, <2>4 DEF Resulting, Result
<1>15. Emptied'
  BY <1>1, <1>3, NothingFacts DEF Stored, Emptied, LeftBy
<1>16. Clearing' /\ NothingLost'
  BY <1>1, <1>3, <1>5 DEF Stored, Clearing, NothingLost
<1> QED
  BY <1>6, <1>7, <1>8, <1>9, <1>10, <1>11, <1>12, <1>13, <1>14, <1>15, <1>16 DEF Stored

(***************************************************************************)
(* A thread that has no structure gets one for itself, on the heap or the  *)
(* static one.                                                             *)
(***************************************************************************)
LEMMA StepAttach ==
    ASSUME IInv, Stored, NEW t \in Thread, NEW s \in Struct,
           (s \in Block /\ AskSelf(t, s)) \/ (s = OomSt /\ LockOom(t))
    PROVE  IInv' /\ Stored' /\ Frees
<1> USE DEF IInv
<1>1. /\ param' = param /\ arg' = arg /\ outcome' = outcome /\ own' = own
      /\ due' = due /\ made' = made /\ late' = late /\ clearing' = clearing
      /\ st' = [st EXCEPT ![s] = Fresh(t, 1, "none")] /\ self' = [self EXCEPT ![t] = s]
  BY DEF AskSelf, LockOom, Attach, countVars, endVars
<1>2. /\ \/ /\ s \in Block /\ pc[t] \in {"born", "run"} /\ pc' = pc /\ oomLocked' = oomLocked
         \/ /\ s = OomSt /\ pc[t] = "oom" /\ oomLocked' = TRUE
            /\ pc' = [pc EXCEPT ![t] = IF param[t] = None THEN "run" ELSE "born"]
      /\ self[t] = None /\ st[s].nref = 0
  BY Types, StructAssumption DEF AskSelf, LockOom, Goes, Placed, OomInUse, TypeOK
<1>3. /\ st' \in [Struct -> Structure]
      /\ \A x \in Struct \ {s} : st'[x] = st[x]
      /\ st'[s].nref = 1 /\ st'[s].tid = t /\ st'[s].init = FALSE
      /\ st'[s].content = Nothing /\ st'[s].ctor = "none" /\ st'[s].result = "none"
  <2> DEFINE new == Fresh(t, 1, "none")
  <2>1. /\ new \in Structure /\ new.nref = 1 /\ new.tid = t /\ new.init = FALSE
        /\ new.content = Nothing /\ new.ctor = "none" /\ new.result = "none"
    BY BlankFacts DEF Fresh, Structure
  <2> HIDE DEF new
  <2>2. st' = [st EXCEPT ![s] = new]
    BY <1>1 DEF new
  <2> QED
    BY <2>1, <2>2, Types
<1>4. /\ own[s] = 0 /\ Refs(s) = {} /\ s # None
      /\ \A u \in Thread :
            /\ self[u] # s
            /\ pc[u] \in {"born", "oom"} \cup Running => param[u] # s
            /\ pc[u] \in NewPC \cup {"construct", "detach", "join", "drop"} => arg[u] # s
  BY <1>2, Unused
<1>5. /\ \A u \in Thread \ {t} : pc'[u] = pc[u] /\ self'[u] = self[u]
      /\ self'[t] = s
      /\ \/ pc[t] \in {"born", "run"} /\ pc'[t] = pc[t]
         \/ pc[t] = "oom" /\ pc'[t] = "run" /\ param[t] = None
         \/ pc[t] = "oom" /\ pc'[t] = "born" /\ param[t] # None
      /\ pc[t] = "run" => param[t] = None
  BY <1>1, <1>2 DEF TypeOK, Placed, Running
<1>6. TypeOK'
  <2>1. /\ pc' \in [Thread -> {"unborn", "born", "oom", "await", "run", "new", "newcxx",
                    "newobjc", "construct", "detach", "join", "exiting", "drop", "again",
                      "ended"}]
        /\ oomLocked' \in BOOLEAN
    BY <1>2 DEF TypeOK
  <2> QED
    BY <1>1, <1>3, <2>1 DEF TypeOK, Structure
<1>7. FinitelyMany' /\ \A x \in Struct : st'[x].nref = own'[x] + Cardinality(Refs(x)')
  <2>1. ASSUME NEW x \in Struct \ {s}
        PROVE  Refs(x)' = Refs(x)
    <3>1. \A u \in Thread, y \in Place : RefersTo(u, y, x)' <=> RefersTo(u, y, x)
      BY <1>1, <1>2, <1>5, StructAssumption DEF RefersTo, Struct
    <3> QED
      BY <3>1, RefsStay
  <2>2. \A u \in Thread, x \in Place :
            RefersTo(u, x, s)' <=> (RefersTo(u, x, s) \/ (u = t /\ x = "self"))
    BY <1>1, <1>4, <1>5 DEF RefersTo, Place, NewPC
  <2>3. ~RefersTo(t, "self", s)
    BY <1>4 DEF RefersTo
  <2>4. IsFiniteSet(Refs(s)') /\ Cardinality(Refs(s)') = Cardinality(Refs(s)) + 1
    BY <2>2, <2>3, RefAdded DEF FinitelyMany, Place
  <2>5. Cardinality(Refs(s)) = 0
    BY <1>4, FS_EmptySet
  <2>6. FinitelyMany'
    BY <2>1, <2>4 DEF FinitelyMany
  <2> QED
    BY <1>1, <1>3, <1>4, <2>1, <2>4, <2>5, <2>6 DEF Counted
<1>8. Counted'
  <2>1. ASSUME NEW u \in Thread, self'[u] \in Struct
        PROVE  st'[self'[u]].tid = u
    BY <1>3, <1>4, <1>5, <2>1 DEF Counted
  <2>2. ASSUME NEW u \in Thread, pc'[u] \in {"born", "oom"}, param'[u] # None
        PROVE  st'[param'[u]].tid = u
    <3>1. pc[u] \in {"born", "oom"} /\ param'[u] = param[u] /\ param[u] \in Struct \ {s}
      BY <1>1, <1>4, <1>5, <2>2 DEF TypeOK, Struct
    <3> QED
      BY <1>3, <2>2, <3>1 DEF Counted
  <2>3. ASSUME NEW u \in Thread, pc'[u] = "new"
        PROVE  st'[arg'[u]].nref > 0
    <3>1. pc[u] = "new" /\ arg'[u] = arg[u] /\ arg[u] \in Struct \ {s}
      BY <1>1, <1>4, <1>5, <2>3 DEF Placed, NewPC
    <3> QED
      BY <1>3, <3>1 DEF Counted
  <2> QED
    BY <1>7, <2>1, <2>2, <2>3 DEF Counted
<1>9. OomInUse' /\ Frees
  BY <1>2, <1>3, StructAssumption DEF OomInUse, Struct, Frees
<1>10. Placed'
  <2> SUFFICES ASSUME NEW u \in Thread
               PROVE  /\ pc'[u] = "unborn" => self'[u] = None /\ param[u] = None
                      /\ pc'[u] \in {"born", "await"} => param[u] \in Block
                      /\ pc'[u] \in {"born", "oom"} => self'[u] # param[u] \/ self'[u] = None
                      /\ pc'[u] = "oom" => self'[u] = None
                      /\ pc'[u] \in NewPC \cup {"construct", "detach", "join", "drop"}
                            => arg[u] \in Struct
                      /\ pc'[u] \in Running /\ param[u] # None => self'[u] = param[u]
                      /\ pc'[u] \notin Over => self'[u] # Bad
                      /\ pc'[u] = "ended" => self'[u] \notin Struct
    BY <1>1 DEF Placed
  <2>1. CASE u # t
    BY <1>5, <2>1 DEF Placed
  <2>2. CASE u = t
    <3>1. param[t] \in Block \cup {None} /\ (pc[t] = "born" => param[t] \in Block)
      BY DEF TypeOK, Placed
    <3>2. s # Bad /\ param[t] # s
      BY <1>4, <1>5, StructAssumption DEF Struct, Running
    <3> QED
      BY <3>2, <1>5, <2>2, <3>1 DEF Running, NewPC, Over
  <2> QED
    BY <2>1, <2>2
<1>11. Attached'
  BY <1>3, <1>5 DEF Attached
<1>12. Making'
  <2>1. \A u \in Thread :
            /\ pc'[u] \in NewPC \cup {"construct", "await"} => pc'[u] = pc[u]
            /\ pc[u] \in NewPC \cup {"construct", "await"} => pc'[u] = pc[u]
            /\ pc[u] \in {"born", "oom"} /\ param[u] # None => pc'[u] \in {"born", "oom"}
            /\ pc'[u] \in {"born", "oom"} => pc[u] \in {"born", "oom"}
            /\ pc'[u] \in Running /\ param[u] # None => pc'[u] = pc[u]
    BY <1>5 DEF NewPC, Running
  <2>2. \A u \in Thread : pc[u] \in NewPC \cup {"construct"} => arg[u] \in Struct \ {s}
    BY <1>4 DEF Placed
  <2>3. ASSUME NEW u \in Thread, pc'[u] \in NewPC
        PROVE  LET x == arg[u]
                   w == st'[x].tid
               IN  ~st'[x].init /\ w \in Thread /\ pc'[w] \in {"born", "oom"} /\ param[w] = x
    <3>1. pc[u] \in NewPC /\ arg[u] \in Struct \ {s} /\ arg[u] # None
      BY <2>1, <2>2, <2>3, StructAssumption DEF Struct
    <3> QED
      BY <1>3, <2>1, <3>1 DEF Making
  <2>4. ASSUME NEW u \in Thread, pc'[u] \in {"newcxx", "construct"}
        PROVE  st'[arg[u]].ctor = "zero" /\ own'[arg[u]] = 0
    BY <1>1, <1>3, <2>1, <2>2, <2>4 DEF Making, NewPC
  <2>5. ASSUME NEW x \in Struct, st'[x].ctor = "zero"
        PROVE  \E u \in Thread : pc'[u] \in {"newcxx", "construct"} /\ arg[u] = x
    <3>1. PICK u \in Thread : pc[u] \in {"newcxx", "construct"} /\ arg[u] = x
      BY <1>3, <2>5 DEF Making
    <3> QED
      BY <2>1, <3>1 DEF NewPC
  <2>6. ASSUME NEW u \in Thread, param[u] # None
        PROVE  /\ pc'[u] \in {"born", "oom"} /\ ~st'[param[u]].init =>
                     \E v \in Thread : pc'[v] \in NewPC /\ arg[v] = param[u]
               /\ pc'[u] \in Running => st'[param[u]].init
               /\ pc'[u] \in Running \ {"await"} =>
                     /\ st'[param[u]].ctor # "zero"
                     /\ outcome[u] = "none" => st'[param[u]].ctor # "cancelled"
    <3>1. pc'[u] \in {"born", "oom"} \cup Running => param[u] \in Struct \ {s}
      BY <1>4, <2>1, <2>6 DEF TypeOK, Struct
    <3>2. CASE pc'[u] \in {"born", "oom"} /\ ~st'[param[u]].init
      <4>1. PICK v \in Thread : pc[v] \in NewPC /\ arg[v] = param[u]
        BY <1>3, <2>1, <2>6, <3>1, <3>2 DEF Making
      <4>2. pc'[v] \in NewPC /\ pc'[u] \notin Running
        BY <2>1, <3>2, <4>1 DEF Running, NewPC
      <4> QED
        BY <4>1, <4>2
    <3>3. CASE pc'[u] \in Running
      <4>1. pc'[u] = pc[u] /\ st'[param[u]] = st[param[u]] /\ pc'[u] \notin {"born", "oom"}
        BY <1>3, <2>1, <2>6, <3>1, <3>3 DEF Running, NewPC
      <4> QED
        BY <2>6, <3>3, <4>1 DEF Making
    <3> QED
      BY <3>2, <3>3
  <2>7. \A u, v \in Thread :
            /\ pc'[u] \in NewPC \cup {"construct"} /\ pc'[v] \in NewPC \cup {"construct"}
            /\ arg[u] = arg[v]
            => u = v
    BY <2>1 DEF Making
  <2> QED
    BY <1>1, <2>3, <2>4, <2>5, <2>6, <2>7 DEF Making
<1>13. Begun' /\ outcome[t] = "none"
  <2>1. outcome[t] = "none"
    BY <1>2, StructAssumption DEF Begun, Over, Struct
  <2> QED
    BY <1>1, <1>5, <2>1 DEF Begun, Over
<1>14. Resulting'
  <2>1. ASSUME NEW x \in Struct \ {s}, st'[x].nref > 0
        PROVE  LET u == st'[x].tid IN
               /\ (st'[x].result # "none" \/ st'[x].ctor # "none") /\ pc'[u] # "ended"
                     => param[u] = x
               /\ st'[x].result # "none" =>
                     /\ pc'[u] \in {"born", "oom"} => st'[x].result = "arg"
                     /\ pc'[u] \notin {"born", "oom"} => st'[x].result = Result(u)
    <3>1. st'[x] = st[x] /\ st[x].nref > 0
      BY <1>3, <2>1
    <3>2. PICK u \in Thread : u = st[x].tid
      BY <3>1 DEF Attached
    <3>3. /\ (st[x].result # "none" \/ st[x].ctor # "none") /\ pc[u] # "ended" => param[u] = x
          /\ st[x].result # "none" =>
                /\ pc[u] \in {"born", "oom"} => st[x].result = "arg"
                /\ pc[u] \notin {"born", "oom"} => st[x].result = Result(u)
      BY <3>1, <3>2 DEF Resulting
    <3>4. \/ pc'[u] = pc[u]
          \/ pc[u] = "oom" /\ pc'[u] = "run" /\ param[u] = None
          \/ pc[u] = "oom" /\ pc'[u] = "born"
      BY <1>5
    <3>5. x # None
      BY StructAssumption DEF Struct
    <3> QED
      BY <3>1, <3>2, <3>3, <3>4, <3>5
  <2> QED
    BY <1>1, <1>3, <2>1 DEF Resulting, Result
<1>15. ~clearing[t] /\ late[t] = 0
  BY <1>13 DEF Stored, Clearing
<1>16. None \notin Struct /\ Bad \notin Struct /\ None # Bad
  BY StructAssumption DEF Struct
<1>17. Emptied'
  <2> SUFFICES ASSUME NEW x \in Struct \ {s}, st[x].nref > 0, self'[st[x].tid] # x
               PROVE  /\ st[x].content["table"] = 0
                      /\ st[x].content["queue"] \in {0, LeftBy(st[x].tid)'}
    BY <1>3, NothingFacts DEF Emptied
  <2>1. st[x].tid \in Thread /\ self[st[x].tid] # x
    BY <1>2, <1>5, <1>16 DEF Attached
  <2>2. /\ st[x].content["table"] = 0
        /\ st[x].content["queue"] \in {0, LeftBy(st[x].tid)}
    BY <2>1 DEF Stored, Emptied
  <2>3. LeftBy(st[x].tid)' = LeftBy(st[x].tid)
    BY <1>1, <1>2, <1>5, <1>16, <2>1 DEF LeftBy
  <2> QED
    BY <2>2, <2>3
<1>18. Clearing'
  BY <1>1, <1>3, <1>4, <1>5, <1>15 DEF Stored, Clearing
<1>19. NothingLost'
  <2>1. due[t] = Nothing
    BY <1>2, <1>15, <1>16, NothingFacts DEF Stored, NothingLost, TypeOK
  <2> QED
    BY <1>1, <1>3, <1>4, <1>5, <2>1 DEF Stored, NothingLost
<1> QED
  BY <1>6, <1>7, <1>8, <1>9, <1>10, <1>11, <1>12, <1>13, <1>14, <1>17, <1>18, <1>19 DEF Stored

(***************************************************************************)
(* The routine of t begins, with s, and gives up the structure o that t    *)
(* has had before, if any.                                                 *)
(***************************************************************************)
LEMMA BeginFacts ==
    ASSUME IInv, NEW t \in Thread, NEW s \in Block, param[t] = s, NEW o, self[t] = o, Begin(t)
    PROVE  /\ s \in Struct /\ s # None /\ o # s /\ o \in Struct \cup {None} /\ o # Bad
           /\ st[s].nref > 0 /\ st[s].tid = t /\ st[s].init
           /\ st' \in [Struct -> Structure] /\ oomLocked' \in BOOLEAN
           /\ \A x \in Struct \ {s, o} : st'[x] = st[x]
           /\ st'[s].nref = st[s].nref /\ st'[s].tid = st[s].tid /\ st'[s].init = st[s].init
           /\ st'[s].ctor = st[s].ctor
           /\ st'[s].result = IF st[s].result = "arg" THEN "cancelled" ELSE st[s].result
           /\ o = None => st'[s].content = st[s].content /\ oomLocked' = oomLocked
           /\ o # None =>
                 /\ st[o].nref > 0
                 /\ st'[s].content = st[o].content /\ st'[o].content = Nothing
                 /\ st'[o].nref = st[o].nref - 1
                 /\ \/ /\ st'[o].tid = st[o].tid /\ st'[o].init = st[o].init
                       /\ st'[o].ctor = st[o].ctor /\ st'[o].result = st[o].result
                    \/ st[o].nref = 1 /\ st'[o].ctor = "none" /\ st'[o].result = "none"
                 /\ oomLocked' = (oomLocked /\ ~(o = OomSt /\ st[o].nref = 1))
<1> USE DEF IInv
<1> DEFINE r == IF st[s].result = "arg" THEN "cancelled" ELSE st[s].result
           own1 == [st EXCEPT ![s].result = r]
           now == [own1 EXCEPT ![s].content = st[o].content, ![o].content = Nothing]
<1>1. pc[t] = "born" /\ st[s].init
  BY DEF Begin, Adopt
<1>2. s \in Struct /\ s # None /\ o # s /\ o \in Struct \cup {None} /\ o # Bad
  <2>1. s \in Struct /\ s # None
    BY StructAssumption DEF Struct
  <2>2. /\ pc[t] \in {"born", "oom"} => self[t] # param[t] \/ self[t] = None
        /\ pc[t] \notin Over => self[t] # Bad
    BY DEF Placed
  <2>3. self[t] \in Struct \cup {None, Bad}
    BY DEF TypeOK
  <2> HIDE DEF IInv
  <2>4. o # Bad
    BY <1>1, <2>2 DEF Over
  <2> QED
    BY <1>1, <2>1, <2>2, <2>3, <2>4
<1>3. st[s].nref > 0 /\ st[s].tid = t
  <2>1. RefersTo(t, "param", s)
    BY <1>1 DEF RefersTo
  <2> QED
    BY <1>1, <1>2, <2>1, Held, Types DEF Place, Counted, TypeOK
<1>4. r \in {"none", "arg", "cancelled", "value"}
  BY <1>2, Types DEF Structure
<1>5. /\ own1 \in [Struct -> Structure]
      /\ \A x \in Struct \ {s} : own1[x] = st[x]
      /\ own1[s].nref = st[s].nref /\ own1[s].tid = st[s].tid /\ own1[s].init = st[s].init
      /\ own1[s].ctor = st[s].ctor /\ own1[s].result = r /\ own1[s].content = st[s].content
  <2> HIDE DEF r
  <2> QED
    BY <1>2, <1>4, Types DEF Structure
<1>6. CASE o = None
  <2>1. st' = own1 /\ oomLocked' = oomLocked
    BY <1>6 DEF Begin, Adopt
  <2> HIDE DEF own1, r
  <2>2. /\ st' \in [Struct -> Structure] /\ oomLocked' \in BOOLEAN
        /\ \A x \in Struct \ {s, o} : st'[x] = st[x]
        /\ st'[s].nref = st[s].nref /\ st'[s].tid = st[s].tid /\ st'[s].init = st[s].init
        /\ st'[s].ctor = st[s].ctor /\ st'[s].content = st[s].content
        /\ st'[s].result = r
    BY <1>5, <2>1, Types
  <2> QED
    BY <1>1, <1>2, <1>3, <1>6, <2>1, <2>2 DEF r
<1>7. CASE o # None
  <2>1. o \in Struct /\ st[o].nref > 0 /\ st[o].content \in [Kind -> Nat]
    <3>1. o \in Struct /\ RefersTo(t, "self", o)
      BY <1>2, <1>7 DEF RefersTo
    <3> QED
      BY <3>1, Held, Types DEF Place
  <2>2. [k \in Kind |-> IF k \in Kind THEN st[o].content[k] ELSE 0] = st[o].content
    BY <2>1
  <2>3. DropsOf(now, o)
    BY <1>7, <2>2 DEF Begin, Adopt
  <2> HIDE DEF r, own1
  <2>4. /\ now \in [Struct -> Structure]
        /\ \A x \in Struct \ {s, o} : now[x] = own1[x]
        /\ now[s].nref = own1[s].nref /\ now[s].tid = own1[s].tid /\ now[s].init = own1[s].init
        /\ now[s].ctor = own1[s].ctor /\ now[s].result = own1[s].result
        /\ now[s].content = st[o].content
        /\ now[o].nref = own1[o].nref /\ now[o].tid = own1[o].tid /\ now[o].init = own1[o].init
        /\ now[o].ctor = own1[o].ctor /\ now[o].result = own1[o].result
        /\ now[o].content = Nothing
    <3> DEFINE mid == [own1 EXCEPT ![s].content = st[o].content]
    <3>1. now = [mid EXCEPT ![o].content = Nothing]
      OBVIOUS
    <3>2. /\ mid \in [Struct -> Structure]
          /\ \A x \in Struct \ {s} : mid[x] = own1[x]
          /\ mid[s].nref = own1[s].nref /\ mid[s].tid = own1[s].tid
          /\ mid[s].init = own1[s].init /\ mid[s].ctor = own1[s].ctor
          /\ mid[s].result = own1[s].result /\ mid[s].content = st[o].content
      BY <1>2, <1>5, <2>1 DEF Structure
    <3> HIDE DEF mid, now
    <3> QED
      BY <1>2, <2>1, <3>1, <3>2, BlankFacts DEF Structure
  <2> HIDE DEF now
  <2>5. /\ st' \in [Struct -> Structure]
        /\ \A x \in Struct \ {o} : st'[x] = now[x]
        /\ st'[o].nref = now[o].nref - 1 /\ st'[o].content = now[o].content
        /\ \/ /\ st'[o].tid = now[o].tid /\ st'[o].init = now[o].init
              /\ st'[o].ctor = now[o].ctor /\ st'[o].result = now[o].result
           \/ now[o].nref = 1 /\ st'[o].ctor = "none" /\ st'[o].result = "none"
        /\ oomLocked' = (oomLocked /\ ~(o = OomSt /\ now[o].nref = 1))
    <3>1. now[o].nref > 0
      BY <1>2, <1>5, <2>1, <2>4
    <3> QED
      BY <2>1, <2>3, <2>4, <3>1, Types, DropsFacts
  <2>6. own1[o] = st[o] /\ \A x \in Struct \ {s, o} : st'[x] = st[x]
    BY <1>2, <1>5, <2>1, <2>4, <2>5
  <2>7. st'[s] = now[s]
    BY <1>2, <2>5
  <2>8. oomLocked' = (oomLocked /\ ~(o = OomSt /\ st[o].nref = 1)) /\ oomLocked' \in BOOLEAN
    BY <2>4, <2>5, <2>6
  <2>9. /\ st'[s].nref = st[s].nref /\ st'[s].tid = st[s].tid /\ st'[s].init = st[s].init
        /\ st'[s].ctor = st[s].ctor /\ st'[s].content = st[o].content
        /\ st'[s].result = r
    BY <1>5, <2>4, <2>7
  <2>10. /\ st'[o].nref = st[o].nref - 1 /\ st'[o].content = Nothing
         /\ \/ /\ st'[o].tid = st[o].tid /\ st'[o].init = st[o].init
               /\ st'[o].ctor = st[o].ctor /\ st'[o].result = st[o].result
            \/ st[o].nref = 1 /\ st'[o].ctor = "none" /\ st'[o].result = "none"
    BY <2>4, <2>5, <2>6
  <2> QED
    BY <1>1, <1>2, <1>3, <1>7, <2>1, <2>5, <2>6, <2>8, <2>9, <2>10 DEF r
<1> QED
  BY <1>6, <1>7

LEMMA StepBegin ==
    ASSUME IInv, Stored, NEW t \in Thread, Begin(t)
    PROVE  IInv' /\ Stored' /\ Frees
<1> USE DEF IInv
<1>1. PICK s \in Block, o \in Struct \cup {None, Bad} : param[t] = s /\ self[t] = o
  BY DEF Begin, Adopt, Placed, TypeOK
<1>2. /\ s \in Struct /\ s # None /\ o # s /\ o \in Struct \cup {None} /\ o # Bad
      /\ st[s].nref > 0 /\ st[s].tid = t /\ st[s].init
      /\ st' \in [Struct -> Structure] /\ oomLocked' \in BOOLEAN
      /\ \A x \in Struct \ {s, o} : st'[x] = st[x]
      /\ st'[s].nref = st[s].nref /\ st'[s].tid = st[s].tid /\ st'[s].init = st[s].init
      /\ st'[s].ctor = st[s].ctor
      /\ st'[s].result = IF st[s].result = "arg" THEN "cancelled" ELSE st[s].result
      /\ o = None => st'[s].content = st[s].content /\ oomLocked' = oomLocked
      /\ o # None =>
            /\ st[o].nref > 0
            /\ st'[s].content = st[o].content /\ st'[o].content = Nothing
            /\ st'[o].nref = st[o].nref - 1
            /\ \/ /\ st'[o].tid = st[o].tid /\ st'[o].init = st[o].init
                  /\ st'[o].ctor = st[o].ctor /\ st'[o].result = st[o].result
               \/ st[o].nref = 1 /\ st'[o].ctor = "none" /\ st'[o].result = "none"
            /\ oomLocked' = (oomLocked /\ ~(o = OomSt /\ st[o].nref = 1))
  BY <1>1, BeginFacts
<1>3. /\ param' = param /\ arg' = arg /\ outcome' = outcome /\ own' = own
      /\ due' = due /\ made' = made /\ late' = late /\ clearing' = clearing
      /\ pc[t] = "born" /\ pc' = [pc EXCEPT ![t] = "await"]
      /\ self' = [self EXCEPT ![t] = s]
  BY <1>1 DEF Begin, Adopt, countVars, endVars, Goes
<1>4. /\ \A u \in Thread \ {t} : pc'[u] = pc[u] /\ self'[u] = self[u]
      /\ pc'[t] = "await" /\ self'[t] = s
      /\ None \notin Struct
  BY <1>3, StructAssumption DEF TypeOK, Struct
<1>a. ASSUME NEW x \in Struct
      PROVE  /\ st'[x].nref > 0 =>
                   /\ st[x].nref > 0 /\ st'[x].tid = st[x].tid /\ st'[x].init = st[x].init
                   /\ st'[x].ctor = st[x].ctor /\ (x # s => st'[x].result = st[x].result)
             /\ st'[x].ctor = "zero" => st[x].ctor = "zero"
             /\ st[x].nref > 0 /\ st'[x].nref = 0 => st'[x].content = Nothing
  <2>1. CASE x = s
    <3>1. st'[x].nref > 0 /\ st'[x].nref # 0
      BY <1>2, <2>1, Types
    <3> QED
      BY <1>2, <2>1, <3>1
  <2>2. CASE x = o
    <3>1. o # None /\ st[o].nref \in Nat
      BY <1>4, <2>2, Types
    <3> QED
      BY <1>2, <2>2, <3>1
  <2>3. CASE x \notin {s, o}
    BY <1>2, <2>3, Types
  <2> QED
    BY <2>1, <2>2, <2>3
<1>5. TypeOK'
  BY <1>2, <1>3 DEF TypeOK, Structure
<1>6. \A x \in Struct : IsFiniteSet(Refs(x)) /\ Cardinality(Refs(x)) \in Nat
  BY FS_CardinalityType DEF FinitelyMany
<1>7. \A x \in Struct \ {s, o} : Refs(x)' = Refs(x)
  <2>1. ASSUME NEW x \in Struct \ {s, o}
        PROVE  \A u \in Thread, y \in Place : RefersTo(u, y, x)' <=> RefersTo(u, y, x)
    BY <1>1, <1>3, <1>4 DEF RefersTo
  <2> QED
    BY <2>1, RefsStay
<1>8. IsFiniteSet(Refs(s)') /\ Cardinality(Refs(s)') = Cardinality(Refs(s))
  <2>1. Refs(s)' = (Refs(s) \ {<<t, "param">>}) \cup {<<t, "self">>}
    <3>1. ASSUME NEW u \in Thread, NEW x \in Place
          PROVE  RefersTo(u, x, s)' <=> \/ RefersTo(u, x, s) /\ ~(u = t /\ x = "param")
                                        \/ u = t /\ x = "self"
      BY <1>1, <1>3, <1>4 DEF RefersTo, Place
    <3>2. ASSUME NEW r \in Thread \X Place
          PROVE  r \in Refs(s)' <=> r \in (Refs(s) \ {<<t, "param">>}) \cup {<<t, "self">>}
      <4>1. PICK u \in Thread, x \in Place : r = <<u, x>>
        OBVIOUS
      <4> QED
        BY <3>1, <4>1, RefsIff
    <3> QED
      BY <3>2, RefsArePairs DEF Place
  <2>2. <<t, "param">> \in Refs(s) /\ <<t, "self">> \notin Refs(s)
    BY <1>1, <1>2, <1>3, RefsIff DEF RefersTo, Place
  <2> DEFINE rest == Refs(s) \ {<<t, "param">>}
  <2>3. IsFiniteSet(rest) /\ Cardinality(rest) = Cardinality(Refs(s)) - 1
    BY <1>2, <1>6, <2>2, FS_RemoveElement
  <2>4. /\ IsFiniteSet(rest \cup {<<t, "self">>})
        /\ Cardinality(rest \cup {<<t, "self">>}) = Cardinality(rest) + 1
    BY <2>2, <2>3, FS_AddElement
  <2> QED
    BY <1>2, <1>6, <2>1, <2>3, <2>4
<1>9. ASSUME o # None
      PROVE  IsFiniteSet(Refs(o)') /\ Cardinality(Refs(o)') = Cardinality(Refs(o)) - 1
  <2>1. \A u \in Thread, x \in Place :
            RefersTo(u, x, o)' <=> (RefersTo(u, x, o) /\ ~(u = t /\ x = "self"))
    BY <1>1, <1>2, <1>3, <1>4, <1>9 DEF RefersTo, Place
  <2>2. RefersTo(t, "self", o)
    BY <1>1 DEF RefersTo
  <2> QED
    BY <1>2, <1>6, <1>9, <2>1, <2>2, RefDropped DEF Place
<1>10. FinitelyMany'
  <2>1. ASSUME NEW x \in Struct
        PROVE  IsFiniteSet(Refs(x)')
    <3>1. CASE x = s
      BY <1>8, <3>1
    <3>2. CASE x = o
      BY <1>4, <1>9, <3>2
    <3>3. CASE x \notin {s, o}
      BY <1>6, <1>7, <3>3
    <3> QED
      BY <3>1, <3>2, <3>3
  <2> QED
    BY <2>1 DEF FinitelyMany
<1>11. \A x \in Struct : st'[x].nref = own'[x] + Cardinality(Refs(x)')
  <2>1. \A x \in Struct : st[x].nref = own[x] + Cardinality(Refs(x)) /\ own[x] \in Nat
    BY DEF Counted, TypeOK
  <2>2. ASSUME NEW x \in Struct
        PROVE  st'[x].nref = own'[x] + Cardinality(Refs(x)')
    <3>1. CASE x = s
      BY <1>2, <1>3, <1>8, <2>1, <3>1
    <3>2. CASE x = o
      <4>1. o # None /\ Cardinality(Refs(o)) \in Nat
        BY <1>4, <1>6, <3>2
      <4>2. st'[o].nref = st[o].nref - 1
        BY <1>2, <4>1
      <4> QED
        BY <1>3, <1>9, <2>1, <3>2, <4>1, <4>2
    <3>3. CASE x \notin {s, o}
      BY <1>2, <1>3, <1>7, <2>1, <3>3
    <3> QED
      BY <3>1, <3>2, <3>3
  <2> QED
    BY <2>2
<1>12. ASSUME NEW x \in Struct \ {s}, NEW u \in Thread, NEW y \in Place, RefersTo(u, y, x)'
       PROVE  Same(x) /\ st'[x].ctor = st[x].ctor
  <2>1. RefersTo(u, y, x) /\ (x = o => u # t \/ y # "self")
    BY <1>1, <1>3, <1>4, <1>12 DEF RefersTo, Place
  <2>2. st[x].nref > 0 /\ st[x].nref \in Nat
    BY <2>1, Held
  <2>3. CASE x = o
    <3>1. RefersTo(t, "self", o)
      BY <1>1 DEF RefersTo
    <3>2. st[o].nref >= 2
      BY <2>1, <2>3, <3>1, Held DEF Place, TypeOK
    <3> QED
      BY <1>2, <1>4, <2>2, <2>3, <3>2 DEF Same
  <2>4. CASE x # o
    BY <1>2, <2>2, <2>4 DEF Same
  <2> QED
    BY <2>3, <2>4
<1>13. ASSUME NEW u \in Thread
       PROVE  /\ self'[u] \in Struct \ {s} => Same(self'[u]) /\ st'[self'[u]].ctor = st[self'[u]].ctor
              /\ pc'[u] \in {"born", "oom"} /\ param[u] \in Struct \ {s}
                    => Same(param[u]) /\ st'[param[u]].ctor = st[param[u]].ctor
              /\ pc'[u] \in {"newcxx", "newobjc", "construct"} /\ arg[u] \in Struct \ {s}
                    => Same(arg[u]) /\ st'[arg[u]].ctor = st[arg[u]].ctor
  <2>1. ASSUME NEW x \in Struct \ {s}
        PROVE  RefersTo(u, "self", x)' \/ RefersTo(u, "param", x)' \/ RefersTo(u, "arg", x)'
                   => Same(x) /\ st'[x].ctor = st[x].ctor
    BY <1>12 DEF Place
  <2> QED
    BY <1>3, <2>1 DEF RefersTo
<1>14. Counted'
  <2>1. ASSUME NEW u \in Thread, self'[u] \in Struct
        PROVE  st'[self'[u]].tid = u
    <3>1. CASE u = t
      BY <1>2, <1>4, <3>1
    <3>2. CASE u # t
      <4>1. self[u] = self'[u] /\ st[self[u]].tid = u /\ self[u] # s
        BY <1>2, <1>4, <2>1, <3>2 DEF Counted
      <4> QED
        BY <1>13, <2>1, <4>1 DEF Same
    <3> QED
      BY <3>1, <3>2
  <2>2. ASSUME NEW u \in Thread, pc'[u] \in {"born", "oom"}, param'[u] # None
        PROVE  st'[param'[u]].tid = u
    <3>1. /\ u # t /\ pc[u] = pc'[u] /\ param'[u] = param[u] /\ st[param[u]].tid = u
          /\ param[u] \in Struct
      BY <1>3, <1>4, <2>2 DEF Counted, TypeOK, Struct
    <3>2. param[u] # s
      BY <1>2, <3>1
    <3> QED
      BY <1>13, <2>2, <3>1, <3>2 DEF Same
  <2>3. ASSUME NEW u \in Thread, pc'[u] = "new"
        PROVE  st'[arg'[u]].nref > 0
    <3>1. pc[u] = "new" /\ arg'[u] = arg[u] /\ arg[u] \in Struct
      BY <1>3, <1>4, <2>3 DEF Placed, NewPC
    <3> DEFINE w == st[arg[u]].tid
    <3>2. ~st[arg[u]].init /\ w \in Thread /\ pc[w] \in {"born", "oom"} /\ param[w] = arg[u]
      BY <3>1 DEF Making, NewPC
    <3>3. arg[u] # s /\ w # t
      BY <1>1, <1>2, <3>2
    <3> HIDE DEF w
    <3>4. Same(arg[u])
      BY <1>4, <1>13, <3>1, <3>2, <3>3
    <3> QED
      BY <3>1, <3>4 DEF Same
  <2> QED
    BY <1>11, <2>1, <2>2, <2>3 DEF Counted
<1>15. OomInUse' /\ Frees
  <2>1. s # OomSt
    BY StructAssumption
  <2>2. CASE o = OomSt
    <3>1. st[o].nref \in Nat /\ st[o].nref > 0 /\ oomLocked = TRUE /\ o # None
      BY <1>2, <1>4, <2>2, Types DEF OomInUse, Struct
    <3>2. oomLocked' = ~(st[o].nref = 1)
      BY <1>2, <2>2, <3>1
    <3>3. st'[o].nref > 0 <=> ~(st[o].nref = 1)
      BY <1>2, <3>1
    <3> QED
      BY <1>a, <2>2, <3>2, <3>3, NothingFacts, Zenon DEF OomInUse, Frees
  <2>3. CASE o # OomSt
    <3>1. st'[OomSt] = st[OomSt] /\ oomLocked' = oomLocked
      BY <1>2, <2>1, <2>3, Types DEF Struct
    <3> QED
      BY <1>a, <3>1, NothingFacts DEF OomInUse, Frees
  <2> QED
    BY <2>2, <2>3
<1>16. Placed'
  <2> SUFFICES ASSUME NEW u \in Thread
               PROVE  /\ pc'[u] = "unborn" => self'[u] = None /\ param[u] = None
                      /\ pc'[u] \in {"born", "await"} => param[u] \in Block
                      /\ pc'[u] \in {"born", "oom"} => self'[u] # param[u] \/ self'[u] = None
                      /\ pc'[u] = "oom" => self'[u] = None
                      /\ pc'[u] \in NewPC \cup {"construct", "detach", "join", "drop"}
                            => arg[u] \in Struct
                      /\ pc'[u] \in Running /\ param[u] # None => self'[u] = param[u]
                      /\ pc'[u] \notin Over => self'[u] # Bad
                      /\ pc'[u] = "ended" => self'[u] \notin Struct
    BY <1>3 DEF Placed
  <2>1. CASE u # t
    BY <1>4, <2>1 DEF Placed
  <2>2. CASE u = t
    BY <1>1, <1>4, <2>2, StructAssumption DEF NewPC
  <2> QED
    BY <2>1, <2>2
<1>17. Attached'
  BY <1>4, <1>a DEF Attached
<1>18. Making'
  <2>1. \A u \in Thread : pc'[u] \in NewPC \cup {"construct"} =>
            pc[u] = pc'[u] /\ u # t /\ arg[u] \in Struct
    BY <1>4 DEF Placed, NewPC
  <2>2. ASSUME NEW u \in Thread, pc'[u] \in NewPC
        PROVE  LET x == arg[u]
                   w == st'[x].tid
               IN  ~st'[x].init /\ w \in Thread /\ pc'[w] \in {"born", "oom"} /\ param[w] = x
    <3>1. PICK w \in Thread : /\ ~st[arg[u]].init /\ w = st[arg[u]].tid
                              /\ pc[w] \in {"born", "oom"} /\ param[w] = arg[u]
      BY <2>1, <2>2 DEF Making
    <3>2. arg[u] \in Struct \ {s} /\ w # t
      BY <1>1, <1>2, <2>1, <2>2, <3>1
    <3>3. pc'[w] \in {"born", "oom"} /\ Same(arg[u])
      BY <1>4, <1>13, <3>1, <3>2
    <3> QED
      BY <3>1, <3>3 DEF Same
  <2>3. ASSUME NEW u \in Thread, pc'[u] \in {"newcxx", "construct"}
        PROVE  st'[arg[u]].ctor = "zero" /\ own'[arg[u]] = 0
    <3>1. st[arg[u]].ctor = "zero" /\ own[arg[u]] = 0 /\ arg[u] \in Struct
      BY <2>1, <2>3 DEF Making, NewPC
    <3> QED
      BY <1>2, <1>3, <1>13, <2>3, <3>1
  <2>4. \A u, v \in Thread :
            /\ pc'[u] \in NewPC \cup {"construct"} /\ pc'[v] \in NewPC \cup {"construct"}
            /\ arg[u] = arg[v]
            => u = v
    BY <2>1 DEF Making
  <2>5. ASSUME NEW x \in Struct, st'[x].ctor = "zero"
        PROVE  \E u \in Thread : pc'[u] \in {"newcxx", "construct"} /\ arg[u] = x
    <3>1. st[x].ctor = "zero"
      BY <1>a, <2>5
    <3>2. PICK u \in Thread : pc[u] \in {"newcxx", "construct"} /\ arg[u] = x
      BY <3>1 DEF Making
    <3>3. u # t
      BY <1>3, <3>2
    <3> QED
      BY <1>4, <3>2, <3>3
  <2>6. ASSUME NEW u \in Thread, param[u] # None
        PROVE  /\ pc'[u] \in {"born", "oom"} /\ ~st'[param[u]].init =>
                     \E v \in Thread : pc'[v] \in NewPC /\ arg[v] = param[u]
               /\ pc'[u] \in Running => st'[param[u]].init
               /\ pc'[u] \in Running \ {"await"} =>
                     /\ st'[param[u]].ctor # "zero"
                     /\ outcome[u] = "none" => st'[param[u]].ctor # "cancelled"
    <3>1. param[u] \in Struct
      BY <2>6 DEF TypeOK, Struct
    <3>2. CASE u = t
      BY <1>1, <1>2, <1>4, <3>2
    <3>3. CASE u # t /\ pc'[u] \in {"born", "oom"} /\ ~st'[param[u]].init
      <4>1. pc[u] = pc'[u] /\ ~st[param[u]].init
        BY <1>2, <1>4, <1>13, <3>1, <3>3 DEF Same
      <4>2. PICK v \in Thread : pc[v] \in NewPC /\ arg[v] = param[u]
        BY <2>6, <3>3, <4>1 DEF Making
      <4>3. v # t /\ pc'[u] \notin Running
        BY <1>3, <3>3, <4>2 DEF NewPC, Running
      <4> QED
        BY <1>4, <4>2, <4>3
    <3>4. CASE u # t /\ pc'[u] \in Running
      <4>1. pc[u] = pc'[u] /\ self'[u] = param[u] /\ pc'[u] \notin {"born", "oom"}
        BY <1>4, <2>6, <3>4 DEF Placed, Running, NewPC
      <4>2. st'[param[u]].init = st[param[u]].init /\ st'[param[u]].ctor = st[param[u]].ctor
        <5>1. CASE param[u] = s
          BY <1>2, <5>1
        <5>2. CASE param[u] # s
          BY <1>13, <3>1, <4>1, <5>2 DEF Same
        <5> QED
          BY <5>1, <5>2
      <4> QED
        BY <2>6, <3>4, <4>1, <4>2 DEF Making
    <3> QED
      BY <3>2, <3>3, <3>4
  <2> QED
    BY <1>3, <2>2, <2>3, <2>4, <2>5, <2>6 DEF Making
<1>19. Begun' /\ outcome[t] = "none"
  BY <1>2, <1>3, <1>4 DEF Begun, Over
<1>20. Resulting'
  <2>1. ASSUME NEW x \in Struct, st'[x].nref > 0
        PROVE  LET u == st'[x].tid IN
               /\ (st'[x].result # "none" \/ st'[x].ctor # "none") /\ pc'[u] # "ended"
                     => param[u] = x
               /\ st'[x].result # "none" =>
                     /\ pc'[u] \in {"born", "oom"} => st'[x].result = "arg"
                     /\ pc'[u] \notin {"born", "oom"} => st'[x].result = Result(u)
    <3>1. st[x].nref > 0 /\ st'[x].tid = st[x].tid /\ st'[x].ctor = st[x].ctor
          /\ (x # s => st'[x].result = st[x].result)
      BY <1>a, <2>1
    <3>2. PICK u \in Thread : u = st[x].tid
      BY <3>1 DEF Attached
    <3>3. /\ (st[x].result # "none" \/ st[x].ctor # "none") /\ pc[u] # "ended" => param[u] = x
          /\ st[x].result # "none" =>
                /\ pc[u] \in {"born", "oom"} => st[x].result = "arg"
                /\ pc[u] \notin {"born", "oom"} => st[x].result = Result(u)
      BY <3>1, <3>2 DEF Resulting
    <3>4. CASE x = s
      BY <1>1, <1>2, <1>3, <1>4, <1>19, <3>1, <3>2, <3>3, <3>4 DEF Result
    <3>5. CASE x # s /\ u = t
      <4>1. st[x].result = "none" /\ st[x].ctor = "none"
        BY <1>1, <1>3, <3>3, <3>5
      <4> QED
        BY <3>1, <3>5, <4>1
    <3>6. CASE u # t
      <4>1. x # s /\ pc'[u] = pc[u]
        BY <1>2, <1>4, <3>2, <3>6
      <4> QED
        BY <3>1, <3>2, <3>3, <4>1
    <3> QED
      BY <3>4, <3>5, <3>6
  <2> QED
    BY <1>3, <2>1 DEF Resulting, Result
<1>21. ~clearing[t] /\ late[t] = 0
  BY <1>19 DEF Stored, Clearing
<1>22. ASSUME NEW x \in Struct, st[x].nref > 0, self[st[x].tid] # x, st[x].tid = t
       PROVE  st[x].content = Nothing
  <2>1. LeftBy(t) = 0
    BY <1>1, <1>2 DEF LeftBy
  <2> QED
    BY <1>22, <2>1, NothingFacts, Types DEF Stored, Emptied
<1>23. Emptied'
  <2> SUFFICES ASSUME NEW x \in Struct, st'[x].nref > 0, self'[st'[x].tid] # x
               PROVE  /\ st'[x].content["table"] = 0
                      /\ st'[x].content["queue"] \in {0, LeftBy(st[x].tid)'}
    BY DEF Emptied
  <2>1. st[x].nref > 0 /\ st'[x].tid = st[x].tid /\ st[x].tid \in Thread
    BY <1>a DEF Attached
  <2>2. x # s
    BY <1>2, <1>4
  <2>3. CASE x = o
    BY <1>2, <1>4, <2>3, NothingFacts
  <2>4. CASE x # o /\ st[x].tid = t
    <3>1. self[t] # x /\ st'[x] = st[x]
      BY <1>1, <1>2, <2>2, <2>4
    <3> QED
      BY <1>22, <2>1, <2>4, <3>1, NothingFacts
  <2>5. CASE x # o /\ st[x].tid # t
    <3>1. st'[x] = st[x] /\ self'[st[x].tid] = self[st[x].tid]
      BY <1>2, <1>4, <2>1, <2>2, <2>5
    <3> QED
      BY <1>3, <2>1, <3>1 DEF Stored, Emptied, LeftBy
  <2> QED
    BY <2>3, <2>4, <2>5
<1>24. ASSUME NEW u \in Thread \ {t}
       PROVE  self'[u] = self[u] /\ (self[u] \in Struct => st'[self[u]] = st[self[u]])
  <2>1. self[u] \in Struct => self[u] \notin {s, o}
    BY <1>1, <1>2, <1>4 DEF Counted
  <2> QED
    BY <1>2, <1>4, <2>1
<1>25. Clearing'
  BY <1>3, <1>21, <1>24 DEF Stored, Clearing
<1>26. st'[s].content = due[t]
  <2>1. CASE o = None
    <3>1. st[s].content = Nothing
      BY <1>1, <1>2, <1>22, <2>1
    <3>2. due[t] = Nothing
      BY <1>1, <1>4, <1>21, <2>1, NothingFacts DEF Stored, NothingLost, TypeOK
    <3> QED
      BY <1>2, <2>1, <3>1, <3>2
  <2>2. CASE o # None
    BY <1>1, <1>2, <2>2 DEF Stored, NothingLost
  <2> QED
    BY <2>1, <2>2
<1>27. NothingLost'
  BY <1>3, <1>4, <1>2, <1>24, <1>26 DEF Stored, NothingLost
<1> QED
  BY <1>5, <1>10, <1>14, <1>15, <1>16, <1>17, <1>18, <1>19, <1>20, <1>23, <1>25, <1>27 DEF Stored

-----------------------------------------------------------------------------
(* The specification *)

(***************************************************************************)
(* In the beginning there is main_thread, to which the main thread refers, *)
(* and the program.                                                        *)
(***************************************************************************)
LEMMA InitIInv == Init => IInv /\ Stored
<1> SUFFICES ASSUME Init PROVE IInv /\ Stored
  OBVIOUS
<1>1. /\ Main \in Thread /\ MainSt \in Struct /\ None \notin Struct /\ Bad \notin Struct
      /\ None # Bad /\ OomSt \in Struct /\ OomSt # MainSt
  BY ThreadAssumption, StructAssumption DEF Struct
<1>2. /\ st \in [Struct -> Structure]
      /\ st[MainSt].nref = 2 /\ st[MainSt].tid = Main /\ st[MainSt].init = FALSE
      /\ st[MainSt].content = Nothing /\ st[MainSt].ctor = "none" /\ st[MainSt].result = "none"
      /\ \A s \in Struct \ {MainSt} :
            /\ st[s].nref = 0 /\ st[s].content = Nothing /\ st[s].ctor = "none"
            /\ st[s].result = "none"
  <2> DEFINE new == Fresh(Main, 2, "none")
  <2>1. /\ new \in Structure /\ new.nref = 2 /\ new.tid = Main /\ new.init = FALSE
        /\ new.content = Nothing /\ new.ctor = "none" /\ new.result = "none"
    BY <1>1, BlankFacts DEF Fresh, Structure
  <2> HIDE DEF new
  <2>2. st = [s \in Struct |-> IF s = MainSt THEN new ELSE Blank]
    BY DEF Init, new
  <2> QED
    BY <1>1, <2>1, <2>2, BlankFacts
<1>3. /\ pc = [t \in Thread |-> IF t = Main THEN "run" ELSE "unborn"]
      /\ self = [t \in Thread |-> IF t = Main THEN MainSt ELSE None]
      /\ param = [t \in Thread |-> None] /\ arg = [t \in Thread |-> None]
      /\ outcome = [t \in Thread |-> "none"]
      /\ own = [s \in Struct |-> IF s = MainSt THEN 1 ELSE 0]
      /\ oomLocked = FALSE
      /\ due = [t \in Thread |-> Nothing] /\ made = 0
      /\ late = [t \in Thread |-> 0] /\ clearing = [t \in Thread |-> FALSE]
  BY DEF Init
<1>4. TypeOK
  BY <1>1, <1>2, <1>3, BlankFacts DEF TypeOK, Structure
<1>5. FinitelyMany /\ \A s \in Struct : st[s].nref = own[s] + Cardinality(Refs(s))
  <2>1. ASSUME NEW t \in Thread, NEW x \in Place, NEW s \in Struct
        PROVE  RefersTo(t, x, s) <=> t = Main /\ x = "self" /\ s = MainSt
    BY <1>1, <1>3 DEF RefersTo
  <2>2. ASSUME NEW s \in Struct, NEW r \in Thread \X Place
        PROVE  r \in Refs(s) <=> r = <<Main, "self">> /\ s = MainSt
    <3>1. PICK t \in Thread, x \in Place : r = <<t, x>>
      OBVIOUS
    <3> QED
      BY <2>1, <3>1, RefsIff
  <2>3. Refs(MainSt) = {<<Main, "self">>} /\ \A s \in Struct \ {MainSt} : Refs(s) = {}
    BY <1>1, <2>2, RefsArePairs DEF Place
  <2>4. /\ IsFiniteSet(Refs(MainSt)) /\ Cardinality(Refs(MainSt)) = 1
        /\ \A s \in Struct \ {MainSt} : IsFiniteSet(Refs(s)) /\ Cardinality(Refs(s)) = 0
    <3>1. IsFiniteSet({<<Main, "self">>}) /\ Cardinality({<<Main, "self">>}) = 1
      BY FS_Singleton
    <3>2. IsFiniteSet({}) /\ Cardinality({}) = 0
      BY FS_EmptySet
    <3> QED
      BY <2>3, <3>1, <3>2
  <2> QED
    BY <1>1, <1>2, <1>3, <2>4 DEF FinitelyMany
<1>6. Counted
  BY <1>1, <1>2, <1>3, <1>5 DEF Counted
<1>7. OomInUse
  BY <1>1, <1>2, <1>3 DEF OomInUse
<1>8. Placed
  BY <1>1, <1>3 DEF Placed, NewPC, Running, Over
<1>9. Attached
  BY <1>1, <1>2, <1>3 DEF Attached
<1>10. Making
  BY <1>1, <1>2, <1>3 DEF Making, NewPC
<1>11. Begun
  BY <1>3 DEF Begun, Over
<1>12. Resulting
  BY <1>1, <1>2, <1>3 DEF Resulting
<1>13. Stored
  <2>1. Emptied
    BY <1>1, <1>2, <1>3 DEF Emptied
  <2>2. Clearing
    BY <1>3 DEF Clearing
  <2>3. NothingLost
    BY <1>1, <1>2, <1>3, NothingFacts DEF NothingLost
  <2> QED
    BY <2>1, <2>2, <2>3 DEF Stored
<1> QED
  BY <1>4, <1>5, <1>6, <1>7, <1>8, <1>9, <1>10, <1>11, <1>12, <1>13 DEF IInv

LEMMA NextIInv == IInv /\ Stored /\ [Next]_vars => IInv' /\ Stored' /\ Frees
<1> SUFFICES ASSUME IInv, Stored, [Next]_vars PROVE IInv' /\ Stored' /\ Frees
  OBVIOUS
<1>1. CASE UNCHANGED vars
  <2>1. IInv'
    BY <1>1 DEF vars, threadVars, countVars, endVars, IInv, TypeOK, FinitelyMany, Counted, Refs,
       RefersTo, OomInUse, Placed, Attached, Begun, Making, Resulting, Result
  <2>2. Keeps
    BY <1>1 DEF vars, threadVars, countVars, endVars, Keeps
  <2> QED
    BY <2>1, <2>2, KeepsStored
<1>2. CASE Next
  <2> SUFFICES ASSUME NEW t \in Thread,
                      \/ Proceed(t)
                      \/ \E u \in Thread, s \in Block, f \in Creators : Create(t, u, s, f)
                      \/ ForeignStarts(t)
                      \/ \E s \in Block : AskSelf(t, s)
                      \/ MemoryIsOut(t)
                      \/ LockOom(t)
                      \/ \E k \in Kind : Register(t, k)
                      \/ GiveValue(t) \/ Finish(t) \/ CallbackReturns(t)
                      \/ \E s \in Struct : AddRef(t, s) \/ DropRef(t, s) \/ Join(t, s)
                      \/ JoinReturns(t)
               PROVE  IInv' /\ Stored' /\ Frees
    BY <1>2 DEF Next, Ends, GivesUp
  <2>1. CASE Proceed(t)
    <3>1. CASE LetGo(t) \/ Construct(t) \/ CancelThread(t)
      BY <3>1, StepLetGo, StepConstruct, KeepsStored
    <3>2. CASE Detach(t) \/ DropSelf(t)
      BY <3>2, StepDrops, KeepsStored
    <3>3. CASE StartProc(t) \/ ProcCancelled(t) \/ End(t)
      BY <3>3, StepMoves, KeepsStored
    <3>4. CASE \E k \in Kind : RunOne(t, k)
      BY <3>4, StepContent
    <3>5. CASE Poison(t)
      BY <3>5, StepHandsOver DEF Poison
    <3>6. CASE Begin(t)
      BY <3>6, StepBegin
    <3> QED
      BY <2>1, <3>1, <3>2, <3>3, <3>4, <3>5, <3>6 DEF Proceed
  <2>2. CASE \E u \in Thread, s \in Block, f \in Creators : Create(t, u, s, f)
    BY <2>2, StepCreate
  <2>3. CASE ForeignStarts(t) \/ MemoryIsOut(t)
    BY <2>3, StepMoves, KeepsStored
  <2>4. CASE (\E s \in Block : AskSelf(t, s)) \/ LockOom(t)
    BY <2>4, StepAttach DEF Struct
  <2>5. CASE \E k \in Kind : Register(t, k)
    BY <2>5, StepContent
  <2>6. CASE GiveValue(t) \/ Finish(t)
    BY <2>6, StepFinish
  <2>7. CASE \E s \in Struct : AddRef(t, s) \/ DropRef(t, s)
    BY <2>7, StepAddRef, StepDropRef, KeepsStored
  <2>8. CASE \E s \in Struct : Join(t, s)
    BY <2>8, StepHandsOver
  <2>9. CASE JoinReturns(t)
    BY <2>9, StepDrops, KeepsStored
  <2>10. CASE CallbackReturns(t)
    BY <2>10, StepMoves, KeepsStored
  <2> QED
    BY <2>1, <2>2, <2>3, <2>4, <2>5, <2>6, <2>7, <2>8, <2>9, <2>10
<1> QED
  BY <1>1, <1>2

LEMMA Invariance == Spec => [](IInv /\ Stored)
BY InitIInv, NextIInv, PTL DEF Spec

(***************************************************************************)
(* The variables have the values that the code gives them; no count gets   *)
(* below zero, whatever the order in which references are dropped.         *)
(***************************************************************************)
THEOREM TypeCorrect == Spec => []TypeOK
<1>1. IInv => TypeOK
  BY DEF IInv
<1> QED
  BY <1>1, Invariance, PTL

(***************************************************************************)
(* The count of a structure is the number of those who have it, so that no *)
(* thread and no call of the library has one that has been freed; and the  *)
(* mutex of the static structure is locked exactly while that is in use.   *)
(***************************************************************************)
THEOREM ReferencesCounted == Spec => []RefsCounted
<1>1. IInv => RefsCounted
  BY DEF IInv, RefsCounted
<1> QED
  BY <1>1, Invariance, PTL

(***************************************************************************)
(* What is freed has no value in it, and no callback but those which the   *)
(* destructors of values have registered at the end of its thread.         *)
(***************************************************************************)
THEOREM FreedEmpty == Spec => FreedIsEmpty
<1>1. IInv /\ Stored /\ [Next]_vars => [Frees]_vars
  BY NextIInv
<1>2. Spec => [][Frees]_vars
  BY <1>1, Invariance, PTL DEF Spec
<1> QED
  BY <1>2 DEF FreedIsEmpty, Frees

(***************************************************************************)
(* No callback and no value is lost between the two structures of a        *)
(* thread; and when it has ended all of them have been run, but for the    *)
(* callbacks which the destructors of its values have registered.          *)
(***************************************************************************)
THEOREM NothingIsLost == Spec => []NothingLost
<1>1. IInv /\ Stored => NothingLost
  BY DEF Stored
<1> QED
  BY <1>1, Invariance, PTL

(***************************************************************************)
(* The procedure of a C++ thread has its arguments.                        *)
(***************************************************************************)
THEOREM ArgumentsAreThere == Spec => []CodeHasArguments
<1>1. IInv => CodeHasArguments
  <2> SUFFICES ASSUME IInv, NEW t \in Thread, pc[t] = "run", outcome[t] = "none",
                      param[t] # None
               PROVE  st[param[t]].ctor \in {"none", "constructed"}
    BY DEF CodeHasArguments
  <2>1. st[param[t]].ctor \notin {"zero", "cancelled"}
    BY DEF IInv, Making, Running
  <2>2. st[param[t]] \in Structure
    BY DEF IInv, TypeOK, Structure, Struct
  <2> QED
    BY <2>1, <2>2 DEF Structure
<1> QED
  BY <1>1, Invariance, PTL

(***************************************************************************)
(* Whoever waits for its creator has a creator that will set its event.    *)
(***************************************************************************)
THEOREM NobodyForgotten == Spec => []NoneForgotten
<1>1. IInv => NoneForgotten
  <2> SUFFICES ASSUME IInv, NEW t \in Thread
               PROVE  /\ pc[t] = "born" /\ ~st[param[t]].init =>
                            \E u \in Thread : pc[u] \in NewPC /\ arg[u] = param[t]
                      /\ pc[t] = "await" /\ st[self[t]].ctor = "zero" =>
                            \E u \in Thread : pc[u] = "construct" /\ arg[u] = self[t]
    BY DEF NoneForgotten, NewPC
  <2> USE DEF IInv
  <2>1. pc[t] \in {"born", "await"} => param[t] \in Struct /\ param[t] # None
    BY StructAssumption DEF Placed, Struct
  <2>2. CASE pc[t] = "born" /\ ~st[param[t]].init
    BY <2>1, <2>2 DEF Making
  <2>3. CASE pc[t] = "await" /\ st[self[t]].ctor = "zero"
    <3>1. self[t] = param[t] /\ self[t] \in Struct /\ st[self[t]].init
      BY <2>1, <2>3 DEF Placed, Making, Running
    <3>2. PICK u \in Thread : pc[u] \in {"newcxx", "construct"} /\ arg[u] = self[t]
      BY <2>3, <3>1 DEF Making
    <3>3. pc[u] # "newcxx"
      BY <3>1, <3>2 DEF Making, NewPC
    <3> QED
      BY <2>3, <3>2, <3>3
  <2> QED
    BY <2>2, <2>3
<1> QED
  BY <1>1, Invariance, PTL

(***************************************************************************)
(* Only its own return gets a thread out of a join.                        *)
(***************************************************************************)
LEMMA JoinEnds ==
    ASSUME TypeOK, NEW t \in Thread, [Next]_vars, pc[t] = "join", pc'[t] # "join"
    PROVE  JoinReturns(t)
<1>1. Next
  BY DEF vars, threadVars
<1>2. PICK u \in Thread :
            \/ Proceed(u)
            \/ \E v \in Thread, s \in Block, f \in Creators : Create(u, v, s, f)
            \/ ForeignStarts(u)
            \/ \E s \in Block : AskSelf(u, s)
            \/ MemoryIsOut(u)
            \/ LockOom(u)
            \/ \E k \in Kind : Register(u, k)
            \/ GiveValue(u) \/ Finish(u) \/ CallbackReturns(u)
            \/ \E s \in Struct : AddRef(u, s) \/ DropRef(u, s) \/ Join(u, s)
            \/ JoinReturns(u)
  BY <1>1 DEF Next, Ends, GivesUp
<1>3. CASE Proceed(u)
  BY <1>3 DEF Proceed, LetGo, Construct, CancelThread, Detach, Begin, Adopt, StartProc,
     ProcCancelled, RunOne, Poison, DropSelf, End, Goes, threadVars, TypeOK
<1>4. CASE \E v \in Thread, s \in Block, f \in Creators : Create(u, v, s, f)
  BY <1>4 DEF Create, TypeOK
<1>5. CASE ForeignStarts(u) \/ MemoryIsOut(u) \/ LockOom(u) \/ \E s \in Block : AskSelf(u, s)
  BY <1>5 DEF ForeignStarts, MemoryIsOut, LockOom, AskSelf, Goes, TypeOK
<1>6. CASE \/ \E k \in Kind : Register(u, k)
           \/ GiveValue(u) \/ Finish(u) \/ CallbackReturns(u)
  BY <1>6 DEF Register, GiveValue, Finish, Exits, CallbackReturns, Goes, threadVars, TypeOK
<1>7. CASE \E s \in Struct : AddRef(u, s) \/ DropRef(u, s) \/ Join(u, s)
  BY <1>7 DEF AddRef, DropRef, Join, Goes, threadVars, TypeOK
<1>8. CASE JoinReturns(u)
  BY <1>8 DEF JoinReturns, Joined, Goes, TypeOK
<1> QED
  BY <1>2, <1>3, <1>4, <1>5, <1>6, <1>7, <1>8

(***************************************************************************)
(* Who joins gets what the other has ended with, and all that the other    *)
(* has registered has been run, but for the callbacks which the            *)
(* destructors of its values have registered at its end.                   *)
(***************************************************************************)
THEOREM JoinIsRight == Spec => JoinGetsResult
<1> DEFINE Right(t) ==
              LET s == arg[t]
                  u == st[s].tid
              IN  /\ st[s].result # "none" => st[s].result = outcome[u]
                  /\ due[u]["table"] = 0 /\ due[u]["queue"] = late[u]
           Step == \A t \in Thread : pc[t] = "join" /\ pc'[t] # "join" => Right(t)
<1>1. ASSUME IInv, Stored, [Next]_vars PROVE Step
  <2> SUFFICES ASSUME NEW t \in Thread, pc[t] = "join", pc'[t] # "join" PROVE Right(t)
    OBVIOUS
  <2> USE <1>1 DEF IInv
  <2>1. JoinReturns(t)
    BY JoinEnds
  <2>2. PICK s \in Struct : s = arg[t]
    BY DEF Placed
  <2>3. st[s].nref > 0
    <3>1. RefersTo(t, "arg", s)
      BY <2>2 DEF RefersTo
    <3> QED
      BY <3>1, Held, Types DEF Place, TypeOK
  <2>4. PICK u \in Thread : u = st[s].tid
    BY <2>3 DEF Attached
  <2>5. pc[u] = "ended"
    BY <2>1, <2>2, <2>4 DEF JoinReturns
  <2>6. st[s].result # "none" => st[s].result = outcome[u]
    BY <2>3, <2>4, <2>5 DEF Resulting, Result, Begun, Over
  <2>7. due[u]["table"] = 0 /\ due[u]["queue"] = late[u]
    BY <2>5 DEF Placed, Stored, NothingLost
  <2> QED
    BY <2>2, <2>4, <2>6, <2>7
<1>2. IInv /\ Stored /\ [Next]_vars => [Step]_vars
  BY <1>1
<1>3. Spec => [][Step]_vars
  BY <1>2, Invariance, PTL DEF Spec
<1> QED
  BY <1>3 DEF JoinGetsResult

-----------------------------------------------------------------------------
(* Queues of destructors *)


(***************************************************************************)
(* The positions that are kept, by their rank among them.                  *)
(***************************************************************************)
RankOf(I, i) == Cardinality({j \in I : j <= i})

At(I, n) == CHOOSE i \in I : RankOf(I, i) = n

LEMMA RankGrows ==
  ASSUME NEW I \in SUBSET Nat, IsFiniteSet(I)
  PROVE  /\ Cardinality(I) \in Nat
         /\ \A i \in I : RankOf(I, i) \in 1 .. Cardinality(I)
         /\ \A i, j \in I : i < j => RankOf(I, i) < RankOf(I, j)
<1> DEFINE UpTo(i) == {j \in I : j <= i}
<1>1. ASSUME NEW i \in I
      PROVE  /\ IsFiniteSet(UpTo(i)) /\ Cardinality(UpTo(i)) <= Cardinality(I)
             /\ Cardinality(UpTo(i)) \in Nat \ {0}
  <2>1. IsFiniteSet(UpTo(i)) /\ Cardinality(UpTo(i)) <= Cardinality(I)
    BY FS_Subset
  <2>2. UpTo(i) # {}
    OBVIOUS
  <2>3. QED BY <2>1, <2>2, FS_EmptySet, FS_CardinalityType
<1>2. Cardinality(I) \in Nat
  BY FS_CardinalityType
<1>3. ASSUME NEW i \in I, NEW j \in I, i < j
      PROVE  Cardinality(UpTo(i)) < Cardinality(UpTo(j))
  <2>0. i \in Nat /\ j \in Nat /\ \A k \in I : k \in Nat
    OBVIOUS
  <2>1. UpTo(i) \in SUBSET UpTo(j) /\ j \in UpTo(j) /\ j \notin UpTo(i)
    <3>1. \A k \in I : k <= i => k <= j
      BY <1>3, <2>0
    <3>2. j \in UpTo(j) /\ j \notin UpTo(i)
      BY <1>3, <2>0
    <3>3. UpTo(i) \subseteq UpTo(j)
      BY <3>1
    <3>4. QED BY <3>2, <3>3
  <2>2. Cardinality(UpTo(i)) <= Cardinality(UpTo(j)) /\ Cardinality(UpTo(j)) # Cardinality(UpTo(i))
    BY <1>1, <2>1, FS_Subset
  <2>3. QED BY <1>1, <2>2
<1>4. \A i \in I : RankOf(I, i) = Cardinality(UpTo(i))
  BY DEF RankOf
<1> HIDE DEF UpTo
<1>5. QED BY <1>1, <1>2, <1>3, <1>4

LEMMA RankIsOnto ==
  ASSUME NEW I \in SUBSET Nat, IsFiniteSet(I), NEW n \in 1 .. Cardinality(I)
  PROVE  At(I, n) \in I /\ RankOf(I, At(I, n)) = n
<1> DEFINE c == Cardinality(I)
           f == [i \in I |-> RankOf(I, i)]
<1>1. c \in Nat
  BY RankGrows
<1>2. f \in [I -> 1 .. c]
  BY RankGrows
<1>3. \A i, j \in I : f[i] = f[j] => i = j
  BY RankGrows
<1>4. f \in Injection(I, 1 .. c)
  BY <1>2, <1>3 DEF Injection, IsInjective
<1>5. IsFiniteSet(1 .. c) /\ Cardinality(1 .. c) = c
  BY <1>1, FS_Interval
<1>6. f \in Surjection(I, 1 .. c)
  BY <1>4, <1>5, FS_Injection
<1>7. \E i \in I : RankOf(I, i) = n
  BY <1>6 DEF Surjection
<1>8. QED BY <1>7 DEF At

(***************************************************************************)
(* Sequences with an element put in front, and with one replaced.          *)
(***************************************************************************)
LEMMA Prepended ==
  ASSUME NEW S, NEW x \in S, NEW s \in Seq(S)
  PROVE  /\ <<x>> \o s \in Seq(S) /\ Len(<<x>> \o s) = Len(s) + 1
         /\ DOMAIN (<<x>> \o s) = 1 .. Len(s) + 1
         /\ (<<x>> \o s)[1] = x
         /\ \A k \in 1 .. Len(s) : (<<x>> \o s)[k + 1] = s[k]
<1>1. <<x>> \in Seq(S) /\ Len(<<x>>) = 1 /\ <<x>>[1] = x /\ Len(s) \in Nat
  OBVIOUS
<1> DEFINE w == <<x>>
           r == w \o s
<1> HIDE DEF w
<1>2. r \in Seq(S) /\ Len(r) = Len(s) + 1
  BY <1>1 DEF w
<1>3. \A k \in 1 .. Len(s) + 1 : r[k] = IF k <= 1 THEN w[k] ELSE s[k - 1]
  BY <1>1 DEF w
<1>4. DOMAIN r = 1 .. Len(s) + 1
  BY <1>2
<1>5. r[1] = x
  BY <1>1, <1>3 DEF w
<1>6. ASSUME NEW k \in 1 .. Len(s) PROVE r[k + 1] = s[k]
  <2>1. k + 1 \in 1 .. Len(s) + 1 /\ ~(k + 1 <= 1) /\ (k + 1) - 1 = k
    BY <1>1
  <2> HIDE DEF r
  <2>2. QED BY <1>3, <2>1
<1>7. QED BY <1>2, <1>4, <1>5, <1>6 DEF w

LEMMA Replaced ==
  ASSUME NEW S, NEW s \in Seq(S), NEW n \in DOMAIN s, NEW x \in S
  PROVE  /\ [s EXCEPT ![n] = x] \in Seq(S) /\ Len([s EXCEPT ![n] = x]) = Len(s)
         /\ DOMAIN [s EXCEPT ![n] = x] = DOMAIN s
         /\ [s EXCEPT ![n] = x][n] = x
         /\ \A k \in DOMAIN s : k # n => [s EXCEPT ![n] = x][k] = s[k]
OBVIOUS

\* A finite set of numbers has a least and a greatest one.
LEMMA Extremes ==
  ASSUME NEW I \in SUBSET Nat, IsFiniteSet(I), I # {}
  PROVE  /\ \E i \in I : \A j \in I : i <= j
         /\ \E i \in I : \A j \in I : j <= i
<1> DEFINE c == Cardinality(I)
<1>1. c \in Nat \ {0}
  BY FS_CardinalityType, FS_EmptySet
<1>2. At(I, 1) \in I /\ RankOf(I, At(I, 1)) = 1 /\ At(I, c) \in I /\ RankOf(I, At(I, c)) = c
  BY <1>1, RankIsOnto
<1>3. ASSUME NEW j \in I PROVE At(I, 1) <= j /\ j <= At(I, c)
  <2>1. RankOf(I, j) \in 1 .. c
    BY RankGrows
  <2>2. j < At(I, 1) => RankOf(I, j) < 1
    BY <1>2, RankGrows
  <2>3. At(I, c) < j => c < RankOf(I, j)
    BY <1>2, RankGrows
  <2>4. j \in Nat /\ At(I, 1) \in Nat /\ At(I, c) \in Nat
    BY <1>2
  <2> HIDE DEF c
  <2>5. QED BY <1>1, <2>1, <2>2, <2>3, <2>4
<1>4. QED BY <1>2, <1>3

LEMMA KeptElements ==
  ASSUME NEW S, NEW s \in Seq(S), NEW I \in SUBSET DOMAIN s
  PROVE  /\ Kept(s, I) \in Seq(S) /\ Len(Kept(s, I)) <= Len(s)
         /\ Kept(s, I) = <<>> <=> I = {}
         /\ \A n \in DOMAIN Kept(s, I) : At(I, n) \in I /\ Kept(s, I)[n] = s[At(I, n)]
         /\ \A m, n \in DOMAIN Kept(s, I) : m < n => At(I, m) < At(I, n)
         /\ \A i \in I : \E n \in DOMAIN Kept(s, I) : At(I, n) = i
<1> DEFINE c == Cardinality(I)
<1>0. DOMAIN s = 1 .. Len(s) /\ Len(s) \in Nat /\ I \in SUBSET Nat
  OBVIOUS
<1>1. IsFiniteSet(I) /\ c \in Nat /\ c <= Len(s)
  <2>1. IsFiniteSet(DOMAIN s) /\ Cardinality(DOMAIN s) = Len(s)
    BY <1>0, FS_Interval
  <2>2. QED BY <2>1, FS_Subset, FS_CardinalityType
<1>2. \A n \in 1 .. c : At(I, n) \in I /\ RankOf(I, At(I, n)) = n
  BY <1>0, <1>1, RankIsOnto
<1>3. Kept(s, I) = [n \in 1 .. c |-> s[At(I, n)]]
  BY DEF Kept, At, RankOf
<1>4. Kept(s, I) \in Seq(S) /\ Len(Kept(s, I)) = c /\ DOMAIN Kept(s, I) = 1 .. c
  BY <1>0, <1>1, <1>2, <1>3
<1>5. Kept(s, I) = <<>> <=> I = {}
  <2>1. c = 0 <=> I = {}
    BY <1>1, FS_EmptySet
  <2>2. Kept(s, I) = <<>> <=> c = 0
    BY <1>1, <1>4
  <2>3. QED BY <2>1, <2>2
<1>6. ASSUME NEW m \in 1 .. c, NEW n \in 1 .. c, m < n PROVE At(I, m) < At(I, n)
  <2>1. At(I, m) \in I /\ At(I, n) \in I /\ RankOf(I, At(I, m)) < RankOf(I, At(I, n))
    BY <1>2, <1>6
  <2>2. At(I, m) # At(I, n) /\ ~(RankOf(I, At(I, n)) < RankOf(I, At(I, m)))
    BY <1>2, <1>6
  <2>3. QED BY <1>0, <1>1, <2>1, <2>2, RankGrows
<1>7. ASSUME NEW i \in I PROVE \E n \in 1 .. c : At(I, n) = i
  <2>1. RankOf(I, i) \in 1 .. c
    BY <1>0, <1>1, RankGrows
  <2>2. At(I, RankOf(I, i)) \in I /\ RankOf(I, At(I, RankOf(I, i))) = RankOf(I, i)
    BY <1>2, <2>1
  <2>3. \A j \in I : RankOf(I, j) = RankOf(I, i) => j = i
    BY <1>0, <1>1, RankGrows
  <2>4. QED BY <2>1, <2>2, <2>3
<1> HIDE DEF c
<1>8. QED BY <1>1, <1>2, <1>3, <1>4, <1>5, <1>6, <1>7


(***************************************************************************)
(* A chain of blocks in good order: blocks within their capacity, at least *)
(* one of them, and elements that are newer the later they are in their    *)
(* block and the nearer their block is to the first one.                   *)
(***************************************************************************)
Ordered(q) ==
    \A k, m \in DOMAIN q : \A i \in DOMAIN q[k], j \in DOMAIN q[m] :
        m < k \/ (k = m /\ i < j) => q[k][i].id < q[m][j].id

Fine(q) ==
    /\ q \in Seq(Seq(Element))
    /\ q # <<>>
    /\ \A k \in DOMAIN q : Len(q[k]) <= Capacity
    /\ Ordered(q)

\* What remains of a block when elements are taken out.
Part(c, b) ==
    \E f \in [DOMAIN c -> DOMAIN b] :
        /\ \A i \in DOMAIN c : c[i] = b[f[i]]
        /\ \A i, j \in DOMAIN c : i < j => f[i] < f[j]

LEMMA ContentsAre ==
  ASSUME NEW q, NEW e
  PROVE  e \in Contents(q) <=> \E k \in DOMAIN q : \E i \in DOMAIN q[k] : e = q[k][i]
BY DEF Contents

\* What a block has at some positions.
Values(b, I) == {b[i] : i \in I}

LEMMA ValuesAre ==
  ASSUME NEW b, NEW I, NEW e
  PROVE  e \in Values(b, I) <=> \E i \in I : e = b[i]
BY DEF Values

LEMMA PartOfItself ==
  ASSUME NEW b \in Seq(Element)
  PROVE  Part(b, b)
<1>1. [i \in DOMAIN b |-> i] \in [DOMAIN b -> DOMAIN b]
  OBVIOUS
<1>2. QED BY <1>1 DEF Part

LEMMA WithoutIsPart ==
  ASSUME NEW b \in Seq(Element), NEW out
  PROVE  /\ Without(b, out) \in Seq(Element) /\ Len(Without(b, out)) <= Len(b)
         /\ Part(Without(b, out), b)
         /\ Values(Without(b, out), DOMAIN Without(b, out)) = Values(b, DOMAIN b \ out)
<1> DEFINE I == DOMAIN b \ out
           c == Kept(b, I)
           f == [n \in DOMAIN c |-> At(I, n)]
<1>1. /\ c \in Seq(Element) /\ Len(c) <= Len(b)
      /\ \A n \in DOMAIN c : At(I, n) \in I /\ c[n] = b[At(I, n)]
      /\ \A m, n \in DOMAIN c : m < n => At(I, m) < At(I, n)
      /\ \A i \in I : \E n \in DOMAIN c : At(I, n) = i
  <2>1. I \in SUBSET DOMAIN b
    OBVIOUS
  <2> HIDE DEF I
  <2>2. QED BY <2>1, KeptElements
<1>2. Without(b, out) = c
  BY DEF Without
<1>3. Part(c, b)
  <2>1. /\ f \in [DOMAIN c -> DOMAIN b]
        /\ \A i \in DOMAIN c : c[i] = b[f[i]]
        /\ \A i, j \in DOMAIN c : i < j => f[i] < f[j]
    <3> HIDE DEF c
    <3>1. QED BY <1>1
  <2> HIDE DEF f, c
  <2>2. QED BY <2>1 DEF Part
<1>4. Values(c, DOMAIN c) = Values(b, I)
  <2> HIDE DEF c, I
  <2>1. ASSUME NEW e PROVE e \in Values(c, DOMAIN c) <=> e \in Values(b, I)
    BY <1>1, ValuesAre
  <2>2. QED BY <2>1 DEF Values
<1> HIDE DEF c
<1>5. QED BY <1>1, <1>2, <1>3, <1>4

\* A chain remains fine when elements are taken out of its blocks.
LEMMA ThinnedIsFine ==
  ASSUME NEW q, Fine(q), NEW r \in Seq(Seq(Element)), Len(r) = Len(q),
         \A k \in DOMAIN q : Part(r[k], q[k]) /\ Len(r[k]) <= Len(q[k])
  PROVE  Fine(r)
<1>1. q \in Seq(Seq(Element)) /\ q # <<>> /\ DOMAIN r = DOMAIN q /\ Len(q) \in Nat
      /\ DOMAIN q = 1 .. Len(q) /\ r # <<>>
  BY DEF Fine
<1>2. \A k \in DOMAIN q : q[k] \in Seq(Element) /\ r[k] \in Seq(Element)
  BY <1>1
<1>3. \A k \in DOMAIN r : Len(r[k]) <= Capacity
  <2>1. SUFFICES ASSUME NEW k \in DOMAIN q PROVE Len(r[k]) <= Capacity
    BY <1>1
  <2>2. Len(q[k]) <= Capacity /\ Len(r[k]) <= Len(q[k]) /\ Len(q[k]) \in Nat /\ Len(r[k]) \in Nat
    BY <1>2 DEF Fine
  <2>3. QED BY <2>2, CapacityAssumption
<1>4. ASSUME NEW k \in DOMAIN q, NEW m \in DOMAIN q,
             NEW i \in DOMAIN r[k], NEW j \in DOMAIN r[m], m < k \/ (k = m /\ i < j)
      PROVE  r[k][i].id < r[m][j].id
  <2>1. PICK f \in [DOMAIN r[k] -> DOMAIN q[k]] :
           /\ \A x \in DOMAIN r[k] : r[k][x] = q[k][f[x]]
           /\ \A x, y \in DOMAIN r[k] : x < y => f[x] < f[y]
    BY DEF Part
  <2>2. CASE k = m /\ i < j
    <3>1. f[i] \in DOMAIN q[k] /\ f[j] \in DOMAIN q[k] /\ f[i] < f[j]
          /\ r[k][i] = q[k][f[i]] /\ r[k][j] = q[k][f[j]]
      BY <2>1, <2>2
    <3>2. q[k][f[i]].id < q[k][f[j]].id
      BY <3>1 DEF Fine, Ordered
    <3>3. QED BY <2>2, <3>1, <3>2
  <2>3. CASE m < k
    <3>1. PICK g \in [DOMAIN r[m] -> DOMAIN q[m]] : \A x \in DOMAIN r[m] : r[m][x] = q[m][g[x]]
      BY DEF Part
    <3>2. q[k][f[i]].id < q[m][g[j]].id
      BY <2>1, <2>3, <3>1 DEF Fine, Ordered
    <3>3. QED BY <2>1, <3>1, <3>2
  <2>4. QED BY <1>4, <2>2, <2>3
<1>5. Ordered(r)
  BY <1>1, <1>4 DEF Ordered
<1>6. QED BY <1>1, <1>3, <1>5 DEF Fine

\* Empty blocks that disappear change neither the order nor the contents.
LEMMA CompactedIsFine ==
  ASSUME NEW q, Fine(q), NEW k \in DOMAIN q
  PROVE  Fine(Compacted(q, k)) /\ Contents(Compacted(q, k)) = Contents(q)
<1> DEFINE I == {j \in DOMAIN q : j >= k \/ q[j] # <<>>}
           r == Kept(q, I)
<1>1. q \in Seq(Seq(Element)) /\ I \in SUBSET DOMAIN q /\ k \in I /\ DOMAIN q \subseteq Nat
  BY DEF Fine
<1>2. \A j \in DOMAIN q : j \notin I => q[j] = <<>>
  OBVIOUS
<1>3. r = Compacted(q, k)
  BY DEF Compacted
<1> HIDE DEF I
<1>4. /\ r \in Seq(Seq(Element)) /\ r # <<>>
      /\ \A n \in DOMAIN r : At(I, n) \in DOMAIN q /\ r[n] = q[At(I, n)]
      /\ \A m, n \in DOMAIN r : m < n => At(I, m) < At(I, n)
      /\ \A i \in I : \E n \in DOMAIN r : At(I, n) = i
  <2>1. /\ r \in Seq(Seq(Element))
        /\ (r = <<>>) <=> (I = {})
        /\ \A n \in DOMAIN r : At(I, n) \in I /\ r[n] = q[At(I, n)]
        /\ \A m, n \in DOMAIN r : m < n => At(I, m) < At(I, n)
        /\ \A i \in I : \E n \in DOMAIN r : At(I, n) = i
    BY <1>1, KeptElements
  <2>2. I # {}
    BY <1>1
  <2> HIDE DEF r
  <2>3. QED BY <1>1, <2>1, <2>2
<1> HIDE DEF r
<1>5. \A n \in DOMAIN r : Len(r[n]) <= Capacity
  BY <1>4 DEF Fine
<1>6. Ordered(r)
  <2>1. SUFFICES ASSUME NEW x \in DOMAIN r, NEW m \in DOMAIN r,
                        NEW i \in DOMAIN r[x], NEW j \in DOMAIN r[m], m < x \/ (x = m /\ i < j)
                 PROVE  r[x][i].id < r[m][j].id
    BY DEF Ordered
  <2>2. At(I, x) \in DOMAIN q /\ At(I, m) \in DOMAIN q /\ r[x] = q[At(I, x)] /\ r[m] = q[At(I, m)]
    BY <1>4
  <2>3. At(I, m) < At(I, x) \/ (At(I, x) = At(I, m) /\ i < j)
    BY <1>4, <2>1
  <2>4. QED BY <2>1, <2>2, <2>3 DEF Fine, Ordered
<1>7. Contents(r) = Contents(q)
  <2>1. ASSUME NEW e \in Contents(r) PROVE e \in Contents(q)
    BY <1>4, ContentsAre
  <2>2. ASSUME NEW e \in Contents(q) PROVE e \in Contents(r)
    <3>1. PICK j \in DOMAIN q : \E i \in DOMAIN q[j] : e = q[j][i]
      BY ContentsAre
    <3>2. q[j] # <<>>
      BY <3>1
    <3>3. PICK n \in DOMAIN r : At(I, n) = j
      BY <1>2, <1>4, <3>2
    <3>4. r[n] = q[j]
      BY <1>4, <3>3
    <3>5. QED BY <3>1, <3>4, ContentsAre
  <2>3. QED BY <2>1, <2>2
<1>8. Fine(r)
  BY <1>4, <1>5, <1>6 DEF Fine
<1>9. QED BY <1>3, <1>7, <1>8

LEMMA BlockFacts ==
  ASSUME NEW q, Fine(q)
  PROVE  /\ q \in Seq(Seq(Element)) /\ Len(q) \in Nat \ {0}
         /\ DOMAIN q = 1 .. Len(q) /\ 1 \in DOMAIN q /\ Len(q) \in DOMAIN q
         /\ \A k \in DOMAIN q :
               /\ q[k] \in Seq(Element) /\ Len(q[k]) \in Nat
               /\ DOMAIN q[k] = 1 .. Len(q[k])
<1>1. q \in Seq(Seq(Element)) /\ q # <<>>
  BY DEF Fine
<1>2. \A k \in DOMAIN q : q[k] \in Seq(Element)
  BY <1>1
<1>3. QED BY <1>1, <1>2

\* The newest match of a block, and the first block that has a match.
LEMMA NewestIsNewest ==
  ASSUME NEW b \in Seq(Element), NEW d, Positions(b, d) # {}
  PROVE  /\ NewestIn(b, d) \in DOMAIN b /\ Matches(b[NewestIn(b, d)], d)
         /\ \A j \in Positions(b, d) : j <= NewestIn(b, d)
<1> DEFINE P == Positions(b, d)
<1>1. P \in SUBSET (1 .. Len(b)) /\ Len(b) \in Nat
  BY DEF Positions
<1>2. IsFiniteSet(P) /\ P # {}
  <2>1. IsFiniteSet(1 .. Len(b))
    BY <1>1, FS_Interval
  <2>2. P # {}
    OBVIOUS
  <2> HIDE DEF P
  <2>3. QED BY <1>1, <2>1, <2>2, FS_Subset
<1>3. \E i \in P : \A j \in P : j <= i
  <2> HIDE DEF P
  <2>1. P \in SUBSET Nat
    BY <1>1
  <2>2. QED BY <1>2, <2>1, Extremes
<1>4. NewestIn(b, d) \in P /\ \A j \in P : j <= NewestIn(b, d)
  BY <1>3 DEF NewestIn
<1>5. QED BY <1>4 DEF Positions

LEMMA FirstHolding ==
  ASSUME NEW q, Fine(q), NEW d, Holding(q, d) # {}
  PROVE  /\ BlockWith(q, d) \in DOMAIN q
         /\ Positions(q[BlockWith(q, d)], d) # {}
         /\ \A k \in DOMAIN q : k < BlockWith(q, d) => Positions(q[k], d) = {}
<1> DEFINE H == Holding(q, d)
<1>1. H \in SUBSET (1 .. Len(q)) /\ Len(q) \in Nat
  BY BlockFacts DEF Holding
<1>2. IsFiniteSet(H) /\ H \in SUBSET Nat /\ H # {}
  <2>1. IsFiniteSet(1 .. Len(q))
    BY <1>1, FS_Interval
  <2>2. H # {}
    OBVIOUS
  <2> HIDE DEF H
  <2>3. H \in SUBSET Nat
    BY <1>1
  <2>4. QED BY <1>1, <2>1, <2>2, <2>3, FS_Subset
<1>3. \E k \in H : \A j \in H : k <= j
  <2> HIDE DEF H
  <2>1. QED BY <1>2, Extremes
<1>4. BlockWith(q, d) \in H /\ \A j \in H : BlockWith(q, d) <= j
  BY <1>3 DEF BlockWith
<1>5. \A k \in DOMAIN q : k \in Nat /\ BlockWith(q, d) \in Nat
  BY <1>2, <1>4, BlockFacts
<1>6. \A k \in DOMAIN q : k < BlockWith(q, d) => k \notin H
  <2> HIDE DEF H
  <2>1. QED BY <1>4, <1>5
<1>7. QED BY <1>4, <1>6 DEF Holding

(***************************************************************************)
(* What the operations of a queue do to its contents, and that they keep   *)
(* it in good order.                                                       *)
(***************************************************************************)
LEMMA PushedIsFine ==
  ASSUME NEW q, Fine(q), NEW e \in Element, \A x \in Contents(q) : x.id < e.id
  PROVE  Fine(Pushed(q, 1, e)) /\ Contents(Pushed(q, 1, e)) = Contents(q) \cup {e}
<1> DEFINE r == Pushed(q, 1, e)
<1> SUFFICES Fine(r) /\ Contents(r) = Contents(q) \cup {e}
  OBVIOUS
<1>0. \A k \in DOMAIN q : \A i \in DOMAIN q[k] : q[k][i].id < e.id
  BY ContentsAre
<1>1. CASE NeedsBlock(q, 1)
  <2>1. r = <<<<e>>>> \o q
    BY <1>1 DEF Pushed
  <2>2. <<e>> \in Seq(Element) /\ Len(<<e>>) = 1 /\ DOMAIN <<e>> = {1} /\ <<e>>[1] = e
    OBVIOUS
  <2>3. /\ r \in Seq(Seq(Element)) /\ r # <<>> /\ DOMAIN r = 1 .. Len(q) + 1
        /\ r[1] = <<e>> /\ \A k \in DOMAIN q : r[k + 1] = q[k]
        /\ \A k \in DOMAIN r : k # 1 => k - 1 \in DOMAIN q /\ r[k] = q[k - 1]
    <3>1. q \in Seq(Seq(Element)) /\ Len(q) \in Nat \ {0} /\ DOMAIN q = 1 .. Len(q)
      BY BlockFacts
    <3>2. /\ r \in Seq(Seq(Element)) /\ Len(r) = Len(q) + 1 /\ DOMAIN r = 1 .. Len(q) + 1
          /\ r[1] = <<e>> /\ \A k \in 1 .. Len(q) : r[k + 1] = q[k]
      <4> DEFINE w == <<e>>
                 B == Seq(Element)
      <4>1. w \in B /\ q \in Seq(B) /\ r = <<w>> \o q
        BY <2>1, <2>2, <3>1
      <4> HIDE DEF w, B, r
      <4>2. /\ r \in Seq(B) /\ Len(r) = Len(q) + 1 /\ DOMAIN r = 1 .. Len(q) + 1
            /\ r[1] = w /\ \A k \in 1 .. Len(q) : r[k + 1] = q[k]
        BY <4>1, Prepended
      <4>3. QED BY <4>2 DEF w, B
    <3> HIDE DEF r
    <3>3. r # <<>>
      BY <3>1, <3>2
    <3>7. \A k \in 1 .. Len(q) + 1 : k # 1 => k - 1 \in 1 .. Len(q) /\ r[k] = q[k - 1]
      <4>1. SUFFICES ASSUME NEW k \in 1 .. Len(q) + 1, k # 1
                     PROVE  k - 1 \in 1 .. Len(q) /\ r[k] = q[k - 1]
        OBVIOUS
      <4>2. k - 1 \in 1 .. Len(q) /\ (k - 1) + 1 = k
        BY <3>1, <4>1
      <4>3. QED BY <3>2, <4>2
    <3>8. QED BY <3>1, <3>2, <3>3, <3>7
  <2> HIDE DEF r
  <2>4. ASSUME NEW k \in DOMAIN r PROVE Len(r[k]) <= Capacity
    <3>1. CASE k = 1
      <4>1. Len(r[k]) = 1
        BY <2>2, <2>3, <3>1
      <4>2. QED BY <4>1, CapacityAssumption
    <3>2. CASE k # 1
      BY <2>3, <3>2 DEF Fine
    <3>3. QED BY <3>1, <3>2
  <2>5. ASSUME NEW k \in DOMAIN r, NEW m \in DOMAIN r, NEW i \in DOMAIN r[k], NEW j \in DOMAIN r[m],
               m < k \/ (k = m /\ i < j)
        PROVE  r[k][i].id < r[m][j].id
    <3>0. k \in 1 .. Len(q) + 1 /\ m \in 1 .. Len(q) + 1 /\ Len(q) \in Nat
      BY <2>3, BlockFacts
    <3>1. CASE k = 1
      <4>1. m = 1 /\ i = 1 /\ j = 1
        BY <2>2, <2>3, <3>0, <3>1, <2>5
      <4>2. QED BY <2>5, <3>1, <4>1
    <3>2. CASE k # 1 /\ m = 1
      BY <1>0, <2>2, <2>3, <3>2
    <3>3. CASE k # 1 /\ m # 1
      <4>1. k - 1 \in DOMAIN q /\ m - 1 \in DOMAIN q /\ r[k] = q[k - 1] /\ r[m] = q[m - 1]
        BY <2>3, <3>3
      <4>2. m - 1 < k - 1 \/ (k - 1 = m - 1 /\ i < j)
        BY <2>5, <3>0
      <4>3. QED BY <4>1, <4>2 DEF Fine, Ordered
    <3>4. QED BY <3>1, <3>2, <3>3
  <2>6. Fine(r)
    BY <2>3, <2>4, <2>5 DEF Fine, Ordered
  <2>7. ASSUME NEW x PROVE x \in Contents(r) <=> x \in Contents(q) \cup {e}
    <3>1. ASSUME x \in Contents(r) PROVE x \in Contents(q) \cup {e}
      <4>1. PICK k \in DOMAIN r : \E i \in DOMAIN r[k] : x = r[k][i]
        BY <3>1, ContentsAre
      <4>2. CASE k = 1
        BY <2>2, <2>3, <4>1, <4>2
      <4>3. CASE k # 1
        BY <2>3, <4>1, <4>3, ContentsAre
      <4>4. QED BY <4>2, <4>3
    <3>2. ASSUME x \in Contents(q) PROVE x \in Contents(r)
      <4>1. PICK k \in DOMAIN q : \E i \in DOMAIN q[k] : x = q[k][i]
        BY <3>2, ContentsAre
      <4>2. k + 1 \in DOMAIN r /\ r[k + 1] = q[k]
        BY <2>3, BlockFacts
      <4>3. QED BY <4>1, <4>2, ContentsAre
    <3>3. e \in Contents(r)
      <4>1. 1 \in DOMAIN r /\ 1 \in DOMAIN r[1] /\ e = r[1][1]
        BY <2>2, <2>3, BlockFacts
      <4>2. QED BY <4>1, ContentsAre
    <3>4. QED BY <3>1, <3>2, <3>3
  <2>8. Contents(r) = Contents(q) \cup {e}
    BY <2>7
  <2>9. QED BY <2>6, <2>8
<1>2. CASE ~NeedsBlock(q, 1)
  <2> DEFINE b == Append(q[1], e)
  <2>1. r = [q EXCEPT ![1] = b]
    BY <1>2 DEF Pushed
  <2>2. /\ b \in Seq(Element) /\ Len(b) = Len(q[1]) + 1 /\ DOMAIN b = 1 .. Len(q[1]) + 1
        /\ b[Len(q[1]) + 1] = e /\ \A i \in DOMAIN q[1] : b[i] = q[1][i]
        /\ DOMAIN q[1] = 1 .. Len(q[1]) /\ Len(q[1]) \in Nat /\ Len(q[1]) + 1 <= Capacity
    <3>1. q[1] \in Seq(Element) /\ Len(q[1]) \in Nat /\ DOMAIN q[1] = 1 .. Len(q[1])
      BY BlockFacts
    <3>2. ~(1 > Capacity - Len(q[1]))
      BY <1>2 DEF NeedsBlock
    <3>3. QED BY <3>1, <3>2, CapacityAssumption
  <2> HIDE DEF b
  <2>3. /\ r \in Seq(Seq(Element)) /\ r # <<>> /\ DOMAIN r = DOMAIN q /\ 1 \in DOMAIN q
        /\ r[1] = b /\ \A k \in DOMAIN q : k # 1 => r[k] = q[k]
    <3>1. q \in Seq(Seq(Element)) /\ 1 \in DOMAIN q
      BY BlockFacts
    <3>2. /\ r \in Seq(Seq(Element)) /\ DOMAIN r = DOMAIN q /\ r[1] = b
          /\ \A k \in DOMAIN q : k # 1 => r[k] = q[k]
      <4> DEFINE B == Seq(Element)
      <4>1. b \in B /\ q \in Seq(B) /\ 1 \in DOMAIN q /\ r = [q EXCEPT ![1] = b]
        BY <2>1, <2>2, <3>1
      <4> HIDE DEF B, r
      <4>2. /\ r \in Seq(B) /\ DOMAIN r = DOMAIN q /\ r[1] = b
            /\ \A k \in DOMAIN q : k # 1 => r[k] = q[k]
        BY <4>1, Replaced
      <4>3. QED BY <4>2 DEF B
    <3> HIDE DEF r
    <3>3. r # <<>>
      BY <3>1, <3>2
    <3>4. QED BY <3>1, <3>2, <3>3
  <2> HIDE DEF r
  <2>4. \A k \in DOMAIN r : Len(r[k]) <= Capacity
    BY <2>2, <2>3 DEF Fine
  <2>5. ASSUME NEW k \in DOMAIN r, NEW m \in DOMAIN r, NEW i \in DOMAIN r[k], NEW j \in DOMAIN r[m],
               m < k \/ (k = m /\ i < j)
        PROVE  r[k][i].id < r[m][j].id
    <3>0. k \in Nat \ {0} /\ m \in Nat \ {0} /\ i \in Nat /\ j \in Nat
      <4>1. r[k] \in Seq(Element) /\ r[m] \in Seq(Element)
        BY <2>3
      <4>2. i \in 1 .. Len(r[k]) /\ j \in 1 .. Len(r[m])
        BY <4>1
      <4>3. k \in 1 .. Len(q) /\ m \in 1 .. Len(q)
        BY <2>3, BlockFacts
      <4>4. QED BY <4>1, <4>2, <4>3
    <3>1. DOMAIN r[1] = 1 .. Len(q[1]) + 1 /\ r[1][Len(q[1]) + 1] = e
          /\ \A x \in DOMAIN q[1] : r[1][x] = q[1][x]
      BY <2>2, <2>3
    <3>2. CASE m = 1 /\ j = Len(q[1]) + 1
      <4>1. i \in DOMAIN q[k] /\ r[k][i] = q[k][i]
        <5>1. CASE k = 1
          BY <2>2, <2>5, <3>0, <3>1, <3>2, <5>1
        <5>2. CASE k # 1
          BY <2>3, <5>2
        <5>3. QED BY <5>1, <5>2
      <4>2. r[m][j] = e
        BY <3>1, <3>2
      <4>3. QED BY <1>0, <2>3, <4>1, <4>2
    <3>3. CASE ~(m = 1 /\ j = Len(q[1]) + 1)
      <4>1. j \in DOMAIN q[m] /\ r[m][j] = q[m][j]
        <5>1. CASE m = 1
          <6>1. j \in 1 .. Len(q[1]) + 1 /\ j # Len(q[1]) + 1
            BY <3>1, <3>3, <5>1
          <6>2. j \in 1 .. Len(q[1])
            BY <2>2, <6>1
          <6>3. QED BY <2>2, <3>1, <5>1, <6>2
        <5>2. CASE m # 1
          BY <2>3, <5>2
        <5>3. QED BY <5>1, <5>2
      <4>2. i \in DOMAIN q[k] /\ r[k][i] = q[k][i]
        <5>1. CASE k # 1
          BY <2>3, <5>1
        <5>2. CASE k = 1
          <6>1. m = 1 /\ i < j
            BY <2>5, <3>0, <5>2
          <6>2. j \in 1 .. Len(q[1]) /\ i \in 1 .. Len(q[1])
            <7>1. j \in 1 .. Len(q[1])
              BY <2>2, <4>1, <6>1
            <7>2. i \in 1 .. Len(q[1]) + 1
              BY <3>1, <5>2
            <7>3. QED BY <2>2, <6>1, <7>1, <7>2
          <6>3. QED BY <2>2, <3>1, <5>2, <6>2
        <5>3. QED BY <5>1, <5>2
      <4>3. QED BY <2>3, <2>5, <4>1, <4>2 DEF Fine, Ordered
    <3>4. QED BY <3>2, <3>3
  <2>6. Fine(r)
    BY <2>3, <2>4, <2>5 DEF Fine, Ordered
  <2>7. ASSUME NEW x PROVE x \in Contents(r) <=> x \in Contents(q) \cup {e}
    <3>1. ASSUME x \in Contents(r) PROVE x \in Contents(q) \cup {e}
      <4>1. PICK k \in DOMAIN r : \E i \in DOMAIN r[k] : x = r[k][i]
        BY <3>1, ContentsAre
      <4>2. CASE k = 1
        <5>1. PICK i \in DOMAIN b : x = b[i]
          BY <2>3, <4>1, <4>2
        <5>2. i \in DOMAIN q[1] \/ i = Len(q[1]) + 1
          BY <2>2
        <5>3. QED BY <2>2, <2>3, <5>1, <5>2, ContentsAre
      <4>3. CASE k # 1
        BY <2>3, <4>1, <4>3, ContentsAre
      <4>4. QED BY <4>2, <4>3
    <3>2. ASSUME x \in Contents(q) PROVE x \in Contents(r)
      <4>1. PICK k \in DOMAIN q : \E i \in DOMAIN q[k] : x = q[k][i]
        BY <3>2, ContentsAre
      <4>2. \E i \in DOMAIN r[k] : x = r[k][i]
        <5>1. CASE k = 1
          <6>1. PICK i \in DOMAIN q[1] : x = q[1][i]
            BY <4>1, <5>1
          <6>2. i \in 1 .. Len(q[1]) + 1
            BY <2>2, <6>1
          <6>3. i \in DOMAIN r[1] /\ r[1][i] = q[1][i]
            BY <2>2, <2>3, <6>1, <6>2
          <6>4. QED BY <5>1, <6>1, <6>3
        <5>2. CASE k # 1
          BY <2>3, <4>1, <5>2
        <5>3. QED BY <5>1, <5>2
      <4>3. QED BY <2>3, <4>2, ContentsAre
    <3>3. e \in Contents(r)
      <4>1. 1 \in DOMAIN r /\ Len(q[1]) + 1 \in DOMAIN r[1] /\ e = r[1][Len(q[1]) + 1]
        BY <2>2, <2>3
      <4>2. QED BY <4>1, ContentsAre
    <3>4. QED BY <3>1, <3>2, <3>3
  <2>8. Contents(r) = Contents(q) \cup {e}
    BY <2>7
  <2>9. QED BY <2>6, <2>8
<1> HIDE DEF r
<1>3. QED BY <1>1, <1>2

LEMMA PoppedIsFine ==
  ASSUME NEW q, Fine(q), NEW d
  PROVE  /\ Fine(Popped(q, d))
         /\ Holding(q, d) = {} =>
               /\ Contents(Popped(q, d)) = Contents(q)
               /\ \A x \in Contents(q) : ~Matches(x, d)
         /\ Holding(q, d) # {} =>
               /\ Contents(Popped(q, d)) = Contents(q) \ {Found(q, d)}
               /\ Found(q, d) \in Contents(q) /\ Matches(Found(q, d), d)
               /\ \A x \in Contents(q) : Matches(x, d) => x.id <= Found(q, d).id
<1>1. CASE Holding(q, d) = {}
  <2>1. Popped(q, d) = Compacted(q, Len(q))
    BY <1>1 DEF Popped
  <2>2. ASSUME NEW x \in Contents(q) PROVE ~Matches(x, d)
    <3>1. PICK k \in DOMAIN q : \E i \in DOMAIN q[k] : x = q[k][i]
      BY ContentsAre
    <3>2. Positions(q[k], d) = {}
      BY <1>1 DEF Holding
    <3>3. QED BY <3>1, <3>2 DEF Positions
  <2>3. QED BY <1>1, <2>1, <2>2, BlockFacts, CompactedIsFine
<1>2. CASE Holding(q, d) # {}
  <2> DEFINE k == BlockWith(q, d)
             n == NewestIn(q[k], d)
             c == Without(q[k], {n})
             r == [q EXCEPT ![k] = c]
             e == Found(q, d)
  <2>1. Popped(q, d) = Compacted(r, k) /\ e = q[k][n]
    BY <1>2 DEF Popped, Found
  <2>2. /\ k \in DOMAIN q /\ q[k] \in Seq(Element)
        /\ n \in DOMAIN q[k] /\ Matches(q[k][n], d)
        /\ \A j \in Positions(q[k], d) : j <= n
        /\ \A m \in DOMAIN q : m < k => Positions(q[m], d) = {}
    BY <1>2, FirstHolding, BlockFacts, NewestIsNewest
  <2> HIDE DEF k, n, e
  <2>3. /\ c \in Seq(Element) /\ Len(c) <= Len(q[k]) /\ Part(c, q[k])
        /\ \A x : (\E i \in DOMAIN c : x = c[i]) <=> (\E i \in DOMAIN q[k] \ {n} : x = q[k][i])
    <3> DEFINE b == q[k]
               out == {n}
    <3>1. b \in Seq(Element)
      BY <2>2
    <3> HIDE DEF b, out
    <3>2. /\ Without(b, out) \in Seq(Element) /\ Len(Without(b, out)) <= Len(b)
          /\ Part(Without(b, out), b)
          /\ Values(Without(b, out), DOMAIN Without(b, out)) = Values(b, DOMAIN b \ out)
      BY <3>1, WithoutIsPart
    <3>3. c = Without(b, out)
      BY DEF b, out
    <3> HIDE DEF c
    <3>4. \A x : x \in Values(c, DOMAIN c) <=> x \in Values(q[k], DOMAIN q[k] \ {n})
      BY <3>2, <3>3 DEF b, out
    <3>5. \A x : (\E i \in DOMAIN c : x = c[i]) <=> (\E i \in DOMAIN q[k] \ {n} : x = q[k][i])
      BY <3>4 DEF Values
    <3>6. QED BY <3>2, <3>3, <3>5 DEF b, out
  <2> HIDE DEF c
  <2>4. /\ r \in Seq(Seq(Element)) /\ Len(r) = Len(q) /\ DOMAIN r = DOMAIN q
        /\ r[k] = c /\ \A m \in DOMAIN q : m # k => r[m] = q[m]
    <3> DEFINE B == Seq(Element)
    <3>1. c \in B /\ q \in Seq(B) /\ k \in DOMAIN q
      BY <2>2, <2>3, BlockFacts
    <3> HIDE DEF B
    <3>2. /\ r \in Seq(B) /\ Len(r) = Len(q) /\ DOMAIN r = DOMAIN q
          /\ r[k] = c /\ \A m \in DOMAIN q : m # k => r[m] = q[m]
      BY <3>1, Replaced
    <3>3. QED BY <3>2 DEF B
  <2> HIDE DEF r
  <2>5. Fine(r)
    <3>1. ASSUME NEW m \in DOMAIN q PROVE Part(r[m], q[m]) /\ Len(r[m]) <= Len(q[m])
      <4>1. CASE m = k
        BY <2>3, <2>4, <4>1
      <4>2. CASE m # k
        <5>1. r[m] = q[m] /\ q[m] \in Seq(Element) /\ Len(q[m]) \in Nat
          BY <2>4, <4>2, BlockFacts
        <5>2. QED BY <5>1, PartOfItself
      <4>3. QED BY <4>1, <4>2
    <3>2. QED BY <2>4, <3>1, ThinnedIsFine
  <2>6. Fine(Popped(q, d)) /\ Contents(Popped(q, d)) = Contents(r)
    BY <2>1, <2>2, <2>4, <2>5, CompactedIsFine
  <2>7. e \in Contents(q) /\ Matches(e, d)
    BY <2>1, <2>2, ContentsAre
  <2>8. ASSUME NEW m \in DOMAIN q, NEW i \in DOMAIN q[m], q[m][i] = e
        PROVE  m = k /\ i = n
    <3>1. k \in Nat /\ m \in Nat /\ i \in Nat /\ n \in Nat
      BY <2>2, BlockFacts
    <3>2. q[m][i].id \in Int
      <4>1. q[m] \in Seq(Element)
        BY BlockFacts
      <4>2. q[m][i] \in Element
        BY <4>1
      <4>3. QED BY <4>2 DEF Element
    <3>3. m < k \/ (k = m /\ n < i) => q[k][n].id < q[m][i].id
      BY <2>2 DEF Fine, Ordered
    <3>4. k < m \/ (k = m /\ i < n) => q[m][i].id < q[k][n].id
      BY <2>2 DEF Fine, Ordered
    <3>5. q[k][n] = q[m][i]
      BY <2>1, <2>8
    <3>6. ~(m < k \/ (k = m /\ n < i)) /\ ~(k < m \/ (k = m /\ i < n))
      BY <3>2, <3>3, <3>4, <3>5
    <3>7. QED BY <3>1, <3>6
  <2>9. Contents(r) = Contents(q) \ {e}
    <3>1. ASSUME NEW x \in Contents(r) PROVE x \in Contents(q) /\ x # e
      <4>0. \E m \in DOMAIN r : \E i \in DOMAIN r[m] : x = r[m][i]
        BY <3>1, ContentsAre
      <4>1. PICK m \in DOMAIN q : \E i \in DOMAIN r[m] : x = r[m][i]
        BY <2>4, <4>0
      <4>2. CASE m = k
        <5>1. PICK i \in DOMAIN q[k] \ {n} : x = q[k][i]
          BY <2>3, <2>4, <4>1, <4>2
        <5>2. QED BY <2>2, <2>8, <5>1, ContentsAre
      <4>3. CASE m # k
        <5>1. PICK i \in DOMAIN q[m] : x = q[m][i]
          BY <2>4, <4>1, <4>3
        <5>2. QED BY <2>8, <4>3, <5>1, ContentsAre
      <4>4. QED BY <4>2, <4>3
    <3>2. ASSUME NEW x \in Contents(q), x # e PROVE x \in Contents(r)
      <4>1. PICK m \in DOMAIN q : \E i \in DOMAIN q[m] : x = q[m][i]
        BY ContentsAre
      <4>2. CASE m = k
        <5>1. \E i \in DOMAIN q[k] \ {n} : x = q[k][i]
          BY <2>1, <3>2, <4>1, <4>2
        <5>2. \E j \in DOMAIN r[k] : x = r[k][j]
          BY <2>3, <2>4, <5>1
        <5>3. QED BY <2>2, <2>4, <5>2, ContentsAre
      <4>3. CASE m # k
        BY <2>4, <4>1, <4>3, ContentsAre
      <4>4. QED BY <4>2, <4>3
    <3>3. QED BY <3>1, <3>2
  <2>10. ASSUME NEW x \in Contents(q), Matches(x, d) PROVE x.id <= e.id
    <3>0. PICK m \in DOMAIN q : \E i \in DOMAIN q[m] : x = q[m][i]
      BY ContentsAre
    <3>1. PICK i \in DOMAIN q[m] : x = q[m][i]
      BY <3>0
    <3>2. i \in Positions(q[m], d)
      BY <2>10, <3>1 DEF Positions
    <3>3. k \in Nat /\ m \in Nat /\ i \in Nat /\ n \in Nat
      BY <2>2, BlockFacts
    <3>4. ~(m < k)
      BY <2>2, <3>2
    <3>5. CASE m = k /\ i = n
      <4>1. x = e
        BY <2>1, <3>1, <3>5
      <4>2. e.id \in Int
        <5>1. q[k] \in Seq(Element) /\ q[k][n] \in Element
          BY <2>2
        <5>2. QED BY <2>1, <5>1 DEF Element
      <4>3. QED BY <4>1, <4>2
    <3>6. CASE ~(m = k /\ i = n)
      <4>1. k < m \/ (k = m /\ i < n)
        BY <2>2, <3>2, <3>3, <3>4, <3>6
      <4>2. x.id < e.id
        BY <2>1, <2>2, <3>1, <4>1 DEF Fine, Ordered
      <4>3. x.id \in Int /\ e.id \in Int
        <5>1. q[k][n] \in Element
          BY <2>2
        <5>2. q[m] \in Seq(Element)
          BY BlockFacts
        <5>3. q[m][i] \in Element
          BY <5>2
        <5>4. QED BY <2>1, <3>1, <5>1, <5>3 DEF Element
      <4>4. QED BY <4>2, <4>3
    <3>7. QED BY <3>5, <3>6
  <2>11. QED BY <1>2, <2>6, <2>7, <2>9, <2>10 DEF e
<1>3. QED BY <1>1, <1>2

LEMMA RemovedIsFine ==
  ASSUME NEW q, Fine(q), NEW d
  PROVE  /\ Fine(Removed(q, d))
         /\ Contents(Removed(q, d)) = {x \in Contents(q) : ~Matches(x, d)}
<1> DEFINE r == [k \in DOMAIN q |-> Without(q[k], Positions(q[k], d))]
<1>0. /\ q \in Seq(Seq(Element)) /\ Len(q) \in Nat \ {0} /\ DOMAIN q = 1 .. Len(q)
      /\ Len(q) \in DOMAIN q /\ \A k \in DOMAIN q : q[k] \in Seq(Element)
  BY BlockFacts
<1>1. ASSUME NEW k \in DOMAIN q
      PROVE  /\ r[k] \in Seq(Element) /\ Len(r[k]) <= Len(q[k]) /\ Part(r[k], q[k])
             /\ \A x : (\E i \in DOMAIN r[k] : x = r[k][i])
                     <=> (\E i \in DOMAIN q[k] \ Positions(q[k], d) : x = q[k][i])
  <2> DEFINE b == q[k]
             out == Positions(b, d)
             c == Without(b, out)
  <2>1. b \in Seq(Element) /\ r[k] = c
    BY <1>0
  <2> HIDE DEF b, out, r
  <2>2. /\ c \in Seq(Element) /\ Len(c) <= Len(b) /\ Part(c, b)
        /\ Values(c, DOMAIN c) = Values(b, DOMAIN b \ out)
    BY <2>1, WithoutIsPart
  <2> HIDE DEF c
  <2>3. \A x : x \in Values(c, DOMAIN c) <=> x \in Values(b, DOMAIN b \ out)
    BY <2>2
  <2>4. \A x : (\E i \in DOMAIN c : x = c[i]) <=> (\E i \in DOMAIN b \ out : x = b[i])
    BY <2>3 DEF Values
  <2>5. QED BY <2>1, <2>2, <2>4 DEF b, out
<1>2. r \in Seq(Seq(Element)) /\ Len(r) = Len(q) /\ DOMAIN r = DOMAIN q
  BY <1>0, <1>1
<1>3. Removed(q, d) = Compacted(r, Len(q))
  BY DEF Removed
<1> HIDE DEF r
<1>4. Fine(r)
  BY <1>1, <1>2, ThinnedIsFine
<1>5. Fine(Removed(q, d)) /\ Contents(Removed(q, d)) = Contents(r)
  BY <1>0, <1>2, <1>3, <1>4, CompactedIsFine
<1>6. ASSUME NEW x
      PROVE  x \in Contents(r) <=> x \in Contents(q) /\ ~Matches(x, d)
  <2>1. ASSUME x \in Contents(r) PROVE x \in Contents(q) /\ ~Matches(x, d)
    <3>0. \E k \in DOMAIN r : \E i \in DOMAIN r[k] : x = r[k][i]
      BY <2>1, ContentsAre
    <3>1. PICK k \in DOMAIN q : \E i \in DOMAIN r[k] : x = r[k][i]
      BY <1>2, <3>0
    <3>2. PICK i \in DOMAIN q[k] \ Positions(q[k], d) : x = q[k][i]
      BY <1>1, <3>1
    <3>3. QED BY <3>2, ContentsAre DEF Positions
  <2>2. ASSUME x \in Contents(q), ~Matches(x, d) PROVE x \in Contents(r)
    <3>0. PICK k \in DOMAIN q : \E i \in DOMAIN q[k] : x = q[k][i]
      BY <2>2, ContentsAre
    <3>1. PICK i \in DOMAIN q[k] : x = q[k][i]
      BY <3>0
    <3>2. i \in DOMAIN q[k] \ Positions(q[k], d)
      BY <2>2, <3>1 DEF Positions
    <3>3. \E j \in DOMAIN r[k] : x = r[k][j]
      BY <1>1, <3>1, <3>2
    <3>4. QED BY <1>2, <3>3, ContentsAre
  <2>3. QED BY <2>1, <2>2
<1>7. Contents(r) = {x \in Contents(q) : ~Matches(x, d)}
  BY <1>6
<1>8. QED BY <1>5, <1>7

-----------------------------------------------------------------------------
(***************************************************************************)
(* The inductive invariant.                                                *)
(***************************************************************************)
AllFine == \A q \in Queue : Fine(queue[q])

\* Each registration is in one of three places, and in one queue at most.
Accounted ==
    /\ done \cup dropped \subseteq 1 .. registered
    /\ done \cap dropped = {}
    /\ \A q \in Queue : \A e \in Elements(q) :
          e.id \in 1 .. registered /\ e.id \notin done /\ e.id \notin dropped
    /\ \A p, q \in Queue : \A e \in Elements(p), f \in Elements(q) : e.id = f.id => p = q
    /\ \A n \in 1 .. registered :
          n \in done \/ n \in dropped \/ \E q \in Queue : \E e \in Elements(q) : e.id = n

\* What a call remembers has been registered already.
MarksArePast == \A t \in Tid : \A i \in DOMAIN calls[t] : calls[t][i].mark <= registered

ExitInv ==
    /\ ExitTypeOK
    /\ AllFine
    /\ Accounted
    /\ MarksArePast
    /\ FinalizedAreGone

-----------------------------------------------------------------------------
(***************************************************************************)
(* What the actions do to the queues.                                      *)
(***************************************************************************)
LEMMA ElementsAre ==
  ASSUME AllFine, NEW q \in Queue, NEW e \in Elements(q)
  PROVE  e \in Element /\ e.id \in Int
<1>1. Fine(queue[q])
  BY DEF AllFine
<1>2. PICK k \in DOMAIN queue[q] : \E i \in DOMAIN queue[q][k] : e = queue[q][k][i]
  BY ContentsAre DEF Elements
<1>3. queue[q][k] \in Seq(Element)
  BY <1>1, BlockFacts
<1>4. e \in Element
  BY <1>2, <1>3
<1>5. QED BY <1>4 DEF Element

LEMMA UniqueIds ==
  ASSUME AllFine, NEW q \in Queue, NEW e \in Elements(q), NEW f \in Elements(q), e.id = f.id
  PROVE  e = f
<1> DEFINE s == queue[q]
<1>1. Fine(s)
  BY DEF AllFine
<1>2. PICK k \in DOMAIN s : \E i \in DOMAIN s[k] : e = s[k][i]
  BY ContentsAre DEF Elements
<1>3. PICK m \in DOMAIN s : \E j \in DOMAIN s[m] : f = s[m][j]
  BY ContentsAre DEF Elements
<1>4. PICK i \in DOMAIN s[k] : e = s[k][i]
  BY <1>2
<1>5. PICK j \in DOMAIN s[m] : f = s[m][j]
  BY <1>3
<1>6. e.id \in Int /\ f.id \in Int /\ ~(e.id < f.id) /\ ~(f.id < e.id)
  BY ElementsAre
<1>7. k \in Nat /\ m \in Nat /\ i \in Nat /\ j \in Nat
  BY <1>1, BlockFacts
<1> HIDE DEF s
<1>8. ~(m < k \/ (k = m /\ i < j)) /\ ~(k < m \/ (m = k /\ j < i))
  BY <1>1, <1>4, <1>5, <1>6 DEF Fine, Ordered
<1>9. k = m /\ i = j
  BY <1>7, <1>8
<1>10. QED BY <1>4, <1>5, <1>9

LEMMA OneQueueChanges ==
  ASSUME ExitTypeOK, AllFine, NEW q \in Queue, NEW r, Fine(r),
         queue' = [queue EXCEPT ![q] = r]
  PROVE  /\ AllFine' /\ Elements(q)' = Contents(r)
         /\ \A p \in Queue \ {q} : Elements(p)' = Elements(p)
<1>1. DOMAIN queue = Queue
  BY DEF ExitTypeOK
<1>2. queue'[q] = r /\ \A p \in Queue \ {q} : queue'[p] = queue[p]
  BY <1>1
<1>3. QED BY <1>2 DEF AllFine, Elements

LEMMA QueuesStay ==
  ASSUME AllFine, UNCHANGED queue
  PROVE  AllFine' /\ \A p \in Queue : Elements(p)' = Elements(p)
BY DEF AllFine, Elements

LEMMA RegisterEffect ==
  ASSUME ExitInv, NEW t \in Tid, NEW q \in Queue, NEW d \in Handle, RegisterDtor(t, q, d)
  PROVE  /\ AllFine'
         /\ \E e \in Element :
               /\ e.id = registered + 1
               /\ \A p \in Queue : \A x \in Elements(p) : x.id < e.id
               /\ Elements(q)' = Elements(q) \cup {e}
               /\ \A p \in Queue \ {q} : Elements(p)' = Elements(p)
<1> DEFINE e == [id |-> registered + 1, dso |-> d]
           r == Pushed(queue[q], 1, e)
<1>1. registered \in Nat /\ registered < MaxDtor /\ queue' = [queue EXCEPT ![q] = r] /\ DOMAIN queue = Queue
  BY ExitBounds DEF RegisterDtor, ExitInv, ExitTypeOK
<1>2. e \in Element /\ e.id = registered + 1
  BY <1>1, ExitBounds DEF Element
<1>3. \A p \in Queue : \A x \in Elements(p) : x.id < e.id
  BY <1>1, <1>2 DEF ExitInv, Accounted
<1> HIDE DEF e
<1>4. Fine(queue[q]) /\ \A x \in Contents(queue[q]) : x.id < e.id
  BY <1>3 DEF ExitInv, AllFine, Elements
<1>5. Fine(r) /\ Contents(r) = Elements(q) \cup {e}
  BY <1>2, <1>4, PushedIsFine DEF Elements
<1> HIDE DEF r
<1>6. AllFine' /\ Elements(q)' = Contents(r) /\ \A p \in Queue \ {q} : Elements(p)' = Elements(p)
  BY <1>1, <1>5, OneQueueChanges DEF ExitInv
<1>7. QED BY <1>2, <1>3, <1>5, <1>6

LEMMA TopIsACall ==
  ASSUME ExitTypeOK, NEW t \in Tid, calls[t] # <<>>
  PROVE  /\ calls[t] \in Seq(Call) /\ Top(t) \in Call /\ 1 \in DOMAIN calls[t]
         /\ Tail(calls[t]) \in Seq(Call)
BY DEF ExitTypeOK, Top

LEMMA PopsAQueue ==
  ASSUME ExitTypeOK, NEW t \in Tid, InLoop(t)
  PROVE  /\ calls[t] # <<>> /\ Pops(t) \in Queue
         /\ Top(t).at \in {"thread", "atexit"} => Pops(t) = t
         /\ Top(t).at = "static" => Pops(t) = "exit"
BY DEF InLoop, InCall, Pops, Queue

LEMMA RunEffect ==
  ASSUME ExitInv, NEW t \in Tid, RunDtor(t), NEW q \in Queue, q = Pops(t)
  PROVE  /\ AllFine'
         /\ \E e \in Elements(q) :
               /\ Matches(e, Top(t).dso)
               /\ \A x \in Elements(q) : Matches(x, Top(t).dso) => x.id <= e.id
               /\ Elements(q)' = Elements(q) \ {e}
               /\ \A p \in Queue \ {q} : Elements(p)' = Elements(p)
               /\ done' = done \cup {e.id}
<1> DEFINE d == Top(t).dso
           e == Found(queue[q], d)
           r == Popped(queue[q], d)
<1>1. InLoop(t) /\ Holding(queue[q], d) # {} /\ done' = done \cup {e.id}
      /\ queue' = [queue EXCEPT ![q] = r]
  BY DEF RunDtor
<1>2. Fine(queue[q])
  BY DEF ExitInv, AllFine
<1>3. /\ Fine(r) /\ Contents(r) = Contents(queue[q]) \ {e}
      /\ e \in Contents(queue[q]) /\ Matches(e, d)
      /\ \A x \in Contents(queue[q]) : Matches(x, d) => x.id <= e.id
  BY <1>1, <1>2, PoppedIsFine
<1> HIDE DEF d, r, e
<1>4. AllFine' /\ Elements(q)' = Contents(r) /\ \A p \in Queue \ {q} : Elements(p)' = Elements(p)
  BY <1>1, <1>3, OneQueueChanges DEF ExitInv
<1>5. /\ e \in Elements(q) /\ Matches(e, d)
      /\ \A x \in Elements(q) : Matches(x, d) => x.id <= e.id
      /\ Elements(q)' = Elements(q) \ {e}
  BY <1>3, <1>4 DEF Elements
<1>6. \E x \in Elements(q) :
         /\ Matches(x, d)
         /\ \A y \in Elements(q) : Matches(y, d) => y.id <= x.id
         /\ Elements(q)' = Elements(q) \ {x}
         /\ \A p \in Queue \ {q} : Elements(p)' = Elements(p)
         /\ done' = done \cup {x.id}
  BY <1>1, <1>4, <1>5
<1>7. QED BY <1>4, <1>6 DEF d

LEMMA EndEffect ==
  ASSUME ExitInv, NEW t \in Tid, LoopEnds(t), NEW q \in Queue, q = Pops(t)
  PROVE  /\ AllFine'
         /\ \A p \in Queue : Elements(p)' = Elements(p)
         /\ \A x \in Elements(q) : ~Matches(x, Top(t).dso)
<1> DEFINE d == Top(t).dso
           r == Popped(queue[q], d)
<1>1. InLoop(t) /\ Holding(queue[q], d) = {} /\ queue' = [queue EXCEPT ![q] = r]
  BY DEF LoopEnds
<1>2. Fine(queue[q])
  BY DEF ExitInv, AllFine
<1>3. /\ Fine(r) /\ Contents(r) = Contents(queue[q])
      /\ \A x \in Contents(queue[q]) : ~Matches(x, d)
  BY <1>1, <1>2, PoppedIsFine
<1> HIDE DEF d, r
<1>4. AllFine' /\ Elements(q)' = Contents(r) /\ \A p \in Queue \ {q} : Elements(p)' = Elements(p)
  BY <1>1, <1>3, OneQueueChanges DEF ExitInv
<1>5. (\A p \in Queue : Elements(p)' = Elements(p)) /\ \A x \in Elements(q) : ~Matches(x, d)
  BY <1>3, <1>4 DEF Elements
<1>6. QED BY <1>4, <1>5 DEF d

LEMMA RemoveEffect ==
  ASSUME ExitInv, NEW t \in Tid, RemoveQuick(t)
  PROVE  /\ AllFine'
         /\ Elements("quick")' = {x \in Elements("quick") : ~Matches(x, Top(t).dso)}
         /\ \A p \in Queue \ {"quick"} : Elements(p)' = Elements(p)
         /\ dropped' = dropped \cup {e.id : e \in {x \in Elements("quick") : Matches(x, Top(t).dso)}}
<1> DEFINE d == Top(t).dso
           r == Removed(queue["quick"], d)
<1>1. queue' = [queue EXCEPT !["quick"] = r]
  BY DEF RemoveQuick
<1>2. "quick" \in Queue
  BY DEF Queue
<1>3. Fine(queue["quick"])
  BY <1>2 DEF ExitInv, AllFine
<1>4. Fine(r) /\ Contents(r) = {x \in Contents(queue["quick"]) : ~Matches(x, d)}
  BY <1>3, RemovedIsFine
<1> HIDE DEF d, r
<1>5. /\ AllFine' /\ Elements("quick")' = Contents(r)
      /\ \A p \in Queue \ {"quick"} : Elements(p)' = Elements(p)
  BY <1>1, <1>2, <1>4, OneQueueChanges DEF ExitInv
<1>6. Elements("quick")' = {x \in Elements("quick") : ~Matches(x, d)}
  BY <1>4, <1>5 DEF Elements
<1>7. QED BY <1>5, <1>6 DEF d, RemoveQuick

(***************************************************************************)
(* The parts of the invariant, one by one.  First, what happens to the     *)
(* registrations.                                                          *)
(***************************************************************************)
LEMMA AccountedStays ==
  ASSUME Accounted, \A p \in Queue : Elements(p)' = Elements(p),
         UNCHANGED <<registered, done, dropped>>
  PROVE  Accounted'
<1>1. /\ done' = done /\ dropped' = dropped /\ registered' = registered
  OBVIOUS
<1>2. QED BY <1>1 DEF Accounted

LEMMA AccountedStep ==
  ASSUME ExitInv, [ExitNext]_exitVars
  PROVE  Accounted' /\ AllFine'
<1>1. ASSUME NEW t \in Tid, NEW q \in Queue, NEW d \in Handle, RegisterDtor(t, q, d)
      PROVE  Accounted' /\ AllFine'
  <2>1. PICK e \in Element :
           /\ e.id = registered + 1
           /\ \A p \in Queue : \A x \in Elements(p) : x.id < e.id
           /\ Elements(q)' = Elements(q) \cup {e}
           /\ \A p \in Queue \ {q} : Elements(p)' = Elements(p)
    BY <1>1, RegisterEffect
  <2>2. registered' = registered + 1 /\ done' = done /\ dropped' = dropped /\ registered \in Nat
    BY <1>1, ExitBounds DEF RegisterDtor, ExitInv, ExitTypeOK
  <2>3. \A p \in Queue : \A x \in Elements(p)' : x \in Elements(p) \/ (p = q /\ x = e)
    BY <2>1
  <2>4. \A p \in Queue : \A x \in Elements(p) : x.id \in 1 .. registered
    BY DEF ExitInv, Accounted
  <2>5. /\ done \cup dropped \subseteq 1 .. registered /\ done \cap dropped = {}
        /\ e.id \notin 1 .. registered /\ 1 .. registered' = 1 .. registered \cup {e.id}
    BY <2>1, <2>2 DEF ExitInv, Accounted
  <2>6. \A p \in Queue : \A x \in Elements(p)' :
           x.id \in 1 .. registered' /\ x.id \notin done' /\ x.id \notin dropped'
    BY <2>2, <2>3, <2>5 DEF ExitInv, Accounted
  <2>7. \A p, m \in Queue : \A x \in Elements(p)', y \in Elements(m)' : x.id = y.id => p = m
    BY <2>3, <2>4, <2>5 DEF ExitInv, Accounted
  <2>8. ASSUME NEW n \in 1 .. registered'
        PROVE  n \in done' \/ n \in dropped' \/ \E p \in Queue : \E x \in Elements(p)' : x.id = n
    <3>1. CASE n = e.id
      BY <2>1, <3>1
    <3>2. CASE n \in 1 .. registered
      <4>1. n \in done \/ n \in dropped \/ \E p \in Queue : \E x \in Elements(p) : x.id = n
        BY <3>2 DEF ExitInv, Accounted
      <4>2. \A p \in Queue : Elements(p) \subseteq Elements(p)'
        BY <2>1
      <4>3. QED BY <2>2, <4>1, <4>2
    <3>3. QED BY <2>5, <3>1, <3>2
  <2>9. Accounted'
    BY <2>2, <2>5, <2>6, <2>7, <2>8 DEF Accounted
  <2>10. QED BY <1>1, <2>9, RegisterEffect
<1>2. ASSUME NEW t \in Tid, RunDtor(t)
      PROVE  Accounted' /\ AllFine'
  <2>1. PICK q \in Queue : q = Pops(t)
    BY <1>2, PopsAQueue DEF RunDtor, ExitInv
  <2>2. PICK e \in Elements(q) :
           /\ Elements(q)' = Elements(q) \ {e}
           /\ \A p \in Queue \ {q} : Elements(p)' = Elements(p)
           /\ done' = done \cup {e.id}
    BY <1>2, <2>1, RunEffect
  <2>3. dropped' = dropped /\ registered' = registered
    BY <1>2 DEF RunDtor
  <2>4. \A p \in Queue : \A x \in Elements(p)' : x \in Elements(p) /\ (x.id = e.id => p = q)
    BY <2>1, <2>2 DEF ExitInv, Accounted
  <2>5. \A x \in Elements(q)' : x.id # e.id
    BY <2>1, <2>2, UniqueIds DEF ExitInv
  <2>6. \A p \in Queue : \A x \in Elements(p)' : x \in Elements(p) /\ x.id # e.id
    BY <2>4, <2>5
  <2>7. \A n : (\E p \in Queue : \E x \in Elements(p) : x.id = n)
               => n \in done' \/ \E p \in Queue : \E x \in Elements(p)' : x.id = n
    BY <2>1, <2>2
  <2>8. e.id \in 1 .. registered /\ e.id \notin dropped
    BY <2>1 DEF ExitInv, Accounted
  <2>9. Accounted'
    <3>1. done' \cup dropped' \subseteq 1 .. registered' /\ done' \cap dropped' = {}
      BY <2>2, <2>3, <2>8 DEF ExitInv, Accounted
    <3>2. \A p \in Queue : \A x \in Elements(p)' :
             x.id \in 1 .. registered' /\ x.id \notin done' /\ x.id \notin dropped'
      BY <2>2, <2>3, <2>6 DEF ExitInv, Accounted
    <3>3. \A p, m \in Queue : \A x \in Elements(p)', y \in Elements(m)' : x.id = y.id => p = m
      BY <2>6 DEF ExitInv, Accounted
    <3>4. \A n \in 1 .. registered' :
             n \in done' \/ n \in dropped' \/ \E p \in Queue : \E x \in Elements(p)' : x.id = n
      BY <2>2, <2>3, <2>7 DEF ExitInv, Accounted
    <3>5. QED BY <3>1, <3>2, <3>3, <3>4 DEF Accounted
  <2>10. QED BY <1>2, <2>1, <2>9, RunEffect
<1>3. ASSUME NEW t \in Tid, LoopEnds(t)
      PROVE  Accounted' /\ AllFine'
  <2>1. UNCHANGED <<registered, done, dropped>>
    BY <1>3 DEF LoopEnds
  <2>2. PICK q \in Queue : q = Pops(t)
    BY <1>3, PopsAQueue DEF LoopEnds, ExitInv
  <2>3. QED BY <1>3, <2>1, <2>2, EndEffect, AccountedStays DEF ExitInv
<1>4. ASSUME NEW t \in Tid, RemoveQuick(t)
      PROVE  Accounted' /\ AllFine'
  <2> DEFINE out == {x \in Elements("quick") : Matches(x, Top(t).dso)}
  <2>1. /\ Elements("quick")' = Elements("quick") \ out /\ out \subseteq Elements("quick")
        /\ \A p \in Queue \ {"quick"} : Elements(p)' = Elements(p)
        /\ dropped' = dropped \cup {e.id : e \in out} /\ "quick" \in Queue
    BY <1>4, RemoveEffect DEF Queue
  <2> HIDE DEF out
  <2>2. done' = done /\ registered' = registered
    BY <1>4 DEF RemoveQuick
  <2>3. \A x \in Elements("quick"), y \in Elements("quick") : x.id = y.id => x = y
    BY <2>1, UniqueIds DEF ExitInv
  <2>4. \A p \in Queue : \A x \in Elements(p)' : x \in Elements(p) /\ \A y \in out : x.id # y.id
    <3>1. SUFFICES ASSUME NEW p \in Queue, NEW x \in Elements(p)', NEW y \in out
                   PROVE  x \in Elements(p) /\ x.id # y.id
      BY <2>1
    <3>2. CASE p = "quick"
      BY <2>1, <2>3, <3>2
    <3>3. CASE p # "quick"
      <4>1. x \in Elements(p) /\ y \in Elements("quick")
        BY <2>1, <3>3
      <4>2. QED BY <2>1, <3>3, <4>1 DEF ExitInv, Accounted
    <3>4. QED BY <3>2, <3>3
  <2>5. \A n : (\E p \in Queue : \E x \in Elements(p) : x.id = n)
               => n \in dropped' \/ \E p \in Queue : \E x \in Elements(p)' : x.id = n
    BY <2>1
  <2>6. \A y \in out : y.id \in 1 .. registered /\ y.id \notin done
    BY <2>1 DEF ExitInv, Accounted
  <2>7. Accounted'
    <3>1. done' \cup dropped' \subseteq 1 .. registered' /\ done' \cap dropped' = {}
      BY <2>1, <2>2, <2>6 DEF ExitInv, Accounted
    <3>2. \A p \in Queue : \A x \in Elements(p)' :
             x.id \in 1 .. registered' /\ x.id \notin done' /\ x.id \notin dropped'
      BY <2>1, <2>2, <2>4 DEF ExitInv, Accounted
    <3>3. \A p, m \in Queue : \A x \in Elements(p)', y \in Elements(m)' : x.id = y.id => p = m
      BY <2>4 DEF ExitInv, Accounted
    <3>4. \A n \in 1 .. registered' :
             n \in done' \/ n \in dropped' \/ \E p \in Queue : \E x \in Elements(p)' : x.id = n
      BY <2>1, <2>2, <2>5 DEF ExitInv, Accounted
    <3>5. QED BY <3>1, <3>2, <3>3, <3>4 DEF Accounted
  <2>8. QED BY <1>4, <2>7, RemoveEffect
<1>5. ASSUME UNCHANGED <<queue, registered, done, dropped>>
      PROVE  Accounted' /\ AllFine'
  BY <1>5, QueuesStay, AccountedStays DEF ExitInv
<1>6. ASSUME NEW t \in Tid, LibraryStep(t)
      PROVE  Accounted' /\ AllFine'
  <2>1. DestroyValue(t) \/ ThreadEnds(t) => UNCHANGED <<queue, registered, done, dropped>>
    BY DEF DestroyValue, ThreadEnds
  <2>2. QED BY <1>2, <1>3, <1>4, <1>5, <1>6, <2>1 DEF LibraryStep
<1>7. ASSUME NEW t \in Tid, NEW k \in Key, SetValue(t, k)
      PROVE  Accounted' /\ AllFine'
  BY <1>5, <1>7 DEF SetValue
<1>8. ASSUME NEW t \in Tid, NEW at, NEW d, Enter(t, at, d)
      PROVE  Accounted' /\ AllFine'
  BY <1>5, <1>8 DEF Enter
<1>9. ASSUME NEW t \in Tid, DtorReturns(t)
      PROVE  Accounted' /\ AllFine'
  BY <1>5, <1>9 DEF DtorReturns
<1>10. ASSUME UNCHANGED exitVars
       PROVE  Accounted' /\ AllFine'
  BY <1>5, <1>10 DEF exitVars
<1>11. \A t \in Tid : {"exit", "quick", t} \subseteq Queue
  BY DEF Queue
<1>12. QED BY <1>1, <1>6, <1>7, <1>8, <1>9, <1>10, <1>11
              DEF ExitNext, Finalize, QuickExit, EndThread

(***************************************************************************)
(* Then, what happens to the calls in progress.                            *)
(***************************************************************************)
LEMMA TopIsReplaced ==
  ASSUME ExitTypeOK, NEW t \in Tid, calls[t] # <<>>, NEW f \in Call, Continue(t, f)
  PROVE  /\ calls' \in [Tid -> Seq(Call)]
         /\ \A u \in Tid : \A i \in DOMAIN calls'[u] :
               (u = t /\ calls'[u][i] = f) \/ \E j \in DOMAIN calls[u] : calls'[u][i] = calls[u][j]
<1> DEFINE s == Tail(calls[t])
           r == <<f>> \o s
<1>1. calls' = [calls EXCEPT ![t] = r] /\ calls \in [Tid -> Seq(Call)]
  BY DEF Continue, ExitTypeOK
<1>2. /\ s \in Seq(Call) /\ Len(s) \in Nat
      /\ \A i \in 1 .. Len(s) : i + 1 \in DOMAIN calls[t] /\ s[i] = calls[t][i + 1]
  BY <1>1
<1> HIDE DEF s
<1>3. r \in Seq(Call) /\ DOMAIN r = 1 .. Len(s) + 1 /\ r[1] = f /\ \A k \in 1 .. Len(s) : r[k + 1] = s[k]
  BY <1>2, Prepended
<1> HIDE DEF r
<1>4. ASSUME NEW i \in DOMAIN r
      PROVE  r[i] = f \/ \E j \in DOMAIN calls[t] : r[i] = calls[t][j]
  <2>1. i = 1 \/ (i - 1 \in 1 .. Len(s) /\ (i - 1) + 1 = i)
    BY <1>2, <1>3
  <2>2. QED BY <1>2, <1>3, <2>1
<1>5. calls' \in [Tid -> Seq(Call)] /\ calls'[t] = r /\ \A u \in Tid : u # t => calls'[u] = calls[u]
  BY <1>1, <1>3
<1>6. QED BY <1>4, <1>5

LEMMA TopIsAdded ==
  ASSUME ExitTypeOK, NEW t \in Tid, NEW f \in Call, calls' = [calls EXCEPT ![t] = <<f>> \o @]
  PROVE  /\ calls' \in [Tid -> Seq(Call)]
         /\ \A u \in Tid : \A i \in DOMAIN calls'[u] :
               (u = t /\ calls'[u][i] = f) \/ \E j \in DOMAIN calls[u] : calls'[u][i] = calls[u][j]
<1> DEFINE s == calls[t]
           r == <<f>> \o s
<1>1. calls' = [calls EXCEPT ![t] = r] /\ calls \in [Tid -> Seq(Call)]
  BY DEF ExitTypeOK
<1>2. s \in Seq(Call) /\ Len(s) \in Nat /\ DOMAIN s = 1 .. Len(s)
  BY <1>1
<1>3. r \in Seq(Call) /\ DOMAIN r = 1 .. Len(s) + 1 /\ r[1] = f /\ \A k \in 1 .. Len(s) : r[k + 1] = s[k]
  <2> HIDE DEF s
  <2>1. QED BY <1>2, Prepended
<1> HIDE DEF r
<1>4. ASSUME NEW i \in DOMAIN r
      PROVE  r[i] = f \/ \E j \in DOMAIN s : r[i] = s[j]
  <2> HIDE DEF s
  <2>1. i = 1 \/ (i - 1 \in 1 .. Len(s) /\ (i - 1) + 1 = i)
    BY <1>2, <1>3
  <2>2. QED BY <1>2, <1>3, <2>1
<1>5. calls' \in [Tid -> Seq(Call)] /\ calls'[t] = r /\ \A u \in Tid : u # t => calls'[u] = calls[u]
  BY <1>1, <1>3
<1>6. QED BY <1>4, <1>5

LEMMA TopIsTaken ==
  ASSUME ExitTypeOK, NEW t \in Tid, calls[t] # <<>>,
         NEW r, r \in {<<>>, Tail(calls[t])}, calls' = [calls EXCEPT ![t] = r]
  PROVE  /\ calls' \in [Tid -> Seq(Call)]
         /\ \A u \in Tid : \A i \in DOMAIN calls'[u] : \E j \in DOMAIN calls[u] : calls'[u][i] = calls[u][j]
<1>1. calls \in [Tid -> Seq(Call)]
  BY DEF ExitTypeOK
<1>2. r \in Seq(Call) /\ \A i \in DOMAIN r : i + 1 \in DOMAIN calls[t] /\ r[i] = calls[t][i + 1]
  <2>1. calls[t] \in Seq(Call)
    BY <1>1
  <2>2. CASE r = <<>>
    BY <2>2
  <2>3. CASE r = Tail(calls[t])
    BY <2>1, <2>3
  <2>4. QED BY <2>2, <2>3
<1>3. calls' \in [Tid -> Seq(Call)] /\ calls'[t] = r /\ \A u \in Tid : u # t => calls'[u] = calls[u]
  BY <1>1, <1>2
<1>4. QED BY <1>2, <1>3

(***************************************************************************)
(* A call after a step is one from before it, or has just begun, or one    *)
(* that has found nothing left of its thread, or of the process.           *)
(***************************************************************************)
SameCall(f, c) == f.dso = c.dso /\ f.mark = c.mark

NoneLeft(q, d) == \A e \in Elements(q) : ~Matches(e, d)

Follows(u, f) ==
    \/ f.at \notin {"static", "remove"} /\ f.mark <= registered
    \/ \E j \in DOMAIN calls[u] : SameCall(f, calls[u][j]) /\ f.at = calls[u][j].at
    \/ f.at = "static" /\ f.mark <= registered /\ NoneLeft(u, f.dso)
    \/ /\ f.at = "remove" /\ NoneLeft("exit", f.dso)
       /\ \E j \in DOMAIN calls[u] : SameCall(f, calls[u][j]) /\ calls[u][j].at = "static"

GoneFor(q, f) == \A e \in Elements(q) : Matches(e, f.dso) => e.id > f.mark

LEMMA FinalizedMeans ==
  FinalizedAreGone <=>
    \A t \in Tid : \A i \in DOMAIN calls[t] :
      /\ calls[t][i].at \in {"static", "remove"} => GoneFor(t, calls[t][i])
      /\ calls[t][i].at = "remove" => GoneFor("exit", calls[t][i])
BY DEF FinalizedAreGone, GoneFor

LEMMA CallsStep ==
  ASSUME ExitInv, calls' \in [Tid -> Seq(Call)], registered' \in Nat, registered' >= registered,
         \A q \in Queue : \A e \in Elements(q)' : e \in Elements(q) \/ e.id = registered + 1,
         \A u \in Tid : \A i \in DOMAIN calls'[u] : Follows(u, calls'[u][i])
  PROVE  MarksArePast' /\ FinalizedAreGone'
<1>1. registered \in Nat /\ Tid \subseteq Queue /\ "exit" \in Queue
  BY ExitBounds DEF ExitInv, ExitTypeOK, Queue
<1>2. ASSUME NEW u \in Tid, NEW i \in DOMAIN calls'[u], NEW f, f = calls'[u][i]
      PROVE  /\ f.mark <= registered /\ f.mark \in Nat
             /\ f.at \in {"static", "remove"} => \A e \in Elements(u)' : Matches(e, f.dso) => e.id > f.mark
             /\ f.at = "remove" => \A e \in Elements("exit")' : Matches(e, f.dso) => e.id > f.mark
  <2>1. f.mark \in Nat
    <3>1. calls'[u] \in Seq(Call)
      OBVIOUS
    <3>2. f \in Call
      BY <1>2, <3>1
    <3>3. QED BY <3>2, ExitBounds DEF Call
  <2>2. Follows(u, f)
    BY <1>2
  <2>3. \A j \in DOMAIN calls[u] : calls[u][j].mark <= registered
    BY DEF ExitInv, MarksArePast
  <2>4. f.mark <= registered
    BY <2>2, <2>3 DEF Follows, SameCall
  <2>5. f.at \in {"static", "remove"} => \A e \in Elements(u) : Matches(e, f.dso) => e.id > f.mark
    BY <2>2, FinalizedMeans DEF ExitInv, Follows, SameCall, GoneFor, NoneLeft
  <2>6. f.at = "remove" => \A e \in Elements("exit") : Matches(e, f.dso) => e.id > f.mark
    BY <2>2, FinalizedMeans DEF ExitInv, Follows, SameCall, GoneFor, NoneLeft
  <2>7. \A q \in Queue : \A e \in Elements(q)' : e \in Elements(q) \/ e.id > f.mark
    BY <1>1, <2>1, <2>4
  <2>8. QED BY <1>1, <2>1, <2>4, <2>5, <2>6, <2>7
<1>3. MarksArePast'
  BY <1>1, <1>2 DEF MarksArePast
<1>4. FinalizedAreGone'
  BY <1>2 DEF FinalizedAreGone
<1>5. QED BY <1>3, <1>4

\* A call that was in progress before follows itself.
LEMMA KeptCallsFollow ==
  ASSUME NEW u, NEW j \in DOMAIN calls[u]
  PROVE  Follows(u, calls[u][j])
BY DEF Follows, SameCall

LEMMA TopChanges ==
  ASSUME ExitTypeOK, NEW t \in Tid, calls[t] # <<>>, NEW f \in Call, Continue(t, f), Follows(t, f)
  PROVE  /\ calls' \in [Tid -> Seq(Call)]
         /\ \A u \in Tid : \A i \in DOMAIN calls'[u] : Follows(u, calls'[u][i])
<1>1. /\ calls' \in [Tid -> Seq(Call)]
      /\ \A u \in Tid : \A i \in DOMAIN calls'[u] :
            (u = t /\ calls'[u][i] = f) \/ \E j \in DOMAIN calls[u] : calls'[u][i] = calls[u][j]
  BY TopIsReplaced
<1>2. QED BY <1>1, KeptCallsFollow

LEMMA CallsStay ==
  ASSUME ExitTypeOK, UNCHANGED calls
  PROVE  /\ calls' \in [Tid -> Seq(Call)]
         /\ \A u \in Tid : \A i \in DOMAIN calls'[u] : Follows(u, calls'[u][i])
BY DEF ExitTypeOK, Follows, SameCall

LEMMA CallsFollow ==
  ASSUME ExitInv, [ExitNext]_exitVars
  PROVE  /\ calls' \in [Tid -> Seq(Call)]
         /\ \A u \in Tid : \A i \in DOMAIN calls'[u] : Follows(u, calls'[u][i])
<1> DEFINE Goal == /\ calls' \in [Tid -> Seq(Call)]
                   /\ \A u \in Tid : \A i \in DOMAIN calls'[u] : Follows(u, calls'[u][i])
<1> SUFFICES Goal
  OBVIOUS
<1>0. ExitTypeOK
  BY DEF ExitInv
<1>1. UNCHANGED calls => Goal
  BY <1>0, CallsStay
<1> HIDE DEF Goal
<1>2. ASSUME NEW t \in Tid, NEW at \in {"thread", "quick", "atexit"}, NEW d \in Handle, Enter(t, at, d)
      PROVE  Goal
  <2> DEFINE f == [at |-> at, dso |-> d, busy |-> FALSE, mark |-> IF at = "thread" THEN registered ELSE 0]
  <2>1. f \in Call /\ f.at = at /\ f.mark <= registered
    BY <1>0, ExitBounds DEF Call, ExitTypeOK
  <2>2. calls' = [calls EXCEPT ![t] = <<f>> \o @]
    BY <1>2 DEF Enter
  <2> HIDE DEF f
  <2>3. Follows(t, f)
    BY <2>1 DEF Follows
  <2>4. /\ calls' \in [Tid -> Seq(Call)]
        /\ \A u \in Tid : \A i \in DOMAIN calls'[u] :
               (u = t /\ calls'[u][i] = f) \/ \E j \in DOMAIN calls[u] : calls'[u][i] = calls[u][j]
    BY <1>0, <2>1, <2>2, TopIsAdded
  <2>5. ASSUME NEW u \in Tid, NEW i \in DOMAIN calls'[u]
        PROVE  Follows(u, calls'[u][i])
    <3>1. CASE u = t /\ calls'[u][i] = f
      BY <2>3, <3>1
    <3>2. CASE \E j \in DOMAIN calls[u] : calls'[u][i] = calls[u][j]
      BY <3>2 DEF Follows, SameCall
    <3>3. QED BY <2>4, <3>1, <3>2
  <2>6. QED BY <2>4, <2>5 DEF Goal
<1>3. ASSUME NEW t \in Tid, calls[t] # <<>>, NEW b \in BOOLEAN, Continue(t, [Top(t) EXCEPT !.busy = b])
      PROVE  Goal
  <2> DEFINE f == [Top(t) EXCEPT !.busy = b]
  <2>1. f \in Call /\ f.at = Top(t).at /\ SameCall(f, Top(t))
    BY <1>0, <1>3, TopIsACall DEF Call, SameCall
  <2> HIDE DEF f
  <2>2. Follows(t, f)
    BY <1>0, <1>3, <2>1, TopIsACall DEF Follows, Top
  <2>3. Continue(t, f)
    BY <1>3 DEF f
  <2>4. QED BY <1>0, <1>3, <2>1, <2>2, <2>3, TopChanges DEF Goal
<1>4. ASSUME NEW t \in Tid, LoopEnds(t)
      PROVE  Goal
  <2>1. InLoop(t) /\ calls[t] # <<>> /\ Top(t) \in Call /\ 1 \in DOMAIN calls[t] /\ Top(t) = calls[t][1]
    BY <1>0, <1>4, PopsAQueue, TopIsACall DEF LoopEnds, Top
  <2>2. PICK q \in Queue : q = Pops(t)
    BY <1>0, <2>1, PopsAQueue
  <2>3. NoneLeft(q, Top(t).dso)
    BY <1>4, <2>2, EndEffect DEF NoneLeft
  <2>4. Top(t).mark <= registered
    BY <2>1 DEF ExitInv, MarksArePast
  <2>5. ASSUME NEW a \in {"static", "remove", "values"}, Continue(t, [Top(t) EXCEPT !.at = a]),
               \/ Top(t).at = "thread" /\ a = "static"
               \/ Top(t).at = "static" /\ a = "remove"
               \/ a = "values"
        PROVE  Goal
    <3> DEFINE f == [Top(t) EXCEPT !.at = a]
    <3>1. f \in Call /\ f.at = a /\ SameCall(f, Top(t))
      BY <2>1 DEF Call, SameCall
    <3> HIDE DEF f
    <3>2. CASE Top(t).at = "thread" /\ a = "static"
      <4>1. NoneLeft(t, f.dso) /\ f.mark <= registered
        BY <1>0, <2>1, <2>2, <2>3, <2>4, <3>1, <3>2, PopsAQueue DEF SameCall
      <4>2. Follows(t, f)
        BY <3>1, <3>2, <4>1 DEF Follows
      <4>3. QED BY <1>0, <2>1, <2>5, <3>1, <4>2, TopChanges DEF Goal, f
    <3>3. CASE Top(t).at = "static" /\ a = "remove"
      <4>1. NoneLeft("exit", f.dso)
        BY <1>0, <2>1, <2>2, <2>3, <3>1, <3>3, PopsAQueue DEF SameCall
      <4>2. Follows(t, f)
        BY <2>1, <3>1, <3>3, <4>1 DEF Follows
      <4>3. QED BY <1>0, <2>1, <2>5, <3>1, <4>2, TopChanges DEF Goal, f
    <3>4. CASE a = "values"
      <4>1. Follows(t, f)
        BY <2>4, <3>1, <3>4 DEF Follows, SameCall
      <4>2. QED BY <1>0, <2>1, <2>5, <3>1, <4>1, TopChanges DEF Goal, f
    <3>5. QED BY <2>5, <3>2, <3>3, <3>4
  <2>6. CASE UNCHANGED calls
    BY <1>1, <2>6
  <2>7. CASE \E step \in {<<"thread", "static">>, <<"static", "remove">>, <<"atexit", "values">>} :
                Top(t).at = step[1] /\ Continue(t, [Top(t) EXCEPT !.at = step[2]])
    BY <2>5, <2>7
  <2>8. QED BY <1>4, <2>6, <2>7 DEF LoopEnds
<1>5. ASSUME NEW t \in Tid, RemoveQuick(t) \/ ThreadEnds(t)
      PROVE  Goal
  <2>1. calls[t] # <<>> /\ \E r \in {<<>>, Tail(calls[t])} : calls' = [calls EXCEPT ![t] = r]
    BY <1>5 DEF RemoveQuick, ThreadEnds, InCall
  <2>2. /\ calls' \in [Tid -> Seq(Call)]
        /\ \A u \in Tid : \A i \in DOMAIN calls'[u] : \E j \in DOMAIN calls[u] : calls'[u][i] = calls[u][j]
    BY <1>0, <2>1, TopIsTaken
  <2>3. QED BY <2>2, KeptCallsFollow DEF Goal
<1>6. ASSUME NEW t \in Tid, RunDtor(t) \/ DestroyValue(t) \/ DtorReturns(t)
      PROVE  Goal
  <2>1. calls[t] # <<>> /\ \E b \in BOOLEAN : Continue(t, [Top(t) EXCEPT !.busy = b])
    BY <1>0, <1>6, PopsAQueue DEF RunDtor, DestroyValue, DtorReturns, InCall
  <2>2. QED BY <1>3, <2>1
<1>7. ASSUME NEW t \in Tid, LibraryStep(t)
      PROVE  Goal
  BY <1>4, <1>5, <1>6, <1>7 DEF LibraryStep
<1>8. ASSUME NEW t \in Tid, \/ \E q \in {"exit", "quick", t}, d \in Handle : RegisterDtor(t, q, d)
                            \/ \E k \in Key : SetValue(t, k)
      PROVE  Goal
  BY <1>1, <1>8 DEF RegisterDtor, SetValue
<1>9. ASSUME NEW t \in Tid, (\E d \in Handle : Finalize(t, d)) \/ QuickExit(t) \/ EndThread(t)
      PROVE  Goal
  BY <1>2, <1>9 DEF Finalize, QuickExit, EndThread, Handle
<1>10. UNCHANGED exitVars => Goal
  BY <1>1 DEF exitVars
<1>11. QED BY <1>6, <1>7, <1>8, <1>9, <1>10 DEF ExitNext

LEMMA CallsKeepTheirWord ==
  ASSUME ExitInv, [ExitNext]_exitVars
  PROVE  MarksArePast' /\ FinalizedAreGone'
<1> DEFINE Old == /\ registered' \in Nat /\ registered' >= registered
                  /\ \A q \in Queue : \A e \in Elements(q)' : e \in Elements(q) \/ e.id = registered + 1
<1>0. registered \in Nat
  BY ExitBounds DEF ExitInv, ExitTypeOK
<1>1. UNCHANGED <<queue, registered>> => Old
  BY <1>0, QueuesStay DEF ExitInv
<1> HIDE DEF Old
<1>2. ASSUME NEW t \in Tid, NEW q \in Queue, NEW d \in Handle, RegisterDtor(t, q, d)
      PROVE  Old
  <2>1. registered' = registered + 1
    BY <1>2 DEF RegisterDtor
  <2>2. PICK e \in Element : /\ e.id = registered + 1 /\ Elements(q)' = Elements(q) \cup {e}
                             /\ \A p \in Queue \ {q} : Elements(p)' = Elements(p)
    BY <1>2, RegisterEffect
  <2>3. QED BY <1>0, <2>1, <2>2 DEF Old
<1>3. ASSUME NEW t \in Tid, RunDtor(t) \/ LoopEnds(t)
      PROVE  Old
  <2>1. PICK q \in Queue : q = Pops(t)
    BY <1>3, PopsAQueue DEF RunDtor, LoopEnds, ExitInv
  <2>2. registered' = registered
    BY <1>3 DEF RunDtor, LoopEnds
  <2>3. \A p \in Queue : Elements(p)' \subseteq Elements(p)
    <3>1. CASE RunDtor(t)
      BY <2>1, <3>1, RunEffect
    <3>2. CASE LoopEnds(t)
      BY <2>1, <3>2, EndEffect
    <3>3. QED BY <1>3, <3>1, <3>2
  <2>4. QED BY <1>0, <2>2, <2>3 DEF Old
<1>4. ASSUME NEW t \in Tid, RemoveQuick(t)
      PROVE  Old
  <2>1. registered' = registered
    BY <1>4 DEF RemoveQuick
  <2>2. \A p \in Queue : Elements(p)' \subseteq Elements(p)
    BY <1>4, RemoveEffect
  <2>3. QED BY <1>0, <2>1, <2>2 DEF Old
<1>5. ASSUME NEW t \in Tid, LibraryStep(t)
      PROVE  Old
  BY <1>1, <1>3, <1>4, <1>5 DEF LibraryStep, DestroyValue, ThreadEnds
<1>6. ASSUME NEW t \in Tid, \/ \E k \in Key : SetValue(t, k)
                            \/ \E d \in Handle : Finalize(t, d)
                            \/ QuickExit(t) \/ EndThread(t) \/ DtorReturns(t)
      PROVE  Old
  BY <1>1, <1>6 DEF SetValue, Finalize, QuickExit, EndThread, Enter, DtorReturns
<1>7. UNCHANGED exitVars => Old
  BY <1>1 DEF exitVars
<1>8. \A t \in Tid : {"exit", "quick", t} \subseteq Queue
  BY DEF Queue
<1>9. Old
  BY <1>2, <1>5, <1>6, <1>7, <1>8 DEF ExitNext
<1>10. QED BY <1>9, CallsFollow, CallsStep DEF Old

(***************************************************************************)
(* The types.                                                              *)
(***************************************************************************)
LEMMA ExitTypesStay ==
  ASSUME ExitInv, [ExitNext]_exitVars
  PROVE  ExitTypeOK'
<1>0. ExitTypeOK /\ Accounted' /\ AllFine'
  BY AccountedStep DEF ExitInv
<1>1. DOMAIN queue' = Queue /\ queue' = [q \in Queue |-> queue'[q]]
  BY <1>0 DEF ExitTypeOK, ExitNext, exitVars, RegisterDtor, SetValue, Finalize, QuickExit, EndThread,
              Enter, DtorReturns, LibraryStep, RunDtor, LoopEnds, RemoveQuick, DestroyValue, ThreadEnds
<1>2. queue' \in [Queue -> Seq(Seq(Element)) \ {<<>>}]
      /\ \A q \in Queue : \A k \in DOMAIN queue'[q] : Len(queue'[q][k]) <= Capacity
  BY <1>0, <1>1 DEF AllFine, Fine
<1>3. calls' \in [Tid -> Seq(Call)]
  BY CallsFollow
<1>4. /\ tls' \in [Tid -> SUBSET Key] /\ alive' \in BOOLEAN /\ gone' \subseteq Tid
      /\ registered' \in 0 .. MaxDtor
  <2>1. registered \in 0 .. MaxDtor /\ tls \in [Tid -> SUBSET Key] /\ alive \in BOOLEAN /\ gone \subseteq Tid
    BY <1>0 DEF ExitTypeOK
  <2>2. ASSUME NEW t \in Tid, NEW q, NEW d, RegisterDtor(t, q, d)
        PROVE  registered' \in 0 .. MaxDtor /\ UNCHANGED <<tls, alive, gone>>
    BY <2>1, <2>2, ExitBounds DEF RegisterDtor
  <2>3. ASSUME NEW t \in Tid, NEW k \in Key, SetValue(t, k)
        PROVE  tls' \in [Tid -> SUBSET Key] /\ UNCHANGED <<registered, alive, gone>>
    BY <2>1, <2>3 DEF SetValue
  <2>4. ASSUME NEW t \in Tid, LibraryStep(t)
        PROVE  /\ tls' \in [Tid -> SUBSET Key] /\ alive' \in BOOLEAN /\ gone' \subseteq Tid
               /\ UNCHANGED registered
    BY <2>1, <2>4 DEF LibraryStep, RunDtor, LoopEnds, RemoveQuick, DestroyValue, ThreadEnds,
                      Terminates, ExitGoesOn
  <2>5. ASSUME NEW t \in Tid, \/ \E d \in Handle : Finalize(t, d)
                              \/ QuickExit(t) \/ EndThread(t) \/ DtorReturns(t)
        PROVE  UNCHANGED <<tls, registered, alive, gone>>
    BY <2>5 DEF Finalize, QuickExit, EndThread, Enter, DtorReturns
  <2>6. UNCHANGED exitVars => UNCHANGED <<tls, registered, alive, gone>>
    BY DEF exitVars
  <2>7. QED BY <2>1, <2>2, <2>3, <2>4, <2>5, <2>6 DEF ExitNext
<1>5. done' \cup dropped' \subseteq 1 .. MaxDtor
  <2>1. registered' \in Nat /\ registered' <= MaxDtor
    BY <1>4, ExitBounds
  <2>2. done' \cup dropped' \subseteq 1 .. registered'
    BY <1>0 DEF Accounted
  <2>3. QED BY <2>1, <2>2, ExitBounds
<1>6. QED BY <1>2, <1>3, <1>4, <1>5 DEF ExitTypeOK

(***************************************************************************)
(* The three facts about the invariant.                                    *)
(***************************************************************************)
LEMMA ExitInvInit == ExitInit => ExitInv
<1> SUFFICES ASSUME ExitInit PROVE ExitInv
  OBVIOUS
<1>1. /\ EmptyQueue \in Seq(Seq(Element)) /\ EmptyQueue # <<>> /\ DOMAIN EmptyQueue = {1}
      /\ Len(EmptyQueue[1]) = 0 /\ DOMAIN EmptyQueue[1] = {}
  BY DEF EmptyQueue
<1>2. Fine(EmptyQueue) /\ Contents(EmptyQueue) = {}
  BY <1>1, CapacityAssumption DEF Fine, Ordered, Contents
<1>3. AllFine /\ \A q \in Queue : Elements(q) = {}
  BY <1>2 DEF AllFine, Elements, ExitInit
<1>4. Accounted
  BY <1>3 DEF Accounted, ExitInit
<1>5. ExitTypeOK
  <2>1. \A q \in Queue : \A k \in DOMAIN queue[q] : Len(queue[q][k]) <= Capacity
    BY <1>3 DEF AllFine, Fine
  <2>2. queue \in [Queue -> Seq(Seq(Element)) \ {<<>>}]
    BY <1>1 DEF ExitInit
  <2>3. QED BY <2>1, <2>2, ExitBounds DEF ExitTypeOK, ExitInit
<1>6. MarksArePast /\ FinalizedAreGone
  BY DEF MarksArePast, FinalizedAreGone, ExitInit
<1>7. QED BY <1>3, <1>4, <1>5, <1>6 DEF ExitInv

LEMMA ExitInvStep == ExitInv /\ [ExitNext]_exitVars => ExitInv'
BY AccountedStep, CallsKeepTheirWord, ExitTypesStay DEF ExitInv

LEMMA ExitInvariance == ExitSpec => []ExitInv
BY ExitInvInit, ExitInvStep, PTL DEF ExitSpec

(***************************************************************************)
(* No block of a queue holds more than fits, and a queue has always a block *)
(* to push to.                                                             *)
(***************************************************************************)
THEOREM ExitTypeCorrect == ExitSpec => []ExitTypeOK
<1>1. ExitInv => ExitTypeOK
  BY DEF ExitInv
<1>2. QED BY <1>1, ExitInvariance, PTL

(***************************************************************************)
(* __MCF_cxa_finalize goes on only when the destructors of the module that *)
(* had been registered before are gone: those of the thread before it turns *)
(* to those of the process, and those before it returns, whatever other    *)
(* threads and the destructors do.                                         *)
(***************************************************************************)
THEOREM FinalizedDtorsAreGone == ExitSpec => []FinalizedAreGone
<1>1. ExitInv => FinalizedAreGone
  BY DEF ExitInv
<1>2. QED BY <1>1, ExitInvariance, PTL

LEMMA AccountedOnce == ExitInv => EachOnce
<1> SUFFICES ASSUME ExitInv PROVE EachOnce
  OBVIOUS
<1>1. ASSUME NEW s \in Spots
      PROVE  \E q \in Queue : \E k \in DOMAIN queue[q] : \E i \in DOMAIN queue[q][k] :
                s = <<q, k, i>> /\ Id(s) = queue[q][k][i].id /\ queue[q][k][i] \in Elements(q)
  <2>1. PICK q \in Queue : \E k \in DOMAIN queue[q] : \E i \in DOMAIN queue[q][k] : s = <<q, k, i>>
    BY DEF Spots
  <2>2. PICK k \in DOMAIN queue[q] : \E i \in DOMAIN queue[q][k] : s = <<q, k, i>>
    BY <2>1
  <2>3. PICK i \in DOMAIN queue[q][k] : s = <<q, k, i>>
    BY <2>2
  <2>4. Id(s) = queue[q][k][i].id
    BY <2>3 DEF Id
  <2>5. queue[q][k][i] \in Elements(q)
    BY <2>3, ContentsAre DEF Elements
  <2>6. QED BY <2>3, <2>4, <2>5
<1>2. ASSUME NEW q \in Queue, NEW e \in Elements(q)
      PROVE  \E s \in Spots : Id(s) = e.id
  <2>1. PICK k \in DOMAIN queue[q] : \E i \in DOMAIN queue[q][k] : e = queue[q][k][i]
    BY ContentsAre DEF Elements
  <2>2. PICK i \in DOMAIN queue[q][k] : e = queue[q][k][i]
    BY <2>1
  <2>3. <<q, k, i>> \in Spots
    BY DEF Spots
  <2>4. Id(<<q, k, i>>) = e.id
    BY <2>2 DEF Id
  <2>5. QED BY <2>3, <2>4
<1> DEFINE Waiting == {Id(s) : s \in Spots}
<1>3. \A n : n \in Waiting <=> \E q \in Queue : \E e \in Elements(q) : n = e.id
  BY <1>1, <1>2
<1> HIDE DEF Waiting
<1>4. /\ Waiting \cup done \cup dropped = 1 .. registered
      /\ Waiting \cap done = {} /\ Waiting \cap dropped = {} /\ done \cap dropped = {}
  BY <1>3 DEF ExitInv, Accounted
<1>5. ASSUME NEW r \in Spots, NEW s \in Spots, Id(r) = Id(s)
      PROVE  r = s
  <2>1. PICK p \in Queue : \E k \in DOMAIN queue[p] : \E i \in DOMAIN queue[p][k] :
                r = <<p, k, i>> /\ Id(r) = queue[p][k][i].id /\ queue[p][k][i] \in Elements(p)
    BY <1>1
  <2>2. PICK q \in Queue : \E m \in DOMAIN queue[q] : \E j \in DOMAIN queue[q][m] :
                s = <<q, m, j>> /\ Id(s) = queue[q][m][j].id /\ queue[q][m][j] \in Elements(q)
    BY <1>1
  <2>3. p = q
    BY <1>5, <2>1, <2>2 DEF ExitInv, Accounted
  <2>4. Fine(queue[q])
    BY DEF ExitInv, AllFine
  <2> DEFINE b == queue[q]
  <2>5. PICK k \in DOMAIN b : \E i \in DOMAIN b[k] : r = <<q, k, i>> /\ Id(r) = b[k][i].id /\ b[k][i] \in Elements(q)
    BY <2>1, <2>3
  <2>6. PICK i \in DOMAIN b[k] : r = <<q, k, i>> /\ Id(r) = b[k][i].id /\ b[k][i] \in Elements(q)
    BY <2>5
  <2>7. PICK m \in DOMAIN b : \E j \in DOMAIN b[m] : s = <<q, m, j>> /\ Id(s) = b[m][j].id /\ b[m][j] \in Elements(q)
    BY <2>2
  <2>8. PICK j \in DOMAIN b[m] : s = <<q, m, j>> /\ Id(s) = b[m][j].id /\ b[m][j] \in Elements(q)
    BY <2>7
  <2>9. k \in Nat /\ m \in Nat /\ i \in Nat /\ j \in Nat
    BY <2>4, BlockFacts
  <2>10. b[k][i].id \in Int /\ b[k][i].id = b[m][j].id
    BY <1>5, <2>6, <2>8, ElementsAre DEF ExitInv
  <2>11. ~(m < k \/ (k = m /\ i < j)) /\ ~(k < m \/ (m = k /\ j < i))
    <3> HIDE DEF b
    <3>1. Fine(b)
      BY <2>4 DEF b
    <3>2. QED BY <2>10, <3>1 DEF Fine, Ordered
  <2>12. k = m /\ i = j
    BY <2>9, <2>11
  <2>13. QED BY <2>6, <2>8, <2>12
<1>6. QED BY <1>4, <1>5 DEF EachOnce, Waiting

(***************************************************************************)
(* A registered destructor is in exactly one place, until it is called once *)
(* or removed, however calls are nested and blocks come and go.            *)
(***************************************************************************)
THEOREM EachDtorOnce == ExitSpec => []EachOnce
BY AccountedOnce, ExitInvariance, PTL

(***************************************************************************)
(* Each chain of blocks implements a list.                                 *)
(***************************************************************************)
LEMMA ListInits == ExitInit => \A q \in Queue : List(q)!Init
<1> SUFFICES ASSUME ExitInit, NEW q \in Queue PROVE Elements(q) = {}
  BY DEF List!Init
<1>1. DOMAIN EmptyQueue = {1} /\ DOMAIN EmptyQueue[1] = {}
  BY DEF EmptyQueue
<1>2. QED BY <1>1 DEF ExitInit, Elements, Contents

LEMMA ListSteps ==
  ASSUME ExitInv, [ExitNext]_exitVars
  PROVE  \A q \in Queue : Elements(q)' = Elements(q) \/ List(q)!Next
<1> DEFINE Goal == \A q \in Queue : Elements(q)' = Elements(q) \/ List(q)!Next
<1> SUFFICES Goal
  OBVIOUS
<1>0. AllFine /\ ExitTypeOK
  BY DEF ExitInv
<1>1. UNCHANGED queue => Goal
  BY <1>0, QueuesStay
<1>2. ASSUME NEW t \in Tid, NEW q \in Queue, NEW d \in Handle, RegisterDtor(t, q, d)
      PROVE  Goal
  <2>1. PICK e \in Element :
           /\ \A p \in Queue : \A x \in Elements(p) : x.id < e.id
           /\ Elements(q)' = Elements(q) \cup {e}
           /\ \A p \in Queue \ {q} : Elements(p)' = Elements(p)
    BY <1>2, RegisterEffect
  <2>2. List(q)!Next
    BY <2>1 DEF List!Next, List!Push
  <2>3. QED BY <2>1, <2>2
<1>3. ASSUME NEW t \in Tid, RunDtor(t)
      PROVE  Goal
  <2>1. InLoop(t)
    BY <1>3 DEF RunDtor
  <2>2. PICK q \in Queue : q = Pops(t)
    BY <1>0, <2>1, PopsAQueue
  <2> DEFINE d == Top(t).dso
  <2>3. d \in Dso \cup {NoDso}
    BY <1>0, <2>1, PopsAQueue, TopIsACall DEF Call, Handle
  <2>4. PICK e \in Elements(q) :
           /\ Matches(e, d) /\ \A x \in Elements(q) : Matches(x, d) => x.id <= e.id
           /\ Elements(q)' = Elements(q) \ {e}
           /\ \A p \in Queue \ {q} : Elements(p)' = Elements(p)
    BY <1>3, <2>2, RunEffect
  <2>5. \E h \in Dso \cup {NoDso} : List(q)!PopNewest(h)
    BY <2>3, <2>4 DEF List!PopNewest, List!Matching, Matches
  <2>6. List(q)!Next
    BY <2>5 DEF List!Next
  <2>7. QED BY <2>4, <2>6
<1>4. ASSUME NEW t \in Tid, LoopEnds(t)
      PROVE  Goal
  <2>1. PICK q \in Queue : q = Pops(t)
    BY <1>0, <1>4, PopsAQueue DEF LoopEnds
  <2>2. QED BY <1>4, <2>1, EndEffect
<1>5. ASSUME NEW t \in Tid, RemoveQuick(t)
      PROVE  Goal
  <2> DEFINE d == Top(t).dso
  <2>1. d \in Dso \cup {NoDso}
    BY <1>0, <1>5, TopIsACall DEF Call, Handle, RemoveQuick, InCall
  <2>2. /\ Elements("quick")' = {x \in Elements("quick") : ~Matches(x, d)}
        /\ \A p \in Queue \ {"quick"} : Elements(p)' = Elements(p)
    BY <1>5, RemoveEffect
  <2>3. \E h \in Dso \cup {NoDso} : List("quick")!RemoveAll(h)
    BY <2>1, <2>2 DEF List!RemoveAll, List!Matching, Matches
  <2>4. List("quick")!Next
    BY <2>3 DEF List!Next
  <2>5. QED BY <2>2, <2>4
<1> HIDE DEF Goal
<1>6. ASSUME NEW t \in Tid, LibraryStep(t)
      PROVE  Goal
  BY <1>1, <1>3, <1>4, <1>5, <1>6 DEF LibraryStep, DestroyValue, ThreadEnds
<1>7. ASSUME NEW t \in Tid, \/ \E k \in Key : SetValue(t, k)
                            \/ \E d \in Handle : Finalize(t, d)
                            \/ QuickExit(t) \/ EndThread(t) \/ DtorReturns(t)
      PROVE  Goal
  BY <1>1, <1>7 DEF SetValue, Finalize, QuickExit, EndThread, Enter, DtorReturns
<1>8. UNCHANGED exitVars => Goal
  BY <1>1 DEF exitVars
<1>9. \A t \in Tid : {"exit", "quick", t} \subseteq Queue
  BY DEF Queue
<1>10. QED BY <1>2, <1>6, <1>7, <1>8, <1>9 DEF ExitNext

(***************************************************************************)
(* A chain of blocks is a list: pushing appends, popping takes the newest  *)
(* match whichever block it is in, and removing takes all matches.         *)
(***************************************************************************)
THEOREM ChainsAreLists == ExitSpec => IsDtorList
<1>1. ExitInit => \A q \in Queue : List(q)!Init
  BY ListInits
<1>2. ExitInv /\ [ExitNext]_exitVars
        => [\A q \in Queue : UNCHANGED Elements(q) \/ List(q)!Next]_queue
  BY ListSteps
<1>3. QED BY <1>1, <1>2, ExitInvariance, PTL DEF ExitSpec, IsDtorList
=============================================================================
