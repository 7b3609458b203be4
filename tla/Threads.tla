------------------------------ MODULE Threads -------------------------------
(***************************************************************************)
(* The structures of threads: thread.h, src/thread.c, the thread routine   *)
(* of src/gthr_aux.c, class thread of cxx11.hpp, and the end of a thread   *)
(* in src/xglobals.c.                                                      *)
(*                                                                         *)
(* A structure is counted.  A thread has one reference to its own, and the *)
(* program has the others; whoever drops the last one frees it, and its    *)
(* memory may become another structure.  A thread that the library has not *)
(* created gets a structure when it first asks for one, and so may one     *)
(* that it has created, from a callback of the loader, before its routine  *)
(* begins.  When memory is out they share one static structure, which a    *)
(* mutex guards.  Callbacks and thread-local values are counted here, and  *)
(* what runs them at the end of a thread may do all that threads may; Exit *)
(* has the queues themselves.                                              *)
(***************************************************************************)
EXTENDS Integers, FiniteSetsExt

CONSTANTS
    Thread,     \* threads of the operating system, each of which runs once
    Main,       \* the main thread
    Block,      \* addresses on the heap
    MainSt,     \* main_thread, which is static
    OomSt,      \* thread_oom_self_st
    None,
    Bad,        \* __MCF_BAD_PTR
    MaxMade,    \* bound on what is registered, by all in time, and late by one
    MaxOwn      \* bound on the references of the program to a structure

ASSUME ThreadAssumption == Main \in Thread /\ None \notin Thread
ASSUME StructAssumption ==
    /\ MainSt # OomSt /\ MainSt \notin Block /\ OomSt \notin Block
    /\ None \notin Block \cup {MainSt, OomSt} /\ Bad \notin Block \cup {MainSt, OomSt, None}

Struct == Block \cup {MainSt, OomSt}

Kind == {"queue", "table"}      \* __atexit_queue and __tls_table

VARIABLES
    st,         \* the structures
    \* the threads
    pc,         \* where each thread is
    self,       \* its slot, which is None, a structure, or Bad
    param,      \* the parameter of do_win32_thread_routine, until it returns
    arg,        \* the structure that a call of the thread is about
    outcome,    \* how its procedure has ended, "none" until it does
    clearing,   \* whether its end has got to the thread-local values
    late,       \* how many callbacks it has registered since then
    \* what the program has, and counts
    own,        \* how many references to each structure the program has
    oomLocked,  \* thread_oom_mtx
    due,        \* how much of what it has registered each thread has to run
    made        \* how much has been registered in time, altogether

threadVars == <<pc, self, param, arg>>
endVars == <<outcome, clearing>>
countVars == <<due, made, late>>
vars == <<st, threadVars, endVars, own, oomLocked, countVars>>

Nothing == [k \in Kind |-> 0]

(***************************************************************************)
(* A structure: __nref, __tid, whether __init_done has been set, how many  *)
(* elements its queue and its table have; and in the data that follow it   *)
(* _M_ctor_status of a C++ thread, and __arg_or_result of a gthread.       *)
(***************************************************************************)
Blank == [nref |-> 0, tid |-> None, init |-> FALSE, content |-> Nothing,
          ctor |-> "none", result |-> "none"]

(***************************************************************************)
(* Its memory has been cleared, and its data are those of a gthread, those *)
(* of a C++ thread, or none.                                               *)
(***************************************************************************)
Fresh(t, refs, data) ==
    [nref |-> refs, tid |-> t, init |-> FALSE, content |-> Nothing,
     ctor |-> IF data = "cxx" THEN "zero" ELSE "none",
     result |-> IF data = "gthread" THEN "arg" ELSE "none"]

Init ==
    /\ st = [s \in Struct |-> IF s = MainSt THEN Fresh(Main, 2, "none") ELSE Blank]
    /\ pc = [t \in Thread |-> IF t = Main THEN "run" ELSE "unborn"]
    /\ self = [t \in Thread |-> IF t = Main THEN MainSt ELSE None]
    /\ param = [t \in Thread |-> None]
    /\ arg = [t \in Thread |-> None]
    /\ outcome = [t \in Thread |-> "none"]
    /\ clearing = [t \in Thread |-> FALSE]
    /\ late = [t \in Thread |-> 0]
    /\ own = [s \in Struct |-> IF s = MainSt THEN 1 ELSE 0]
    /\ oomLocked = FALSE
    /\ due = [t \in Thread |-> Nothing]
    /\ made = 0

-----------------------------------------------------------------------------
(***************************************************************************)
(* _MCF_thread_drop_ref_nonnull of s, when the structures are those of     *)
(* now.  The last reference frees it, and what it had is gone, but for     *)
(* main_thread; that of memory which is out unlocks the mutex, whichever   *)
(* thread has locked it.  The code asserts that there is no content.       *)
(***************************************************************************)
DropsOf(now, s) ==
    LET last == now[s].nref = 1 /\ s # MainSt
    IN  /\ st' = IF last
                 THEN [now EXCEPT ![s] = [Blank EXCEPT !.content = now[s].content]]
                 ELSE [now EXCEPT ![s].nref = @ - 1]
        /\ oomLocked' = (oomLocked /\ ~(s = OomSt /\ last))

Drops(s) == DropsOf(st, s)

Goes(t, to) == pc' = [pc EXCEPT ![t] = to]

-----------------------------------------------------------------------------
(* _MCF_thread_p_new, and what calls it *)

(***************************************************************************)
(* The functions that create threads: which data they ask for, and to whom *)
(* the reference goes that they get.                                       *)
(***************************************************************************)
gthr_create_v3 == [data |-> "gthread", for |-> "program"]
libcxx_thread_create == [data |-> "gthread", for |-> "program"]
thrd_create == [data |-> "gthread", for |-> "program"]
objc_thread_detach == [data |-> "gthread", for |-> "nobody"]
cxx_thread == [data |-> "cxx", for |-> "constructor"]

Creators ==
    {gthr_create_v3, libcxx_thread_create, thrd_create, objc_thread_detach, cxx_thread}

(***************************************************************************)
(* Memory is allocated and the thread is created, which waits, and the     *)
(* structure is passed back.  The constructor of a C++ thread keeps it to  *)
(* itself until it is done.  Nothing has changed if any of this fails.     *)
(***************************************************************************)
Create(t, u, s, f) ==
    /\ pc[t] = "run"
    /\ pc[u] = "unborn"
    /\ s \in Block /\ st[s].nref = 0
    /\ st' = [st EXCEPT ![s] = Fresh(u, 2, f.data)]
    /\ pc' = [pc EXCEPT ![t] = CASE f.for = "program" -> "new"
                                  [] f.for = "constructor" -> "newcxx"
                                  [] OTHER -> "newobjc",
                        ![u] = "born"]
    /\ param' = [param EXCEPT ![u] = s]
    /\ arg' = [arg EXCEPT ![t] = s]
    /\ own' = [own EXCEPT ![s] = IF f.for = "program" THEN 1 ELSE 0]
    /\ UNCHANGED <<self, endVars, oomLocked, countVars>>

(***************************************************************************)
(* The event is set, and the structure is not touched any more: what       *)
(* remains to be released is found by its address.                         *)
(***************************************************************************)
LetGo(t) ==
    /\ pc[t] \in {"new", "newcxx", "newobjc"}
    /\ st' = [st EXCEPT ![arg[t]].init = TRUE]
    /\ IF pc[t] = "new"
       THEN /\ Goes(t, "run")
            /\ arg' = [arg EXCEPT ![t] = None]
       ELSE /\ Goes(t, IF pc[t] = "newcxx" THEN "construct" ELSE "detach")
            /\ UNCHANGED arg
    /\ UNCHANGED <<self, param, endVars, own, oomLocked, countVars>>

(***************************************************************************)
(* The arguments of the C++ thread have been copied, or that has thrown.   *)
(***************************************************************************)
Construct(t) ==
    /\ pc[t] = "construct"
    /\ st' = [st EXCEPT ![arg[t]].ctor = "constructed"]
    /\ own' = [own EXCEPT ![arg[t]] = 1]
    /\ arg' = [arg EXCEPT ![t] = None]
    /\ Goes(t, "run")
    /\ UNCHANGED <<self, param, endVars, oomLocked, countVars>>

\* Fault: the constructor throws and the event is not set.
CancelForgets(t) ==
    /\ pc[t] = "construct"
    /\ Goes(t, "detach")
    /\ UNCHANGED <<st, self, param, arg, endVars, own, oomLocked, countVars>>

CancelThread(t) ==
    /\ pc[t] = "construct"
    /\ st' = [st EXCEPT ![arg[t]].ctor = "cancelled"]
    /\ Goes(t, "detach")
    /\ UNCHANGED <<self, param, arg, endVars, own, oomLocked, countVars>>

(***************************************************************************)
(* The constructor that has cancelled a thread drops its reference, and so *)
(* does the Objective-C function, which has read the identifier.  In both  *)
(* cases the thread may have ended already.                                *)
(***************************************************************************)
Detach(t) ==
    /\ pc[t] = "detach"
    /\ Drops(arg[t])
    /\ arg' = [arg EXCEPT ![t] = None]
    /\ Goes(t, "run")
    /\ UNCHANGED <<self, param, endVars, own, countVars>>

-----------------------------------------------------------------------------
(* The beginning of a thread *)

ForeignStarts(t) ==
    /\ pc[t] = "unborn"
    /\ Goes(t, "run")
    /\ UNCHANGED <<st, self, param, arg, endVars, own, oomLocked, countVars>>

(***************************************************************************)
(* do_thread_self_slow and __MCF_thread_attach_foreign.                    *)
(***************************************************************************)
Attach(t, s) ==
    /\ st' = [st EXCEPT ![s] = Fresh(t, 1, "none")]
    /\ self' = [self EXCEPT ![t] = s]

AskSelf(t, s) ==
    /\ pc[t] \in {"born", "run"}
    /\ self[t] = None
    /\ s \in Block /\ st[s].nref = 0
    /\ Attach(t, s)
    /\ UNCHANGED <<pc, param, arg, endVars, own, oomLocked, countVars>>

MemoryIsOut(t) ==
    /\ pc[t] \in {"born", "run"}
    /\ self[t] = None
    /\ Goes(t, "oom")
    /\ UNCHANGED <<st, self, param, arg, endVars, own, oomLocked, countVars>>

LockOom(t) ==
    /\ pc[t] = "oom"
    /\ ~oomLocked
    /\ oomLocked' = TRUE
    /\ Attach(t, OomSt)
    /\ Goes(t, IF param[t] = None THEN "run" ELSE "born")
    /\ UNCHANGED <<param, arg, endVars, own, countVars>>

(***************************************************************************)
(* The callbacks and values of the thread, which may also come from a      *)
(* callback of the loader, or from one that runs at the thread's end.      *)
(***************************************************************************)
Register(t, k) ==
    LET isLate == k = "queue" /\ clearing[t]
    IN  /\ pc[t] \in {"born", "run"}
        /\ self[t] \in Struct
        /\ due' = [due EXCEPT ![t][k] = @ + 1]
        /\ st' = [st EXCEPT ![self[t]].content[k] = @ + 1]
        /\ IF isLate
           THEN /\ late[t] < MaxMade
                /\ late' = [late EXCEPT ![t] = @ + 1]
                /\ UNCHANGED made
           ELSE /\ made < MaxMade
                /\ made' = made + 1
                /\ UNCHANGED late
        /\ UNCHANGED <<threadVars, endVars, own, oomLocked>>

(***************************************************************************)
(* do_win32_thread_routine: what a foreign structure has is moved, and it  *)
(* is dropped.  The routine of a gthread says that it has been cancelled   *)
(* until its procedure returns.                                            *)
(***************************************************************************)
Adopt(t, moved, left) ==
    LET s == param[t]
        own1 == [st EXCEPT ![s].result = IF @ = "arg" THEN "cancelled" ELSE @]
    IN  /\ pc[t] = "born"
        /\ st[s].init
        /\ IF self[t] = None
           THEN /\ st' = own1
                /\ UNCHANGED oomLocked
           ELSE DropsOf([own1 EXCEPT
                           ![s].content = [k \in Kind |-> IF k \in moved
                                                          THEN st[self[t]].content[k] ELSE 0],
                           ![self[t]].content = left], self[t])
        /\ self' = [self EXCEPT ![t] = s]
        /\ Goes(t, "await")
        /\ UNCHANGED <<param, arg, endVars, own, countVars>>

\* Fault: the table of the foreign structure is left behind.
BeginForgets(t) == Adopt(t, {"queue"}, Nothing)

\* Fault: it is not cleared.
BeginCopies(t) ==
    Adopt(t, Kind, IF self[t] = None THEN Nothing ELSE st[self[t]].content)

Begin(t) == Adopt(t, Kind, Nothing)

(***************************************************************************)
(* The procedure is called.  That of a C++ thread waits for its arguments, *)
(* and returns at once when there are none.                                *)
(***************************************************************************)
\* Fault: the procedure of a C++ thread does not wait.
StartsEarly(t) ==
    /\ pc[t] = "await"
    /\ st[self[t]].ctor # "cancelled"
    /\ Goes(t, "run")
    /\ UNCHANGED <<st, self, param, arg, endVars, own, oomLocked, countVars>>

StartProc(t) ==
    /\ pc[t] = "await"
    /\ st[self[t]].ctor \in {"none", "constructed"}
    /\ Goes(t, "run")
    /\ UNCHANGED <<st, self, param, arg, endVars, own, oomLocked, countVars>>

ProcCancelled(t) ==
    /\ pc[t] = "await"
    /\ st[self[t]].ctor = "cancelled"
    /\ Goes(t, "exiting")
    /\ outcome' = [outcome EXCEPT ![t] = "cancelled"]
    /\ UNCHANGED <<st, self, param, arg, clearing, own, oomLocked, countVars>>

-----------------------------------------------------------------------------
(* The end of a thread *)

(***************************************************************************)
(* The procedure of a gthread returns a value, or passes it to             *)
(* __MCF_gthr_thread_exit_v3; or the thread ends without one, as others    *)
(* do, which have no record to write it to.  What runs at the thread's end *)
(* may end the thread as well, and then that begins again.                 *)
(***************************************************************************)
HasRecord(t) == self[t] \in Struct /\ st[self[t]].result # "none"

Exits(t) ==
    /\ Goes(t, "exiting")
    /\ clearing' = [clearing EXCEPT ![t] = FALSE]
    /\ late' = [late EXCEPT ![t] = 0]
    /\ UNCHANGED <<self, param, arg, own, oomLocked, due, made>>

GiveValue(t) ==
    /\ pc[t] = "run"
    /\ HasRecord(t)
    /\ st' = [st EXCEPT ![self[t]].result = "value"]
    /\ outcome' = [outcome EXCEPT ![t] = "value"]
    /\ Exits(t)

Finish(t) ==
    /\ pc[t] = "run"
    /\ outcome' = [outcome EXCEPT ![t] = IF @ = "none" THEN "cancelled" ELSE @]
    /\ Exits(t)
    /\ UNCHANGED st

(***************************************************************************)
(* What ends a thread: whether it comes with a value for the record, as    *)
(* also returning from the procedure of a gthread does.  A jump out of     *)
(* the thread ends in the handler below its procedure, and has none.       *)
(***************************************************************************)
thread_exit == [value |-> FALSE]
thread_exit_v3 == [value |-> TRUE]
thrd_exit == [value |-> TRUE]
objc_thread_exit == [value |-> FALSE]
seh_thread_top == [value |-> FALSE]

Enders == {thread_exit, thread_exit_v3, thrd_exit, objc_thread_exit, seh_thread_top}

Ends(t, f) == IF f.value /\ HasRecord(t) THEN GiveValue(t) ELSE Finish(t)

(***************************************************************************)
(* __MCF_gthread_on_thread_exit: the callbacks of the thread are run, the  *)
(* newest first, until there are none; then the destructors of its values, *)
(* and the callbacks are not looked at again.  What runs is program, which *)
(* comes back, or ends the thread once more.                               *)
(***************************************************************************)
RunOne(t, k) ==
    /\ pc[t] = "exiting"
    /\ self[t] \in Struct
    /\ st[self[t]].content[k] > 0
    /\ IF k = "queue" THEN ~clearing[t]
                      ELSE clearing[t] \/ st[self[t]].content["queue"] = 0
    /\ st' = [st EXCEPT ![self[t]].content[k] = @ - 1]
    /\ due' = [due EXCEPT ![t][k] = @ - 1]
    /\ clearing' = [clearing EXCEPT ![t] = (k = "table")]
    /\ Goes(t, "run")
    /\ UNCHANGED <<self, param, arg, outcome, own, oomLocked, made, late>>

CallbackReturns(t) ==
    /\ pc[t] = "run"
    /\ outcome[t] # "none"
    /\ Goes(t, "exiting")
    /\ UNCHANGED <<st, self, param, arg, endVars, own, oomLocked, countVars>>

(***************************************************************************)
(* Both loops are over: there is no value any more, and there has been no  *)
(* callback when the values' turn came.                                    *)
(***************************************************************************)
AllDone(t) ==
    /\ st[self[t]].content["table"] = 0
    /\ clearing[t] \/ st[self[t]].content["queue"] = 0

\* Fault: the slot is not poisoned, and the structure is dropped again.
PoisonsNothing(t) ==
    /\ pc[t] = "exiting"
    /\ self[t] \in Struct
    /\ AllDone(t)
    /\ st[self[t]].nref > 0
    /\ arg' = [arg EXCEPT ![t] = self[t]]
    /\ Goes(t, "drop")
    /\ UNCHANGED <<st, self, param, endVars, own, oomLocked, countVars>>

Poison(t) ==
    /\ pc[t] = "exiting"
    /\ self[t] \in Struct
    /\ AllDone(t)
    /\ self' = [self EXCEPT ![t] = Bad]
    /\ arg' = [arg EXCEPT ![t] = self[t]]
    /\ Goes(t, "drop")
    /\ UNCHANGED <<st, param, endVars, own, oomLocked, countVars>>

DropSelf(t) ==
    /\ pc[t] = "drop"
    /\ Drops(arg[t])
    /\ arg' = [arg EXCEPT ![t] = None]
    /\ Goes(t, "again")
    /\ UNCHANGED <<self, param, endVars, own, countVars>>

(***************************************************************************)
(* There is nothing to do for a thread that has no structure, nor when the *)
(* loader calls the function again.                                        *)
(***************************************************************************)
End(t) ==
    /\ pc[t] \in {"exiting", "again"}
    /\ self[t] \in {None, Bad}
    /\ Goes(t, "ended")
    /\ param' = [param EXCEPT ![t] = None]
    /\ UNCHANGED <<st, self, arg, endVars, own, oomLocked, countVars>>

-----------------------------------------------------------------------------
(* What the program does with the structures of threads *)

(***************************************************************************)
(* _MCF_thread_add_ref, of a structure to which there is a reference       *)
(* already, or which is that of the thread itself.                         *)
(***************************************************************************)
AddRef(t, s) ==
    /\ pc[t] \in {"born", "run"}
    /\ own[s] > 0 \/ self[t] = s
    /\ own[s] < MaxOwn
    /\ st' = [st EXCEPT ![s].nref = @ + 1]
    /\ own' = [own EXCEPT ![s] = @ + 1]
    /\ UNCHANGED <<threadVars, endVars, oomLocked, countVars>>

(***************************************************************************)
(* _MCF_thread_drop_ref.                                                   *)
(***************************************************************************)
DropRef(t, s) ==
    /\ pc[t] = "run"
    /\ own[s] > 0
    /\ own' = [own EXCEPT ![s] = @ - 1]
    /\ Drops(s)
    /\ UNCHANGED <<threadVars, endVars, countVars>>

(***************************************************************************)
(* To join a thread waits until the other has ended, takes its result and  *)
(* drops the reference.  thread::join throws for the thread itself, and    *)
(* the other functions assert that it is another one.                      *)
(***************************************************************************)
MayJoin(t, s) == own[s] > 0 /\ st[s].tid # t

Join(t, s) ==
    /\ pc[t] = "run"
    /\ MayJoin(t, s)
    /\ own' = [own EXCEPT ![s] = @ - 1]
    /\ arg' = [arg EXCEPT ![t] = s]
    /\ Goes(t, "join")
    /\ UNCHANGED <<st, self, param, endVars, oomLocked, countVars>>

Joined(t) ==
    /\ Drops(arg[t])
    /\ arg' = [arg EXCEPT ![t] = None]
    /\ Goes(t, "run")
    /\ UNCHANGED <<self, param, endVars, own, countVars>>

\* Fault: it waits until nobody else has a reference, not for the end.
JoinReturnsEarly(t) == pc[t] = "join" /\ self[st[arg[t]].tid] # arg[t] /\ Joined(t)

JoinReturns(t) == pc[t] = "join" /\ pc[st[arg[t]].tid] = "ended" /\ Joined(t)

(***************************************************************************)
(* What gives up a reference of the program: whether it waits for the end  *)
(* of the thread before that.                                              *)
(***************************************************************************)
thread_drop_ref == [waits |-> FALSE]
gthr_join_v3 == [waits |-> TRUE]
gthr_detach == [waits |-> FALSE]
libcxx_thread_join == [waits |-> TRUE]
libcxx_thread_detach == [waits |-> FALSE]
thrd_join == [waits |-> TRUE]
thrd_detach == [waits |-> FALSE]
cxx_join == [waits |-> TRUE]
cxx_detach == [waits |-> FALSE]

Closers ==
    {thread_drop_ref, gthr_join_v3, gthr_detach, libcxx_thread_join, libcxx_thread_detach,
     thrd_join, thrd_detach, cxx_join, cxx_detach}

GivesUp(t, s, f) == IF f.waits THEN Join(t, s) ELSE DropRef(t, s)

-----------------------------------------------------------------------------
(***************************************************************************)
(* What a thread does by itself once it has begun to do it.                *)
(***************************************************************************)
Proceed(t) ==
    \/ LetGo(t)
    \/ Construct(t) \/ CancelThread(t) \/ Detach(t)
    \/ Begin(t)
    \/ StartProc(t) \/ ProcCancelled(t)
    \/ \E k \in Kind : RunOne(t, k)
    \/ Poison(t)
    \/ DropSelf(t)
    \/ End(t)

Next ==
    \E t \in Thread :
        \/ Proceed(t)
        \/ \E u \in Thread, s \in Block, f \in Creators : Create(t, u, s, f)
        \/ ForeignStarts(t)
        \/ \E s \in Block : AskSelf(t, s)
        \/ MemoryIsOut(t)
        \/ LockOom(t)
        \/ \E k \in Kind : Register(t, k)
        \/ \E f \in Enders : Ends(t, f)
        \/ CallbackReturns(t)
        \/ \E s \in Struct : AddRef(t, s)
        \/ \E s \in Struct, f \in Closers : GivesUp(t, s, f)
        \/ JoinReturns(t)

Spec == Init /\ [][Next]_vars

-----------------------------------------------------------------------------
TypeOK ==
    /\ st \in [Struct -> [nref : Nat,
                          tid : Thread \cup {None},
                          init : BOOLEAN,
                          content : [Kind -> Nat],
                          ctor : {"none", "zero", "constructed", "cancelled"},
                          result : {"none", "arg", "cancelled", "value"}]]
    /\ pc \in [Thread -> {"unborn", "born", "oom", "await", "run", "new", "newcxx",
                          "newobjc", "construct", "detach", "join", "exiting", "drop", "again",
                      "ended"}]
    /\ self \in [Thread -> Struct \cup {None, Bad}]
    /\ param \in [Thread -> Block \cup {None}]
    /\ arg \in [Thread -> Struct \cup {None}]
    /\ outcome \in [Thread -> {"none", "cancelled", "value"}]
    /\ clearing \in [Thread -> BOOLEAN]
    /\ late \in [Thread -> Nat]
    /\ own \in [Struct -> Nat]
    /\ oomLocked \in BOOLEAN
    /\ due \in [Thread -> [Kind -> Nat]]
    /\ made \in Nat

(***************************************************************************)
(* The references that calls and threads have to s: a thread to its own    *)
(* structure and to its parameter, a constructor to what it makes, and who *)
(* joins or drops to what it will drop.                                    *)
(***************************************************************************)
Place == {"self", "param", "arg"}

RefersTo(t, x, s) ==
    \/ x = "self" /\ self[t] = s
    \/ x = "param" /\ param[t] = s /\ pc[t] \in {"born", "oom"}
    \/ x = "arg" /\ arg[t] = s
           /\ pc[t] \in {"newcxx", "newobjc", "construct", "detach", "join", "drop"}

Refs(s) == {r \in Thread \X Place : RefersTo(r[1], r[2], s)}

(***************************************************************************)
(* References are counted, so that nobody has a pointer to a structure     *)
(* which has been freed, or which is that of another thread by now; that   *)
(* includes who creates a thread, which has no reference of its own, until *)
(* it lets the thread go.  The count in the code is changed by six         *)
(* callers, none of which sees the others.  The static structure is in use *)
(* exactly when its mutex is locked, though another thread may unlock it   *)
(* than the one that has locked it.                                        *)
(***************************************************************************)
Counted ==
    /\ \A s \in Struct : st[s].nref = own[s] + Cardinality(Refs(s))
    /\ \A t \in Thread :
          /\ self[t] \in Struct => st[self[t]].tid = t
          /\ pc[t] \in {"born", "oom"} /\ param[t] # None => st[param[t]].tid = t
          /\ pc[t] = "new" => st[arg[t]].nref > 0

OomInUse == oomLocked <=> st[OomSt].nref > 0

RefsCounted == Counted /\ OomInUse

(***************************************************************************)
(* The memory that _MCF_thread_drop_ref_nonnull frees has no thread-local  *)
(* value in it, and no callback but those which the destructors of values  *)
(* have registered: not what a thread has moved to another structure, nor  *)
(* what it has run.  The comment there (src/thread.c:177-179) says that    *)
(* there is nothing at all, and the assertions ask whether the table and   *)
(* the blocks behind the first of the queue are gone.                      *)
(***************************************************************************)
FreedIsEmpty ==
    [][\A s \in Struct :
         st[s].nref > 0 /\ st'[s].nref = 0 =>
            /\ st'[s].content["table"] = 0
            /\ st'[s].content["queue"] \in {0, late[st[s].tid]}]_vars

(***************************************************************************)
(* What a thread has registered has been run, or is in its structure; when *)
(* it has ended, all of it has been run, also what was registered before   *)
(* its routine had begun, except for what the destructors of its values    *)
(* have registered with its callbacks, whose turn was over.                *)
(***************************************************************************)
NothingLost ==
    \A t \in Thread :
        IF self[t] \in Struct
        THEN due[t] = st[self[t]].content
        ELSE due[t]["table"] = 0 /\ due[t]["queue"] = late[t]

(***************************************************************************)
(* The code of a C++ thread runs with arguments that have been copied, and *)
(* never when that has failed.                                             *)
(***************************************************************************)
CodeHasArguments ==
    \A t \in Thread :
        pc[t] = "run" /\ outcome[t] = "none" /\ param[t] # None =>
            st[param[t]].ctor \in {"none", "constructed"}

(***************************************************************************)
(* Who joins a gthread gets what its procedure has returned or passed to   *)
(* __MCF_gthr_thread_exit_v3, or is told that it has been cancelled.  By   *)
(* then the thread has run all that it has registered, unless it was the   *)
(* destructors of its values that registered a callback.                   *)
(***************************************************************************)
JoinGetsResult ==
    [][\A t \in Thread :
         pc[t] = "join" /\ pc'[t] # "join" =>
            LET s == arg[t]
                u == st[s].tid
            IN  /\ st[s].result # "none" => st[s].result = outcome[u]
                /\ due[u]["table"] = 0 /\ due[u]["queue"] = late[u]]_vars

(***************************************************************************)
(* A thread that has been created gets to its procedure, or exits because  *)
(* it was cancelled: when it has to wait for its creator, somebody is on   *)
(* the way to set the event, also when a constructor throws.               *)
(***************************************************************************)
NoneForgotten ==
    \A t \in Thread :
        /\ pc[t] = "born" /\ ~st[param[t]].init =>
              \E u \in Thread : pc[u] \in {"new", "newcxx", "newobjc"} /\ arg[u] = param[t]
        /\ pc[t] = "await" /\ st[self[t]].ctor = "zero" =>
              \E u \in Thread : pc[u] = "construct" /\ arg[u] = self[t]

=============================================================================
