------------------------------- MODULE Exit --------------------------------
(***************************************************************************)
(* Registration and running of destructors: src/cxa.c, src/exit.c and the  *)
(* parts of src/xglobals.c that run them.                                  *)
(*                                                                         *)
(* Two queues belong to the process and each has a mutex, under which an   *)
(* element is pushed or popped: that is one step.  Each thread has a queue *)
(* and thread-local values of its own.  A destructor runs without a lock   *)
(* and may do all that other code may: register, set values, finalize a    *)
(* module, end its thread or the process.  So a thread has a stack of      *)
(* calls, and those below the top one are waiting for a destructor.        *)
(***************************************************************************)
EXTENDS DtorQueue, FiniteSetsExt

CONSTANTS
    Tid,        \* threads
    Dso,        \* handles of modules
    Key,        \* keys of thread-local values, which have destructors
    MaxDtor,    \* bound on registrations
    MaxCall     \* bound on calls in progress, in several threads or nested

ASSUME ExitBounds == MaxDtor \in Nat /\ MaxCall \in Nat

VARIABLES
    queue,      \* exit_queue, quick_exit_queue and __atexit_queue of each thread
    tls,        \* the keys for which a thread has a value that is not null
    calls,      \* the calls in progress of each thread
    alive,      \* the process has not been terminated
    gone,       \* the threads that have ended
    registered, \* number of registrations
    done,       \* the registrations whose destructor has been called
    dropped     \* the registrations that have been removed

exitVars == <<queue, tls, calls, alive, gone, registered, done, dropped>>

Handle == Dso \cup {NoDso}

Element == [id : 1 .. MaxDtor, dso : Handle]

Queue == {"exit", "quick"} \cup Tid

Call == [at : {"thread", "static", "remove", "quick", "atexit", "values"},
         dso : Handle, busy : BOOLEAN, mark : 0 .. MaxDtor]

Elements(q) == Contents(queue[q])

-----------------------------------------------------------------------------
ExitInit ==
    /\ queue = [q \in Queue |-> EmptyQueue]
    /\ tls = [t \in Tid |-> {}]
    /\ calls = [t \in Tid |-> <<>>]
    /\ alive = TRUE
    /\ gone = {}
    /\ registered = 0
    /\ done = {}
    /\ dropped = {}

Top(t) == calls[t][1]

InCall(t, at) == calls[t] # <<>> /\ Top(t).at = at /\ ~Top(t).busy

\* The thread runs code of the program: its own or that of a destructor.
InProgram(t) ==
    /\ alive
    /\ t \notin gone
    /\ calls[t] # <<>> => Top(t).busy

(***************************************************************************)
(* __MCF_cxa_atexit, __MCF_cxa_at_quick_exit and __MCF_cxa_thread_atexit.  *)
(* When memory is out, nothing happens.                                    *)
(***************************************************************************)
RegisterDtor(t, q, d) ==
    /\ InProgram(t)
    /\ registered < MaxDtor
    /\ registered' = registered + 1
    /\ queue' = [queue EXCEPT ![q] = Pushed(@, 1, [id |-> registered + 1, dso |-> d])]
    /\ UNCHANGED <<tls, calls, alive, gone, done, dropped>>

\* Setting a thread-local value, possibly to null.
SetValue(t, k) ==
    /\ InProgram(t)
    /\ \E ks \in {tls[t] \cup {k}, tls[t] \ {k}} : tls' = [tls EXCEPT ![t] = ks]
    /\ UNCHANGED <<queue, calls, alive, gone, registered, done, dropped>>

(***************************************************************************)
(* The calls that run destructors.  Each remembers what had been           *)
(* registered before it.                                                   *)
(***************************************************************************)
Enter(t, at, d) ==
    /\ InProgram(t)
    /\ MapThenSumSet(LAMBDA u : Len(calls[u]), Tid) < MaxCall
    /\ calls' = [calls EXCEPT ![t] =
           <<[at |-> at, dso |-> d, busy |-> FALSE,
            mark |-> IF at = "thread" THEN registered ELSE 0]>> \o @]
    /\ UNCHANGED <<queue, tls, alive, gone, registered, done, dropped>>

Finalize(t, d) == Enter(t, "thread", d)     \* also exit, with NoDso
QuickExit(t) == Enter(t, "quick", NoDso)
EndThread(t) == Enter(t, "atexit", NoDso)

Continue(t, f) == calls' = [calls EXCEPT ![t] = <<f>> \o Tail(@)]

Pops(t) ==
    CASE Top(t).at \in {"thread", "atexit"} -> t
      [] Top(t).at = "static" -> "exit"
      [] Top(t).at = "quick" -> "quick"

InLoop(t) == \E at \in {"thread", "static", "quick", "atexit"} : InCall(t, at)

(***************************************************************************)
(* One turn of the loops in do_finalize_thread, __MCF_run_static_dtors and *)
(* __MCF_gthread_on_thread_exit: pop an element and call its destructor.   *)
(***************************************************************************)
RunDtor(t) ==
    /\ InLoop(t)
    /\ Holding(queue[Pops(t)], Top(t).dso) # {}
    /\ done' = done \cup {Found(queue[Pops(t)], Top(t).dso).id}
    /\ queue' = [queue EXCEPT ![Pops(t)] = Popped(@, Top(t).dso)]
    /\ Continue(t, [Top(t) EXCEPT !.busy = TRUE])
    /\ UNCHANGED <<tls, alive, gone, registered, dropped>>

DtorReturns(t) ==
    /\ alive
    /\ calls[t] # <<>>
    /\ Top(t).busy
    /\ Continue(t, [Top(t) EXCEPT !.busy = FALSE])
    /\ UNCHANGED <<queue, tls, alive, gone, registered, done, dropped>>

\* __MCF__Exit.
Terminates == alive' = FALSE

\* Nothing is left to be popped, and __MCF_quick_exit terminates the process.
LoopEnds(t) ==
    /\ InLoop(t)
    /\ Holding(queue[Pops(t)], Top(t).dso) = {}
    /\ queue' = [queue EXCEPT ![Pops(t)] = Popped(@, Top(t).dso)]
    /\ \/ /\ Top(t).at = "quick"
          /\ Terminates
          /\ UNCHANGED calls
       \/ \E step \in {<<"thread", "static">>, <<"static", "remove">>, <<"atexit", "values">>} :
             /\ Top(t).at = step[1]
             /\ Continue(t, [Top(t) EXCEPT !.at = step[2]])
             /\ UNCHANGED alive
    /\ UNCHANGED <<tls, gone, registered, done, dropped>>

\* __MCF_exit has called __MCF_cxa_finalize, with a null handle.
ExitGoesOn(t) == Top(t).dso = NoDso /\ Terminates

\* The end of __MCF_cxa_finalize removes quick-exit callbacks.
RemoveQuick(t) ==
    /\ InCall(t, "remove")
    /\ dropped' = dropped \cup {e.id : e \in {x \in Elements("quick") : Matches(x, Top(t).dso)}}
    /\ queue' = [queue EXCEPT !["quick"] = Removed(@, Top(t).dso)]
    /\ calls' = [calls EXCEPT ![t] = Tail(@)]
    /\ \/ UNCHANGED alive
       \/ ExitGoesOn(t)
    /\ UNCHANGED <<tls, gone, registered, done>>

\* The second loop of __MCF_gthread_on_thread_exit.
DestroyValue(t) ==
    /\ InCall(t, "values")
    /\ \E k \in tls[t] : tls' = [tls EXCEPT ![t] = @ \ {k}]
    /\ Continue(t, [Top(t) EXCEPT !.busy = TRUE])
    /\ UNCHANGED <<queue, alive, gone, registered, done, dropped>>

ThreadEnds(t) ==
    /\ InCall(t, "values")
    /\ tls[t] = {}
    /\ gone' = gone \cup {t}
    /\ calls' = [calls EXCEPT ![t] = <<>>]
    /\ UNCHANGED <<queue, tls, alive, registered, done, dropped>>

\* What the library does within its calls.
LibraryStep(t) ==
    /\ alive
    /\ RunDtor(t) \/ LoopEnds(t) \/ RemoveQuick(t) \/ DestroyValue(t) \/ ThreadEnds(t)

ExitNext ==
    \E t \in Tid :
        \/ \E q \in {"exit", "quick", t}, d \in Handle : RegisterDtor(t, q, d)
        \/ \E k \in Key : SetValue(t, k)
        \/ \E d \in Handle : Finalize(t, d)
        \/ QuickExit(t)
        \/ EndThread(t)
        \/ DtorReturns(t)
        \/ LibraryStep(t)

ExitSpec == ExitInit /\ [][ExitNext]_exitVars

-----------------------------------------------------------------------------
(* Properties                                                              *)

\* The variables have their types, and no block of a queue overflows.
ExitTypeOK ==
    /\ queue \in [Queue -> Seq(Seq(Element)) \ {<<>>}]
    /\ \A q \in Queue : \A k \in DOMAIN queue[q] : Len(queue[q][k]) <= Capacity
    /\ tls \in [Tid -> SUBSET Key]
    /\ calls \in [Tid -> Seq(Call)]
    /\ alive \in BOOLEAN
    /\ gone \subseteq Tid
    /\ registered \in 0 .. MaxDtor
    /\ done \cup dropped \subseteq 1 .. MaxDtor

\* Where an element is in the queues, and the registration that it is.
Spots ==
    UNION {UNION {{<<q, k, i>> : i \in DOMAIN queue[q][k]} :
                      k \in DOMAIN queue[q]} : q \in Queue}

Id(s) == queue[s[1]][s[2]][s[3]].id

\* Whatever threads and destructors do in between, a registration is in one
\* place of one queue, or its destructor has been called, or it has been
\* removed: none is forgotten, called twice, or called after its removal.
EachOnce ==
    LET Waiting == {Id(s) : s \in Spots}
    IN  /\ Waiting \cup done \cup dropped = 1 .. registered
        /\ \A r, s \in Spots : Id(r) = Id(s) => r = s
        /\ Waiting \cap done = {} /\ Waiting \cap dropped = {} /\ done \cap dropped = {}

\* When __MCF_cxa_finalize has been through the destructors of its thread
\* and goes on to the static ones, those of the module that were registered
\* before the call are gone, and likewise the static ones at the end, also
\* when other threads and the destructors themselves pop and push.
FinalizedAreGone ==
    \A t \in Tid : \A i \in DOMAIN calls[t] :
        LET f == calls[t][i]
            Done(q) == \A e \in Elements(q) : Matches(e, f.dso) => e.id > f.mark
        IN  /\ f.at \in {"static", "remove"} => Done(t)
            /\ f.at = "remove" => Done("exit")

\* The chains of blocks behave like lists: an element is appended, the newest
\* match is popped, and all matches are removed.
List(q) == INSTANCE DtorList WITH list <- Elements(q)
IsDtorList ==
    /\ \A q \in Queue : List(q)!Init
    /\ [][\A q \in Queue : UNCHANGED Elements(q) \/ List(q)!Next]_queue

\* What src/thread.c:178-183 says of the structure of a thread that has ended:
\* its queue of callbacks has been cleared, and so have its values.
GoneIsEmpty ==
    \A t \in gone : Elements(t) = {} /\ tls[t] = {}
=============================================================================
