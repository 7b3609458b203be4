-------------------------------- MODULE Api ---------------------------------
(***************************************************************************)
(* What programs call: the gthread functions of GCC (gthr.h, gthr_aux.h,   *)
(* gthr_libobjc.h), those of libc++ (libcxx.h), C11 threads (c11.h) and    *)
(* the C++ classes (cxx11.hpp), on one lock and one condition variable.    *)
(* The lock is what TimedLock and SharedLock promise, and the condition    *)
(* variable is Cond.                                                       *)
(*                                                                         *)
(* A function is a record: what it does, to which lock, whether it waits,  *)
(* and what it returns.  The program of a thread counts its locks by what  *)
(* is returned, and uses the condition variable for items: who takes one   *)
(* waits while there is none, and who has put one signals.                 *)
(***************************************************************************)
EXTENDS Cond, SequencesExt, TLC

CONSTANTS
    None,
    Kinds,      \* bound: which locks there may be
    MaxDepth,   \* bound on the recursion of a program
    MaxItems    \* bound on the items of a behaviour

ASSUME NoneAssumption == None \notin Thread
ASSUME FinitelyMany == IsFiniteSet(Thread)
ASSUME BoundsAssumption == MaxDepth \in Nat /\ MaxItems \in Nat
ASSUME KindsAssumption ==
    Kinds \subseteq {"none", "mutex", "rwlock", "rc", "plain", "timed", "plainrec", "timedrec"}

VARIABLES
    kind,       \* what the lock is
    shared,     \* the lock is held by readers
    owner,      \* __owner and __depth of a recursive mutex
    depth,
    saved,      \* what the unlock callback of each thread has returned
    at,         \* where each thread is in a call
    call,       \* the function that it calls
    view,       \* how many locks its program thinks that it has
    want,       \* what its program has to do next
    late,       \* threads in a later round of a wait with a generic clock
    items,      \* items that nobody has taken
    missed,     \* such a round has begun since there are items
    made,       \* items made so far
    atexit      \* callbacks for the exit of the thread

lockVars == <<kind, shared, owner, depth, saved>>
callVars == <<at, call, view>>
itemVars == <<want, late, items, missed, made, atexit>>
avars == <<vars, lockVars, callVars, itemVars>>

-----------------------------------------------------------------------------
(* The functions *)

Lock(on, when, ok, fail) == [op |-> "lock", on |-> on, when |-> when, ok |-> ok, fail |-> fail]
Unlock(on, ok) == [op |-> "unlock", on |-> on, when |-> "now", ok |-> ok, fail |-> ok]
Wait(on, when, ok, fail) == [op |-> "wait", on |-> on, when |-> when, ok |-> ok, fail |-> fail]
Notify(all, ok) == [op |-> "notify", on |-> "any", when |-> all, ok |-> ok, fail |-> ok]

gthr_mutex_lock == Lock("mutex", "forever", "0", "0")
gthr_mutex_trylock == Lock("mutex", "try", "0", "EBUSY")
gthr_mutex_timedlock == Lock("mutex", "timed", "0", "ETIMEDOUT")
gthr_mutex_unlock == Unlock("mutex", "0")
gthr_recursive_mutex_lock == Lock("rc", "forever", "0", "0")
gthr_recursive_mutex_trylock == Lock("rc", "try", "0", "EBUSY")
gthr_recursive_mutex_timedlock == Lock("rc", "timed", "0", "ETIMEDOUT")
gthr_recursive_mutex_unlock == Unlock("rc", "0")
gthr_rwlock_rdlock == Lock("read", "forever", "0", "0")
gthr_rwlock_tryrdlock == Lock("read", "try", "0", "EBUSY")
gthr_rwlock_timedrdlock == Lock("read", "timed", "0", "ETIMEDOUT")
gthr_rwlock_wrlock == Lock("write", "forever", "0", "0")
gthr_rwlock_trywrlock == Lock("write", "try", "0", "EBUSY")
gthr_rwlock_timedwrlock == Lock("write", "timed", "0", "ETIMEDOUT")
gthr_rwlock_unlock == Unlock("rwlock", "0")
gthr_cond_wait == Wait("mutex", "forever", "0", "0")
gthr_cond_wait_recursive == Wait("rc", "forever", "0", "0")
gthr_cond_timedwait == Wait("mutex", "timed", "0", "ETIMEDOUT")
gthr_cond_shared_mutex_wait_shared == Wait("read", "timed", "0", "-1")
gthr_cond_shared_mutex_wait_exclusive == Wait("write", "timed", "0", "-1")
gthr_cond_signal == Notify("one", "0")
gthr_cond_broadcast == Notify("all", "0")

objc_mutex_lock == Lock("mutex", "forever", "0", "0")
objc_mutex_trylock == Lock("mutex", "try", "0", "-1")
objc_mutex_unlock == Unlock("mutex", "0")
objc_condition_wait == Wait("mutex", "forever", "0", "0")
objc_condition_signal == Notify("one", "0")
objc_condition_broadcast == Notify("all", "0")

libcxx_mutex_lock == Lock("mutex", "forever", "0", "0")
libcxx_mutex_trylock == Lock("mutex", "try", "true", "false")
libcxx_mutex_unlock == Unlock("mutex", "0")
libcxx_recursive_mutex_lock == Lock("rc", "forever", "0", "0")
libcxx_recursive_mutex_trylock == Lock("rc", "try", "true", "false")
libcxx_recursive_mutex_unlock == Unlock("rc", "0")
libcxx_condvar_wait == Wait("mutex", "forever", "0", "0")
libcxx_condvar_timedwait == Wait("mutex", "timed", "0", "ETIMEDOUT")
libcxx_condvar_signal == Notify("one", "0")
libcxx_condvar_broadcast == Notify("all", "0")

mtx_lock == Lock("mtx", "forever", "thrd_success", "thrd_success")
mtx_timedlock == Lock("mtx", "timed", "thrd_success", "thrd_timedout")
mtx_trylock == Lock("mtx", "try", "thrd_success", "thrd_busy")
mtx_unlock == Unlock("mtx", "thrd_success")
cnd_wait == Wait("mtx", "forever", "thrd_success", "thrd_success")
cnd_timedwait == Wait("mtx", "timed", "thrd_success", "thrd_timedout")
cnd_signal == Notify("one", "thrd_success")
cnd_broadcast == Notify("all", "thrd_success")

(***************************************************************************)
(* The locks of cxx11.hpp: `until` and `for` wait alike, but in rounds.    *)
(***************************************************************************)
cxx_mutex == {Lock("mutex", "forever", "0", "0"), Lock("mutex", "try", "true", "false"),
              Lock("mutex", "timed", "true", "false"), Unlock("mutex", "0")}
cxx_shared_mutex ==
    {Lock(on, w[1], w[2], w[3]) : on \in {"read", "write"},
                                  w \in {<<"forever", "0", "0">>, <<"try", "true", "false">>,
                                         <<"timed", "true", "false">>}}
    \cup {Unlock("rwlock", "0")}
cxx_recursive_mutex ==
    {Lock("rc", "forever", "0", "0"), Lock("rc", "try", "true", "false"),
     Lock("rc", "timed", "true", "false"), Unlock("rc", "0")}
cxx_condition_variable ==
    {Wait("mutex", "forever", "0", "0"), Wait("mutex", "timed", "no_timeout", "timeout"),
     Wait("mutex", "until", "no_timeout", "timeout"), Notify("one", "0"), Notify("all", "0")}

(***************************************************************************)
(* _MCF_sleep waits without a lock, and is told of an interrupt as a       *)
(* signal: that is its failure, and a timeout is its success.  The handler *)
(* of Ctrl-C that the callbacks of this wait add and remove is left out:   *)
(* any thread that broadcasts stands for the one in which it runs.         *)
(***************************************************************************)
mcf_sleep == Wait("none", "timed", "-1", "0")

Functions ==
    {gthr_mutex_lock, gthr_mutex_trylock, gthr_mutex_timedlock, gthr_mutex_unlock,
     gthr_recursive_mutex_lock, gthr_recursive_mutex_trylock, gthr_recursive_mutex_timedlock,
     gthr_recursive_mutex_unlock, gthr_rwlock_rdlock, gthr_rwlock_tryrdlock,
     gthr_rwlock_timedrdlock, gthr_rwlock_wrlock, gthr_rwlock_trywrlock,
     gthr_rwlock_timedwrlock, gthr_rwlock_unlock, gthr_cond_wait, gthr_cond_wait_recursive,
     gthr_cond_timedwait, gthr_cond_shared_mutex_wait_shared,
     gthr_cond_shared_mutex_wait_exclusive, gthr_cond_signal, gthr_cond_broadcast,
     objc_mutex_lock, objc_mutex_trylock, objc_mutex_unlock, objc_condition_wait,
     objc_condition_signal, objc_condition_broadcast,
     libcxx_mutex_lock, libcxx_mutex_trylock, libcxx_mutex_unlock,
     libcxx_recursive_mutex_lock, libcxx_recursive_mutex_trylock,
     libcxx_recursive_mutex_unlock, libcxx_condvar_wait, libcxx_condvar_timedwait,
     libcxx_condvar_signal, libcxx_condvar_broadcast,
     mtx_lock, mtx_timedlock, mtx_trylock, mtx_unlock, cnd_wait, cnd_timedwait,
     cnd_signal, cnd_broadcast, mcf_sleep}
    \cup cxx_mutex \cup cxx_shared_mutex \cup cxx_recursive_mutex \cup cxx_condition_variable

-----------------------------------------------------------------------------
(* The lock *)

(***************************************************************************)
(* mtx_init takes these types.                                             *)
(***************************************************************************)
MtxType == {"plain", "timed", "plainrec", "timedrec"}

Recursive == {"rc", "plainrec", "timedrec"}

(***************************************************************************)
(* Whether the lock is a recursive mutex below.                            *)
(***************************************************************************)
HasOwner == kind \in MtxType \cup {"rc"}

Fits(f) ==
    \/ f.on \in {kind, "any"}
    \/ kind = "rwlock" /\ f.on \in {"read", "write"}
    \/ kind \in MtxType /\ f.on = "mtx"

(***************************************************************************)
(* What the caller takes for success.                                      *)
(***************************************************************************)
Succeeds(code) == code \in {"0", "true", "thrd_success"}

AInit ==
    /\ Init
    /\ kind \in Kinds
    /\ shared = FALSE
    /\ owner = None
    /\ depth = 0
    /\ saved = [t \in Thread |-> 0]
    /\ at = [t \in Thread |-> "out"]
    /\ call = [t \in Thread |-> mcf_sleep]
    /\ view = [t \in Thread |-> 0]
    /\ want = [t \in Thread |-> "none"]
    /\ late = {}
    /\ items = 0
    /\ missed = FALSE
    /\ made = 0
    /\ atexit = [t \in Thread |-> <<>>]

At(t, to) == at' = [at EXCEPT ![t] = to]

(***************************************************************************)
(* A call begins.  A thread that has put an item does not wait before it   *)
(* has signaled, and one that has waited for an item takes it if it can.   *)
(***************************************************************************)
MayCall(t, f) ==
    /\ pc[t] = "idle" /\ at[t] = "out"
    /\ Fits(f)
    /\ want[t] = "hungry" => items = 0
    /\ want[t] = "due" => f.op \in {"unlock", "notify"}

Calls(t, f, to) ==
    /\ At(t, to)
    /\ call' = [call EXCEPT ![t] = f]

(***************************************************************************)
(* A lock function returns.                                                *)
(***************************************************************************)
LockReturns(t, code) ==
    /\ At(t, "out")
    /\ call' = [call EXCEPT ![t] = mcf_sleep]
    /\ view' = [view EXCEPT ![t] = IF Succeeds(code) THEN @ + 1 ELSE @]

CallLock(t, f) ==
    /\ f.op = "lock"
    /\ MayCall(t, f)
    /\ view[t] <= IF kind \in Recursive THEN MaxDepth - 1 ELSE IF HasOwner THEN 1 ELSE 0
    /\ IF f.on = "mtx" /\ f.when = "timed" /\ kind \notin {"timed", "timedrec"}
       THEN LockReturns(t, "thrd_error")
       ELSE /\ Calls(t, f, IF HasOwner THEN "check" ELSE "acquire")
            /\ UNCHANGED view
    /\ want' = [want EXCEPT ![t] = "none"]
    /\ UNCHANGED <<vars, lockVars, late, items, missed, made, atexit>>

(***************************************************************************)
(* __MCF_gthr_rc_mutex_recurse, and __MCF_c11_mtx_check_recursion, which   *)
(* takes the level back when the mutex is not recursive.                   *)
(***************************************************************************)
\* Fault: the level is not taken back.
KeepsLevel(t) ==
    /\ at[t] = "check"
    /\ IF owner = t
       THEN /\ depth' = depth + 1
            /\ LockReturns(t, IF kind \in Recursive THEN call[t].ok ELSE "thrd_error")
       ELSE /\ At(t, "acquire")
            /\ UNCHANGED <<depth, call, view>>
    /\ UNCHANGED <<vars, kind, shared, owner, saved, itemVars>>

Recurse(t) ==
    /\ at[t] = "check"
    /\ IF owner = t
       THEN IF kind \in Recursive
            THEN /\ depth' = depth + 1
                 /\ LockReturns(t, call[t].ok)
            ELSE /\ LockReturns(t, "thrd_error")
                 /\ UNCHANGED depth
       ELSE /\ At(t, "acquire")
            /\ UNCHANGED <<depth, call, view>>
    /\ UNCHANGED <<vars, kind, shared, owner, saved, itemVars>>

(***************************************************************************)
(* The lock below is taken, alone or with other readers, or the call fails *)
(* at its deadline, or because it is not willing to wait.                  *)
(***************************************************************************)
IsFree(on) == holders = {} \/ (on = "read" /\ shared)

Acquire(t) ==
    /\ at[t] = "acquire"
    /\ IsFree(call[t].on)
    /\ holders' = holders \cup {t}
    /\ shared' = (call[t].on = "read")
    /\ IF HasOwner
       THEN At(t, "own") /\ UNCHANGED <<call, view>>
       ELSE LockReturns(t, call[t].ok)
    /\ UNCHANGED <<pc, tmo, owed, nsleep, unlocked, err, kind, owner, depth, saved, itemVars>>

FailToAcquire(t) ==
    /\ at[t] = "acquire"
    /\ call[t].when # "forever"
    /\ call[t].when = "try" => holders # {}
    /\ LockReturns(t, call[t].fail)
    /\ UNCHANGED <<vars, lockVars, itemVars>>

(***************************************************************************)
(* The end of __MCF_gthr_rc_mutex_wait.                                    *)
(***************************************************************************)
Own(t) ==
    /\ at[t] = "own" /\ call[t].op = "lock"
    /\ owner' = t
    /\ depth' = 1
    /\ LockReturns(t, call[t].ok)
    /\ UNCHANGED <<vars, kind, shared, saved, itemVars>>

(***************************************************************************)
(* __MCF_gthr_rc_mutex_release: the owner is cleared before the mutex is   *)
(* unlocked.  The other locks are only unlocked.                           *)
(***************************************************************************)
CallUnlock(t, f) ==
    /\ f.op = "unlock"
    /\ MayCall(t, f)
    /\ view[t] > 0
    /\ view' = [view EXCEPT ![t] = @ - 1]
    /\ want' = [want EXCEPT ![t] = IF @ = "hungry" THEN "none" ELSE @]
    /\ depth' = IF HasOwner THEN depth - 1 ELSE depth
    /\ At(t, IF ~HasOwner THEN "give" ELSE IF depth = 1 THEN "disown" ELSE "out")
    /\ UNCHANGED <<vars, kind, shared, owner, saved, call, late, items, missed, made, atexit>>

\* Fault: the mutex is unlocked first.
GiveFirst(t) ==
    /\ at[t] = "disown"
    /\ IF t \in holders
       THEN /\ holders' = holders \ {t}
            /\ UNCHANGED <<owner, at>>
       ELSE /\ owner' = None
            /\ At(t, "out")
            /\ UNCHANGED holders
    /\ UNCHANGED <<pc, tmo, owed, nsleep, unlocked, err, kind, shared, depth, saved>>
    /\ UNCHANGED <<call, view, itemVars>>

Disown(t) ==
    /\ at[t] = "disown"
    /\ owner' = None
    /\ At(t, "give")
    /\ UNCHANGED <<vars, kind, shared, depth, saved, call, view, itemVars>>

Give(t) ==
    /\ at[t] = "give"
    /\ holders' = holders \ {t}
    /\ At(t, "out")
    /\ UNCHANGED <<pc, tmo, owed, nsleep, unlocked, err, lockVars, call, view, itemVars>>

-----------------------------------------------------------------------------
(* The condition variable *)

Waits(t, when) ==
    /\ CallWait(t)
    /\ tmo'[t] = IF when = "forever" THEN "inf" ELSE "abs"

CallCondWait(t, f) ==
    /\ f.op = "wait"
    /\ MayCall(t, f)
    /\ kind # "none" => view[t] > 0 /\ items = 0
    /\ kind = "rwlock" => (shared <=> f.on = "read")
    /\ Waits(t, f.when)
    /\ Calls(t, f, "wait")
    /\ want' = [want EXCEPT ![t] = "none"]
    /\ UNCHANGED <<lockVars, view, late, items, missed, made, atexit>>

(***************************************************************************)
(* __MCF_gthr_recursive_mutex_unlock_callback clears the owner and keeps   *)
(* the depth; then, and in the other callbacks, the lock is unlocked.      *)
(***************************************************************************)
SaveDepth(t) ==
    /\ pc[t] = "unlock" /\ owner = t
    /\ saved' = [saved EXCEPT ![t] = depth]
    /\ depth' = 0
    /\ owner' = None
    /\ UNCHANGED <<vars, kind, shared, callVars, itemVars>>

UnlockToWait(t) ==
    /\ owner # t
    /\ UnlockCallback(t)
    /\ UNCHANGED <<lockVars, callVars, itemVars>>

SleepStep(t) ==
    /\ LeaveCounted(t) \/ LeaveOwed(t) \/ WaitTimeout(t)
    /\ UNCHANGED <<lockVars, callVars, itemVars>>

Wake(w, r) ==
    /\ Wakeup(w, r)
    /\ UNCHANGED <<lockVars, callVars, itemVars>>

(***************************************************************************)
(* The relock callbacks.  A reader shares the lock again.                  *)
(***************************************************************************)
RelockAfterWait(t) ==
    /\ pc[t] = "relock" /\ IsFree(call[t].on)
    /\ Relock(t)
    /\ shared' = (call[t].on = "read")
    /\ At(t, IF HasOwner THEN "own" ELSE "end")
    /\ UNCHANGED <<kind, owner, depth, saved, call, view, itemVars>>

RestoreDepth(t) ==
    /\ at[t] = "own" /\ call[t].op = "wait"
    /\ owner' = t
    /\ depth' = saved[t]
    /\ At(t, "end")
    /\ UNCHANGED <<vars, kind, shared, saved, call, view, itemVars>>

(***************************************************************************)
(* The wait returns what Cond has; or it starts over: __wait_until with    *)
(* another clock does so when a round has timed out, unless the last one   *)
(* was not to wait, and it does not return to look for an item.            *)
(***************************************************************************)
EndsWait(t) ==
    \/ at[t] = "end"
    \/ at[t] = "wait" /\ pc[t] = "idle" /\ kind = "none"

NextRound(t) ==
    /\ EndsWait(t)
    /\ call[t].when = "until" /\ err[t] = -1
    /\ Waits(t, "until")
    /\ At(t, "wait")
    /\ late' = late \cup {t}
    /\ missed' = (missed \/ items > 0)
    /\ UNCHANGED <<lockVars, call, view, want, items, made, atexit>>

WaitReturns(t) ==
    /\ EndsWait(t)
    /\ call[t].when = "until" /\ err[t] = -1 => t \in late
    /\ At(t, "out")
    /\ call' = [call EXCEPT ![t] = mcf_sleep]
    /\ want' = [want EXCEPT ![t] = IF kind # "none" /\ err[t] = 0 THEN "hungry" ELSE "none"]
    /\ late' = late \ {t}
    /\ UNCHANGED <<vars, lockVars, view, items, missed, made, atexit>>

(***************************************************************************)
(* _MCF_cond_signal and _MCF_cond_signal_all, whose limit is above any     *)
(* number of threads.                                                      *)
(***************************************************************************)
Limit(who) == IF who = "all" THEN Cardinality(Thread) + 1 ELSE 1

Signals(t, who) == IF nsleep = 0 THEN UNCHANGED vars ELSE Signal(t, Limit(who))

CallNotify(t, f) ==
    /\ f.op = "notify"
    /\ MayCall(t, f)
    /\ Signals(t, f.when)
    /\ want' = [want EXCEPT ![t] = "none"]
    /\ UNCHANGED <<lockVars, callVars, late, items, missed, made, atexit>>

-----------------------------------------------------------------------------
(* The program *)

MayTouch(t) == pc[t] = "idle" /\ at[t] = "out" /\ view[t] > 0

Put(t) ==
    /\ MayTouch(t) /\ ~shared
    /\ made < MaxItems
    /\ want[t] # "due"
    /\ want[t] = "hungry" => items = 0
    /\ items' = items + 1
    /\ made' = made + 1
    /\ want' = [want EXCEPT ![t] = "due"]
    /\ UNCHANGED <<vars, lockVars, callVars, late, missed, atexit>>

Take(t) ==
    /\ MayTouch(t)
    /\ items > 0
    /\ items' = items - 1
    /\ missed' = (missed /\ items > 1)
    /\ want' = [want EXCEPT ![t] = IF @ = "due" THEN @ ELSE "none"]
    /\ UNCHANGED <<vars, lockVars, callVars, late, made, atexit>>

(***************************************************************************)
(* notify_all_at_thread_exit, which is the last that the thread calls.     *)
(* Space for two callbacks is reserved with the first that is pushed, so   *)
(* that the second does not fail; nothing has changed when there is none.  *)
(***************************************************************************)
NotifyAtExit(t) ==
    /\ kind = "mutex"
    /\ MayTouch(t)
    /\ want[t] = "hungry" => items = 0
    /\ atexit' = [atexit EXCEPT ![t] = <<"signal_all", "unlock">>]
    /\ At(t, "exit")
    /\ view' = [view EXCEPT ![t] = 0]
    /\ want' = [want EXCEPT ![t] = "none"]
    /\ UNCHANGED <<vars, lockVars, call, late, items, missed, made>>

(***************************************************************************)
(* The callbacks are run, the last one first.                              *)
(***************************************************************************)
RunAtExit(t) ==
    /\ at[t] = "exit" /\ pc[t] = "idle"
    /\ atexit[t] # <<>>
    /\ IF Last(atexit[t]) = "unlock"
       THEN /\ holders' = holders \ {t}
            /\ UNCHANGED <<pc, tmo, owed, nsleep, unlocked, err>>
       ELSE Signals(t, "all")
    /\ atexit' = [atexit EXCEPT ![t] = Front(@)]
    /\ UNCHANGED <<lockVars, callVars, want, late, items, missed, made>>

-----------------------------------------------------------------------------
Callback(t) == SaveDepth(t) \/ UnlockToWait(t) \/ SleepStep(t)

ANext ==
    \/ \E t \in Thread :
         \/ \E f \in Functions :
              CallLock(t, f) \/ CallUnlock(t, f) \/ CallCondWait(t, f) \/ CallNotify(t, f)
         \/ Recurse(t) \/ Acquire(t) \/ FailToAcquire(t) \/ Own(t)
         \/ Disown(t) \/ Give(t)
         \/ Callback(t)
         \/ RelockAfterWait(t) \/ RestoreDepth(t) \/ NextRound(t) \/ WaitReturns(t)
         \/ Put(t) \/ Take(t)
         \/ NotifyAtExit(t) \/ RunAtExit(t)
    \/ \E w, r \in Thread : Wake(w, r)

ASpec == AInit /\ [][ANext]_avars

-----------------------------------------------------------------------------
TypeOK ==
    /\ CondTypeOK
    /\ kind \in Kinds
    /\ shared \in BOOLEAN
    /\ owner \in Thread \cup {None}
    /\ depth \in Nat
    /\ saved \in [Thread -> Nat]
    /\ at \in [Thread -> {"out", "check", "acquire", "own", "disown", "give", "wait", "end", "exit"}]
    /\ call \in [Thread -> Functions]
    /\ view \in [Thread -> Nat]
    /\ want \in [Thread -> {"none", "due", "hungry"}]
    /\ late \in SUBSET Thread
    /\ items \in Nat /\ made \in 0 .. MaxItems
    /\ missed \in BOOLEAN
    /\ atexit \in [Thread -> Seq({"signal_all", "unlock"})]

(***************************************************************************)
(* What a program concludes from the results of its calls is true: it has  *)
(* the lock when it thinks so, as many times as it thinks, also after a    *)
(* wait that has given up all levels at once; and a thread that has ended  *)
(* has nothing.  The code keeps no such count: it has the mutex, an owner  *)
(* and a depth, which are changed one after the other.                     *)
(***************************************************************************)
ClientViewIsTrue ==
    \A t \in Thread :
        /\ at[t] = "out" =>
              /\ t \in holders <=> view[t] > 0
              /\ HasOwner => (owner = t <=> view[t] > 0)
              /\ HasOwner /\ view[t] > 0 => depth = view[t]
        /\ at[t] = "exit" /\ atexit[t] = <<>> => t \notin holders

(***************************************************************************)
(* The owner of a recursive mutex has locked it: nobody finds himself to   *)
(* be the owner by a value that is left from before, and nobody's own      *)
(* value is overwritten, although it is read and written with no lock.     *)
(***************************************************************************)
OwnerIsHolder ==
    /\ owner # None => holders = {owner}
    /\ HasOwner /\ owner = None => depth = 0

(***************************************************************************)
(* Who has been woken by a release and has not returned from its wait.     *)
(***************************************************************************)
Woken ==
    {t \in Thread : /\ at[t] \in {"wait", "own", "end"} /\ call[t].op = "wait"
                    /\ pc[t] \in {"idle", "relock"} /\ err[t] = 0}

(***************************************************************************)
(* No item is forgotten: while there are items and threads asleep, a       *)
(* signal is due or under way, or a thread is awake to take one.  This is  *)
(* what a wait promises by joining the count before it unlocks, and by not *)
(* leaving with a timeout when it has been signaled.  It is not promised   *)
(* once a wait with another clock has begun a round while there were       *)
(* items: such a wait may take the signal that was for another thread,     *)
(* which then sleeps on although a second item is there.                   *)
(***************************************************************************)
NoItemForgotten ==
    items > 0 /\ ~missed /\ Asleep # {} =>
        \E t \in Thread :
            \/ owed[t] > 0
            \/ want[t] \in {"due", "hungry"}
            \/ t \in Woken
            \/ "signal_all" \in Range(atexit[t])
=============================================================================
