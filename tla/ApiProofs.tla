----------------------------- MODULE ApiProofs ------------------------------
(***************************************************************************)
(* Proofs about the clients of a lock and a condition variable, for any    *)
(* finite set of threads, every kind of lock, and any depth of recursion   *)
(* and number of items.                                                    *)
(***************************************************************************)
EXTENDS Api, FiniteSetTheorems, TLAPS

(***************************************************************************)
(* Where a thread may be in the condition variable, by its place in a      *)
(* call, and what is told of it by the fields of Cond.                     *)
(***************************************************************************)
WaitPC == {"unlock", "wait", "leave", "poll", "relock"}

Placed(t) ==
    /\ pc[t] \in WaitPC => at[t] = "wait"
    /\ pc[t] = "release" => at[t] \in {"out", "exit"}
    /\ pc[t] = "release" <=> owed[t] > 0
    /\ at[t] = "wait" => (pc[t] = "idle" => kind = "none")
    /\ pc[t] \in {"unlock", "relock"} => kind # "none"
    /\ t \in unlocked <=> pc[t] \in {"wait", "leave", "poll", "relock"} /\ kind # "none"

(***************************************************************************)
(* Which function a thread is in, and what is left of the callbacks at its *)
(* exit.                                                                   *)
(***************************************************************************)
Calling(t) ==
    /\ at[t] \in {"check", "acquire"} => call[t].op = "lock"
    /\ at[t] \in {"wait", "end"} => call[t].op = "wait"
    /\ at[t] = "own" => call[t].op \in {"lock", "wait"}
    /\ at[t] \in {"check", "acquire", "own", "wait", "end"} => Fits(call[t])
    /\ at[t] \in {"check", "own", "disown"} => HasOwner
    /\ at[t] = "exit" => kind = "mutex"
    /\ kind = "none" => at[t] \in {"out", "wait"}

Exiting(t) ==
    /\ at[t] # "exit" => atexit[t] = <<>>
    /\ atexit[t] \in {<<>>, <<"signal_all">>, <<"signal_all", "unlock">>}

(***************************************************************************)
(* Who has the lock, and how many times he thinks that he has it.          *)
(***************************************************************************)
Has(t) ==
    \/ at[t] \in {"out", "check"} /\ view[t] > 0
    \/ at[t] \in {"own", "disown", "give", "end"}
    \/ pc[t] = "unlock"
    \/ at[t] = "exit" /\ atexit[t] = <<"signal_all", "unlock">>

Held(t) == t \in holders <=> Has(t)

Viewed(t) ==
    /\ at[t] \in {"acquire", "disown", "give", "exit"} => view[t] = 0
    /\ at[t] = "own" => (view[t] > 0 <=> call[t].op = "wait")
    /\ at[t] = "end" => view[t] > 0
    /\ at[t] = "wait" => (view[t] > 0 <=> kind # "none")
    /\ kind = "none" => view[t] = 0
    /\ ~HasOwner => view[t] <= 1

(***************************************************************************)
(* Who has a recursive mutex is its owner, but on the way to and from      *)
(* that; and while he waits, his depth is saved.                           *)
(***************************************************************************)
IsOwner(t) ==
    \/ at[t] \in {"out", "check"} /\ view[t] > 0
    \/ at[t] \in {"disown", "end"}

Owned(t) ==
    /\ HasOwner /\ IsOwner(t) => owner = t
    /\ owner = t => IsOwner(t) \/ pc[t] = "unlock"
    /\ owner = t => depth = view[t]
    /\ HasOwner /\ at[t] \in {"own", "wait"} /\ call[t].op = "wait" /\ owner # t =>
          saved[t] = view[t]

ThreadInv(t) ==
    Placed(t) /\ Calling(t) /\ Exiting(t) /\ Held(t) /\ Viewed(t) /\ Owned(t)

(***************************************************************************)
(* Only readers share the lock.                                            *)
(***************************************************************************)
Exclusive ==
    /\ ~shared => \A t, u \in holders : t = u
    /\ shared => kind = "rwlock"

OneOwner ==
    /\ owner # None => HasOwner
    /\ HasOwner /\ owner = None => depth = 0

LockInv == TypeOK /\ (\A t \in Thread : ThreadInv(t)) /\ Exclusive /\ OneOwner

(***************************************************************************)
(* Who joins the count of the condition variable has seen that there are   *)
(* no items, and nobody puts one before he unlocks.                        *)
(***************************************************************************)
SeenNone ==
    /\ kind = "none" => items = 0
    /\ (\E t \in Thread : pc[t] = "unlock") => items = 0 \/ missed

(***************************************************************************)
(* Who wants what: nobody in a call that takes or waits.                   *)
(***************************************************************************)
Wants(t) ==
    /\ want[t] = "hungry" => at[t] = "out"
    /\ want[t] = "due" => at[t] \in {"out", "disown", "give"}
    /\ pc[t] = "release" => want[t] = "none"

Wanting == \A t \in Thread : Wants(t)

(***************************************************************************)
(* There are as many who are about to act as there are items: releases     *)
(* that are owed, threads that go to take an item, and signals that are    *)
(* due.  Or else there are as many to be woken as there are threads        *)
(* asleep.                                                                 *)
(***************************************************************************)
Takers == Woken \cup {t \in Thread : want[t] = "hungry"}

Due == {t \in Thread : want[t] = "due"}

SignalsAll == \E t \in Thread : atexit[t] # <<>>

Enough ==
    \/ missed \/ SignalsAll
    \/ items <= Cardinality(SQ!Debts) + Cardinality(Takers) + Cardinality(Due)
    \/ Cardinality(Asleep) <= Cardinality(SQ!Debts) + Cardinality(Due)

ItemInv == SeenNone /\ Wanting /\ Enough

-----------------------------------------------------------------------------
(* The functions *)

(***************************************************************************)
(* What all functions have in common: none that locks takes no lock, and   *)
(* who is told of success can tell it from failure.                        *)
(***************************************************************************)
LockOn == {"mutex", "rc", "read", "write", "mtx"}

Sound(f) ==
    /\ f.op \in {"lock", "unlock", "wait", "notify"}
    /\ f.op = "lock" => f.on \in LockOn /\ Succeeds(f.ok)
    /\ f.op = "lock" /\ f.when # "forever" => ~Succeeds(f.fail)
    /\ f.op = "wait" => f.on \in LockOn \cup {"none"}

LEMMA SoundLock ==
    ASSUME NEW on \in LockOn, NEW when, NEW ok, NEW fail, Succeeds(ok),
           when = "forever" \/ ~Succeeds(fail)
    PROVE  Sound(Lock(on, when, ok, fail))
BY DEF Sound, Lock

LEMMA SoundUnlock == ASSUME NEW on, NEW ok PROVE Sound(Unlock(on, ok))
BY DEF Sound, Unlock

LEMMA SoundWait ==
    ASSUME NEW on \in LockOn \cup {"none"}, NEW when, NEW ok, NEW fail
    PROVE  Sound(Wait(on, when, ok, fail))
BY DEF Sound, Wait

LEMMA SoundNotify == ASSUME NEW all, NEW ok PROVE Sound(Notify(all, ok))
BY DEF Sound, Notify

LEMMA Codes ==
    /\ Succeeds("0") /\ Succeeds("true") /\ Succeeds("thrd_success")
    /\ ~Succeeds("EBUSY") /\ ~Succeeds("ETIMEDOUT") /\ ~Succeeds("-1") /\ ~Succeeds("false")
    /\ ~Succeeds("thrd_busy") /\ ~Succeeds("thrd_timedout") /\ ~Succeeds("thrd_error")
BY DEF Succeeds

LEMMA FunctionsAreSound == \A f \in Functions : Sound(f)
<1> SUFFICES ASSUME NEW f \in Functions PROVE Sound(f)
  OBVIOUS
<1> USE SoundLock, SoundUnlock, SoundWait, SoundNotify, Codes DEF LockOn
<1>1. ASSUME f \in cxx_mutex PROVE Sound(f)
  BY <1>1 DEF cxx_mutex
<1>2. ASSUME f \in cxx_shared_mutex PROVE Sound(f)
  BY <1>2 DEF cxx_shared_mutex
<1>3. ASSUME f \in cxx_recursive_mutex PROVE Sound(f)
  BY <1>3 DEF cxx_recursive_mutex
<1>4. ASSUME f \in cxx_condition_variable PROVE Sound(f)
  BY <1>4 DEF cxx_condition_variable
<1>5. /\ Sound(gthr_mutex_lock) /\ Sound(gthr_mutex_trylock) /\ Sound(gthr_mutex_timedlock)
      /\ Sound(gthr_mutex_unlock) /\ Sound(gthr_recursive_mutex_lock)
      /\ Sound(gthr_recursive_mutex_trylock) /\ Sound(gthr_recursive_mutex_timedlock)
      /\ Sound(gthr_recursive_mutex_unlock) /\ Sound(gthr_rwlock_rdlock)
      /\ Sound(gthr_rwlock_tryrdlock) /\ Sound(gthr_rwlock_timedrdlock)
      /\ Sound(gthr_rwlock_wrlock) /\ Sound(gthr_rwlock_trywrlock)
      /\ Sound(gthr_rwlock_timedwrlock) /\ Sound(gthr_rwlock_unlock)
  BY DEF gthr_mutex_lock, gthr_mutex_trylock, gthr_mutex_timedlock, gthr_mutex_unlock,
         gthr_recursive_mutex_lock, gthr_recursive_mutex_trylock,
         gthr_recursive_mutex_timedlock, gthr_recursive_mutex_unlock, gthr_rwlock_rdlock,
         gthr_rwlock_tryrdlock, gthr_rwlock_timedrdlock, gthr_rwlock_wrlock,
         gthr_rwlock_trywrlock, gthr_rwlock_timedwrlock, gthr_rwlock_unlock
<1>6. /\ Sound(gthr_cond_wait) /\ Sound(gthr_cond_wait_recursive) /\ Sound(gthr_cond_timedwait)
      /\ Sound(gthr_cond_shared_mutex_wait_shared) /\ Sound(gthr_cond_shared_mutex_wait_exclusive)
      /\ Sound(gthr_cond_signal) /\ Sound(gthr_cond_broadcast)
      /\ Sound(objc_mutex_lock) /\ Sound(objc_mutex_trylock) /\ Sound(objc_mutex_unlock)
      /\ Sound(objc_condition_wait) /\ Sound(objc_condition_signal)
      /\ Sound(objc_condition_broadcast) /\ Sound(mcf_sleep)
  BY DEF gthr_cond_wait, gthr_cond_wait_recursive, gthr_cond_timedwait,
         gthr_cond_shared_mutex_wait_shared, gthr_cond_shared_mutex_wait_exclusive,
         gthr_cond_signal, gthr_cond_broadcast, objc_mutex_lock, objc_mutex_trylock,
         objc_mutex_unlock, objc_condition_wait, objc_condition_signal,
         objc_condition_broadcast, mcf_sleep
<1>7. /\ Sound(libcxx_mutex_lock) /\ Sound(libcxx_mutex_trylock) /\ Sound(libcxx_mutex_unlock)
      /\ Sound(libcxx_recursive_mutex_lock) /\ Sound(libcxx_recursive_mutex_trylock)
      /\ Sound(libcxx_recursive_mutex_unlock) /\ Sound(libcxx_condvar_wait)
      /\ Sound(libcxx_condvar_timedwait) /\ Sound(libcxx_condvar_signal)
      /\ Sound(libcxx_condvar_broadcast)
  BY DEF libcxx_mutex_lock, libcxx_mutex_trylock, libcxx_mutex_unlock,
         libcxx_recursive_mutex_lock, libcxx_recursive_mutex_trylock,
         libcxx_recursive_mutex_unlock, libcxx_condvar_wait, libcxx_condvar_timedwait,
         libcxx_condvar_signal, libcxx_condvar_broadcast
<1>8. /\ Sound(mtx_lock) /\ Sound(mtx_timedlock) /\ Sound(mtx_trylock) /\ Sound(mtx_unlock)
      /\ Sound(cnd_wait) /\ Sound(cnd_timedwait) /\ Sound(cnd_signal) /\ Sound(cnd_broadcast)
  BY DEF mtx_lock, mtx_timedlock, mtx_trylock, mtx_unlock, cnd_wait, cnd_timedwait,
         cnd_signal, cnd_broadcast
<1> QED
  BY ONLY f \in Functions, <1>1, <1>2, <1>3, <1>4, <1>5, <1>6, <1>7, <1>8 DEF Functions

LEMMA SleepIsWait ==
    /\ mcf_sleep \in Functions
    /\ mcf_sleep.op = "wait" /\ mcf_sleep.on = "none"
BY DEF Functions, mcf_sleep, Wait

(***************************************************************************)
(* What a function that fits the lock may be.                              *)
(***************************************************************************)
LEMMA FittingFunctions ==
    ASSUME kind \in Kinds, NEW f \in Functions, Fits(f)
    PROVE  /\ f.op \in {"lock", "wait"} /\ f.on = "read" => kind = "rwlock"
           /\ f.op = "lock" => kind # "none"
BY FunctionsAreSound, KindsAssumption DEF Fits, Sound, LockOn, MtxType

-----------------------------------------------------------------------------
(* The lock *)

(***************************************************************************)
(* What a step of another thread leaves alone: where u is, and what it has *)
(* of the lock.                                                            *)
(***************************************************************************)
Stays(u) ==
    /\ pc'[u] = pc[u] /\ owed'[u] = owed[u] /\ at'[u] = at[u] /\ call'[u] = call[u]
    /\ view'[u] = view[u] /\ saved'[u] = saved[u] /\ atexit'[u] = atexit[u]
    /\ u \in holders' <=> u \in holders
    /\ u \in unlocked' <=> u \in unlocked
    /\ owner' = u <=> owner = u
    /\ owner = u => depth' = depth

OthersStay(t) == kind' = kind /\ \A u \in Thread \ {t} : Stays(u)

LEMMA StaysKeepsInv ==
    ASSUME NEW u \in Thread, ThreadInv(u), kind' = kind, Stays(u)
    PROVE  ThreadInv(u)'
<1> USE DEF ThreadInv, Stays
<1>1. Placed(u)'
  BY DEF Placed
<1>2. Calling(u)' /\ Exiting(u)'
  BY DEF Calling, Exiting, Fits, HasOwner
<1>3. Held(u)' /\ Viewed(u)'
  BY DEF Held, Has, Viewed, HasOwner
<1>4. Owned(u)'
  BY DEF Owned, IsOwner, HasOwner
<1> QED
  BY <1>1, <1>2, <1>3, <1>4

LEMMA OthersKeepInv ==
    ASSUME \A u \in Thread : ThreadInv(u), NEW t \in Thread, OthersStay(t), ThreadInv(t)'
    PROVE  \A u \in Thread : ThreadInv(u)'
BY StaysKeepsInv DEF OthersStay

(***************************************************************************)
(* What a step does to the place of a thread and to what it is told.       *)
(***************************************************************************)
LEMMA Returned ==
    ASSUME TypeOK, NEW t \in Thread, NEW code, LockReturns(t, code)
    PROVE  /\ at' \in [Thread -> {"out", "check", "acquire", "own", "disown", "give", "wait", "end", "exit"}]
           /\ call' \in [Thread -> Functions] /\ view' \in [Thread -> Nat]
           /\ at'[t] = "out" /\ call'[t] = mcf_sleep
           /\ view'[t] = IF Succeeds(code) THEN view[t] + 1 ELSE view[t]
           /\ \A u \in Thread \ {t} : at'[u] = at[u] /\ call'[u] = call[u] /\ view'[u] = view[u]
<1> USE DEF TypeOK, LockReturns, At
<1>1. at' \in [Thread -> {"out", "check", "acquire", "own", "disown", "give", "wait", "end", "exit"}]
  OBVIOUS
<1>2. call' \in [Thread -> Functions]
  BY SleepIsWait
<1>3. view' = [view EXCEPT ![t] = IF Succeeds(code) THEN view[t] + 1 ELSE view[t]]
  OBVIOUS
<1>4. (IF Succeeds(code) THEN view[t] + 1 ELSE view[t]) \in Nat
  OBVIOUS
<1> HIDE DEF LockReturns
<1>5. view' \in [Thread -> Nat]
  BY <1>3, <1>4
<1>6. \A u \in Thread \ {t} : at'[u] = at[u] /\ call'[u] = call[u] /\ view'[u] = view[u]
  BY <1>3 DEF LockReturns
<1> QED
  BY <1>1, <1>2, <1>3, <1>5, <1>6 DEF LockReturns

LEMMA LockCallLock ==
    ASSUME LockInv, NEW t \in Thread, NEW f \in Functions, CallLock(t, f)
    PROVE  LockInv'
<1> USE DEF LockInv
<1> DEFINE to == IF HasOwner THEN "check" ELSE "acquire"
<1>1. /\ pc[t] = "idle" /\ at[t] = "out" /\ f.op = "lock" /\ Fits(f)
      /\ pc' = pc /\ unlocked' = unlocked /\ owed' = owed /\ kind' = kind /\ saved' = saved
      /\ holders' = holders /\ owner' = owner /\ depth' = depth /\ atexit' = atexit
      /\ view[t] > 0 => HasOwner
  BY DEF CallLock, MayCall, vars, lockVars, TypeOK, HasOwner, Recursive, MtxType
<1>2. \/ LockReturns(t, "thrd_error")
      \/ /\ call' \in [Thread -> Functions] /\ view' = view
         /\ at'[t] = to /\ call'[t] = f
         /\ \A u \in Thread \ {t} : at'[u] = at[u] /\ call'[u] = call[u]
  BY DEF CallLock, Calls, At, TypeOK
<1>3. TypeOK'
  <2>1. at' \in [Thread -> {"out", "check", "acquire", "own", "disown", "give", "wait", "end", "exit"}]
    BY DEF CallLock, Calls, LockReturns, At, TypeOK
  <2>2. call' \in [Thread -> Functions] /\ view' \in [Thread -> Nat]
    BY <1>2, Returned DEF TypeOK
  <2> QED
    BY <2>1, <2>2 DEF TypeOK, CondTypeOK, CallLock, vars, lockVars
<1>4. OthersStay(t)
  BY <1>1, <1>2, Returned DEF OthersStay, Stays
<1>5. ThreadInv(t)'
  <2>1. ThreadInv(t) /\ (HasOwner' <=> HasOwner)
    BY <1>1 DEF HasOwner
  <2>2. CASE LockReturns(t, "thrd_error")
    <3>1. at'[t] = at[t] /\ view'[t] = view[t]
      BY <1>1, <2>2, Returned, Codes
    <3> QED
      BY <1>1, <2>1, <3>1 DEF ThreadInv, Placed, Calling, Exiting, Held, Has, Viewed, Owned, IsOwner
  <2>3. CASE ~LockReturns(t, "thrd_error")
    <3>1. at'[t] = to /\ call'[t] = f /\ view'[t] = view[t]
      BY <1>2, <2>3
    <3>2. kind # "none"
      BY <1>1, FittingFunctions DEF TypeOK
    <3>3. Placed(t)' /\ Calling(t)' /\ Exiting(t)'
      BY <1>1, <2>1, <3>1, <3>2 DEF ThreadInv, Placed, Calling, Exiting, Fits, WaitPC
    <3>4. Held(t)' /\ Viewed(t)' /\ Owned(t)'
      BY <1>1, <2>1, <3>1, <3>2 DEF ThreadInv, Held, Has, Viewed, Owned, IsOwner, Placed, WaitPC, TypeOK
    <3> QED
      BY <3>3, <3>4 DEF ThreadInv
  <2> QED
    BY <2>2, <2>3
<1>6. Exclusive' /\ OneOwner'
  BY DEF Exclusive, OneOwner, HasOwner, CallLock, vars, lockVars
<1> QED
  BY <1>3, <1>4, <1>5, <1>6, OthersKeepInv

(***************************************************************************)
(* A thread in a call on the lock is not in the condition variable.        *)
(***************************************************************************)
LEMMA InCall ==
    ASSUME LockInv, NEW t \in Thread
    PROVE  /\ pc[t] \in PC /\ call[t] \in Functions /\ view[t] \in Nat /\ depth \in Nat
           /\ saved[t] \in Nat
           /\ ThreadInv(t)
           /\ at[t] \in {"check", "acquire", "own", "disown", "give", "end"} =>
                 pc[t] = "idle" /\ kind # "none"
<1>1. /\ pc[t] \in PC /\ call[t] \in Functions /\ view[t] \in Nat /\ depth \in Nat
      /\ saved[t] \in Nat /\ ThreadInv(t)
  BY DEF LockInv, TypeOK, CondTypeOK
<1>2. ASSUME at[t] \in {"check", "acquire", "own", "disown", "give", "end"}
      PROVE  pc[t] = "idle" /\ kind # "none"
  BY <1>1, <1>2 DEF ThreadInv, Placed, Calling, PC, KernelPC, WaitPC
<1> QED
  BY <1>1, <1>2

LEMMA LockRecurse ==
    ASSUME LockInv, NEW t \in Thread, Recurse(t)
    PROVE  LockInv'
<1> USE DEF LockInv
<1>1. /\ at[t] = "check" /\ call[t] \in Functions /\ call[t].op = "lock"
      /\ pc' = pc /\ unlocked' = unlocked /\ owed' = owed /\ kind' = kind /\ saved' = saved
      /\ holders' = holders /\ owner' = owner /\ atexit' = atexit
      /\ HasOwner /\ HasOwner' /\ ThreadInv(t) /\ kind # "none" /\ pc[t] = "idle"
      /\ view[t] \in Nat /\ depth \in Nat /\ pc[t] # "unlock"
  <2>1. /\ at[t] = "check" /\ pc' = pc /\ unlocked' = unlocked /\ owed' = owed /\ kind' = kind
        /\ saved' = saved /\ holders' = holders /\ owner' = owner /\ atexit' = atexit
    BY DEF Recurse, vars, itemVars
  <2>2. HasOwner /\ call[t].op = "lock"
    BY <2>1, InCall DEF ThreadInv, Calling
  <2> QED
    BY <2>1, <2>2, InCall DEF HasOwner
<1>2. \/ /\ owner = t /\ LockReturns(t, call[t].ok) /\ depth' = depth + 1
      \/ /\ owner = t /\ LockReturns(t, "thrd_error") /\ depth' = depth
      \/ /\ owner # t /\ At(t, "acquire") /\ depth' = depth /\ call' = call /\ view' = view
  BY DEF Recurse
<1>3. /\ at' \in [Thread -> {"out", "check", "acquire", "own", "disown", "give", "wait", "end", "exit"}]
      /\ call' \in [Thread -> Functions] /\ view' \in [Thread -> Nat]
      /\ \A u \in Thread \ {t} : at'[u] = at[u] /\ call'[u] = call[u] /\ view'[u] = view[u]
  BY <1>2, Returned DEF At, TypeOK
<1>4. TypeOK'
  <2>1. depth' \in Nat
    BY <1>1, <1>2
  <2> QED
    BY <1>3, <2>1 DEF TypeOK, CondTypeOK, Recurse, vars, itemVars
<1>5. OthersStay(t)
  BY <1>1, <1>2, <1>3 DEF OthersStay, Stays
<1>6. ThreadInv(t)'
  <2>1. CASE owner = t
    <3>1. view[t] > 0 /\ depth = view[t]
      BY <1>1, <2>1 DEF ThreadInv, Owned, IsOwner
    <3>2. at'[t] = "out" /\ view'[t] > 0 /\ depth' = view'[t]
      BY <1>1, <1>2, <2>1, <3>1, Returned, Codes, FunctionsAreSound DEF Sound
    <3> QED
      BY <1>1, <2>1, <3>2 DEF ThreadInv, Placed, Calling, Exiting, Held, Has, Viewed, Owned, IsOwner, WaitPC
  <2>2. CASE owner # t
    <3>1. at'[t] = "acquire" /\ call'[t] = call[t] /\ view'[t] = view[t]
      BY <1>2, <2>2 DEF At, TypeOK
    <3>2. view[t] = 0
      BY <1>1, <2>2 DEF ThreadInv, Owned, IsOwner
    <3>3. Placed(t)' /\ Calling(t)' /\ Exiting(t)'
      BY <1>1, <3>1 DEF ThreadInv, Placed, Calling, Exiting, Fits, WaitPC
    <3>4. Held(t)' /\ Viewed(t)' /\ Owned(t)'
      BY <1>1, <2>2, <3>1, <3>2 DEF ThreadInv, Held, Has, Viewed, Owned, IsOwner, WaitPC
    <3> QED
      BY <3>3, <3>4 DEF ThreadInv
  <2> QED
    BY <2>1, <2>2
<1>7. Exclusive' /\ OneOwner'
  BY <1>1, <1>2, NoneAssumption DEF Exclusive, OneOwner, Recurse
<1> QED
  BY <1>4, <1>5, <1>6, <1>7, OthersKeepInv

(***************************************************************************)
(* A thread that finds the lock free has it afterwards, alone or with      *)
(* other readers.                                                          *)
(***************************************************************************)
LEMMA FreeIsExclusive ==
    ASSUME LockInv, NEW t \in Thread, NEW on, IsFree(on), on = "read" => kind = "rwlock",
           kind' = kind, holders' = holders \cup {t}, shared' = (on = "read")
    PROVE  Exclusive'
<1>1. CASE on = "read"
  BY <1>1 DEF Exclusive
<1>2. CASE on # "read"
  BY <1>2 DEF Exclusive, IsFree
<1> QED
  BY <1>1, <1>2

LEMMA LockAcquire ==
    ASSUME LockInv, NEW t \in Thread, Acquire(t)
    PROVE  LockInv'
<1> USE DEF LockInv
<1> DEFINE on == call[t].on
<1>1. /\ at[t] = "acquire" /\ call[t] \in Functions /\ call[t].op = "lock" /\ Fits(call[t])
      /\ pc' = pc /\ unlocked' = unlocked /\ owed' = owed /\ kind' = kind /\ saved' = saved
      /\ owner' = owner /\ atexit' = atexit /\ depth' = depth
      /\ ThreadInv(t) /\ kind # "none" /\ pc[t] = "idle" /\ view[t] = 0 /\ owner # t
      /\ holders' = holders \cup {t} /\ (HasOwner' <=> HasOwner)
  <2>1. /\ at[t] = "acquire" /\ pc' = pc /\ unlocked' = unlocked /\ owed' = owed /\ kind' = kind
        /\ saved' = saved /\ owner' = owner /\ atexit' = atexit /\ depth' = depth
        /\ holders' = holders \cup {t}
    BY DEF Acquire, itemVars
  <2>2. call[t].op = "lock" /\ Fits(call[t]) /\ view[t] = 0
    BY <2>1, InCall DEF ThreadInv, Calling, Viewed
  <2>3. owner # t
    BY <2>1, InCall DEF ThreadInv, Owned, IsOwner
  <2> QED
    BY <2>1, <2>2, <2>3, InCall DEF HasOwner
<1>2. \/ ~HasOwner /\ LockReturns(t, call[t].ok)
      \/ HasOwner /\ At(t, "own") /\ call' = call /\ view' = view
  BY DEF Acquire
<1>3. /\ at' \in [Thread -> {"out", "check", "acquire", "own", "disown", "give", "wait", "end", "exit"}]
      /\ call' \in [Thread -> Functions] /\ view' \in [Thread -> Nat]
      /\ \A u \in Thread \ {t} : at'[u] = at[u] /\ call'[u] = call[u] /\ view'[u] = view[u]
  BY <1>2, Returned DEF At, TypeOK
<1>4. TypeOK'
  <2>1. shared' \in BOOLEAN
    BY DEF Acquire
  <2> QED
    BY <1>3, <2>1 DEF TypeOK, CondTypeOK, Acquire, itemVars
<1>5. OthersStay(t)
  BY <1>1, <1>3 DEF OthersStay, Stays
<1>6. ThreadInv(t)'
  <2>1. CASE ~HasOwner
    <3>1. at'[t] = "out" /\ view'[t] = 1
      BY <1>1, <1>2, <2>1, Returned, FunctionsAreSound DEF Sound
    <3> QED
      BY <1>1, <2>1, <3>1 DEF ThreadInv, Placed, Calling, Exiting, Held, Has, Viewed, Owned, IsOwner, WaitPC
  <2>2. CASE HasOwner
    <3>1. at'[t] = "own" /\ call'[t] = call[t] /\ view'[t] = view[t]
      BY <1>2, <2>2 DEF At, TypeOK
    <3>3. Placed(t)' /\ Calling(t)' /\ Exiting(t)'
      BY <1>1, <2>2, <3>1 DEF ThreadInv, Placed, Calling, Exiting, Fits, WaitPC
    <3>4. Held(t)' /\ Viewed(t)' /\ Owned(t)'
      BY <1>1, <2>2, <3>1 DEF ThreadInv, Held, Has, Viewed, Owned, IsOwner, WaitPC
    <3> QED
      BY <3>3, <3>4 DEF ThreadInv
  <2> QED
    BY <2>1, <2>2
<1>7. Exclusive'
  BY <1>1, FreeIsExclusive, FittingFunctions DEF Acquire, TypeOK
<1>8. OneOwner'
  BY <1>1 DEF OneOwner
<1> QED
  BY <1>4, <1>5, <1>6, <1>7, <1>8, OthersKeepInv

LEMMA LockFailToAcquire ==
    ASSUME LockInv, NEW t \in Thread, FailToAcquire(t)
    PROVE  LockInv'
<1> USE DEF LockInv
<1>1. /\ at[t] = "acquire" /\ call[t] \in Functions /\ call[t].op = "lock"
      /\ call[t].when # "forever" /\ LockReturns(t, call[t].fail)
      /\ pc' = pc /\ unlocked' = unlocked /\ owed' = owed /\ kind' = kind /\ saved' = saved
      /\ owner' = owner /\ atexit' = atexit /\ depth' = depth /\ holders' = holders
      /\ ThreadInv(t) /\ kind # "none" /\ pc[t] = "idle" /\ view[t] = 0
      /\ (HasOwner' <=> HasOwner)
  <2>1. /\ at[t] = "acquire" /\ call[t].when # "forever" /\ LockReturns(t, call[t].fail)
        /\ pc' = pc /\ unlocked' = unlocked /\ owed' = owed /\ kind' = kind /\ saved' = saved
        /\ owner' = owner /\ atexit' = atexit /\ depth' = depth /\ holders' = holders
    BY DEF FailToAcquire, vars, lockVars, itemVars
  <2>2. call[t].op = "lock" /\ view[t] = 0
    BY <2>1, InCall DEF ThreadInv, Calling, Viewed
  <2> QED
    BY <2>1, <2>2, InCall DEF HasOwner
<1>2. TypeOK'
  BY <1>1, Returned DEF TypeOK, CondTypeOK, FailToAcquire, vars, lockVars, itemVars
<1>3. OthersStay(t)
  BY <1>1, Returned DEF OthersStay, Stays
<1>4. ThreadInv(t)'
  <2>1. at'[t] = "out" /\ view'[t] = 0
    BY <1>1, Returned, FunctionsAreSound DEF Sound
  <2> QED
    BY <1>1, <2>1 DEF ThreadInv, Placed, Calling, Exiting, Held, Has, Viewed, Owned, IsOwner, WaitPC
<1>5. Exclusive' /\ OneOwner'
  BY <1>1 DEF Exclusive, OneOwner, FailToAcquire, lockVars
<1> QED
  BY <1>2, <1>3, <1>4, <1>5, OthersKeepInv

(***************************************************************************)
(* Who has a recursive mutex and is not its owner finds that nobody is.    *)
(***************************************************************************)
LEMMA HolderAlone ==
    ASSUME LockInv, HasOwner, NEW t \in Thread, t \in holders
    PROVE  /\ \A u \in Thread : u \in holders => u = t
           /\ owner # t => owner = None /\ depth = 0
<1>1. ~shared
  BY DEF LockInv, Exclusive, HasOwner, MtxType
<1>2. \A u \in Thread : u \in holders => u = t
  BY <1>1 DEF LockInv, Exclusive
<1>3. ASSUME owner \in Thread PROVE owner = t
  <2>1. owner \in holders
    BY <1>3 DEF LockInv, ThreadInv, Owned, Held, Has, IsOwner
  <2> QED
    BY <1>2, <1>3, <2>1
<1> QED
  BY <1>2, <1>3 DEF LockInv, TypeOK, OneOwner

LEMMA LockOwn ==
    ASSUME LockInv, NEW t \in Thread, Own(t)
    PROVE  LockInv'
<1> USE DEF LockInv
<1>1. /\ at[t] = "own" /\ call[t].op = "lock" /\ owner' = t /\ depth' = 1
      /\ LockReturns(t, call[t].ok)
      /\ pc' = pc /\ unlocked' = unlocked /\ owed' = owed /\ kind' = kind /\ saved' = saved
      /\ atexit' = atexit /\ holders' = holders
  BY DEF Own, vars, itemVars
<1>2. /\ HasOwner /\ (HasOwner' <=> HasOwner) /\ view[t] = 0 /\ t \in holders
      /\ ThreadInv(t) /\ pc[t] = "idle" /\ kind # "none" /\ call[t] \in Functions
  <2>1. HasOwner /\ view[t] = 0 /\ t \in holders
    BY <1>1, InCall DEF ThreadInv, Calling, Viewed, Held, Has
  <2> QED
    BY <1>1, <2>1, InCall DEF HasOwner
<1>3. owner # t
  BY <1>1, <1>2 DEF ThreadInv, Owned, IsOwner
<1>4. owner = None
  BY <1>2, <1>3, HolderAlone
<1>5. TypeOK'
  <2>1. /\ at' \in [Thread -> {"out", "check", "acquire", "own", "disown", "give", "wait", "end", "exit"}]
        /\ call' \in [Thread -> Functions] /\ view' \in [Thread -> Nat]
    BY <1>1, Returned DEF LockInv
  <2>2. UNCHANGED <<vars, kind, shared, saved, itemVars>>
    BY DEF Own
  <2>3. CondTypeOK'
    BY <2>2 DEF CondTypeOK, TypeOK, vars
  <2>4. owner' \in Thread \cup {None} /\ depth' \in Nat
    BY <1>1
  <2> HIDE DEF LockInv
  <2>5. TypeOK
    BY DEF LockInv
  <2> QED
    BY <2>1, <2>2, <2>3, <2>4, <2>5 DEF TypeOK, itemVars
<1>6. OthersStay(t)
  BY <1>1, <1>4, Returned, NoneAssumption DEF OthersStay, Stays
<1>7. ThreadInv(t)'
  <2>1. at'[t] = "out" /\ view'[t] = 1
    BY <1>1, <1>2, Returned, FunctionsAreSound DEF Sound
  <2> QED
    BY <1>1, <1>2, <2>1 DEF ThreadInv, Placed, Calling, Exiting, Held, Has, Viewed, Owned, IsOwner, WaitPC
<1>8. Exclusive' /\ OneOwner'
  BY <1>1, <1>2, NoneAssumption DEF Exclusive, OneOwner, Own
<1> QED
  BY <1>5, <1>6, <1>7, <1>8, OthersKeepInv

LEMMA LockCallUnlock ==
    ASSUME LockInv, NEW t \in Thread, NEW f \in Functions, CallUnlock(t, f)
    PROVE  LockInv'
<1> USE DEF LockInv
<1> DEFINE to == IF ~HasOwner THEN "give" ELSE IF depth = 1 THEN "disown" ELSE "out"
<1>1. /\ at[t] = "out" /\ pc[t] = "idle" /\ view[t] > 0
      /\ view' = [view EXCEPT ![t] = view[t] - 1] /\ At(t, to)
      /\ depth' = (IF HasOwner THEN depth - 1 ELSE depth)
      /\ pc' = pc /\ unlocked' = unlocked /\ owed' = owed /\ kind' = kind /\ saved' = saved
      /\ owner' = owner /\ call' = call /\ atexit' = atexit /\ holders' = holders
  BY DEF CallUnlock, MayCall, vars
<1>2. /\ ThreadInv(t) /\ view[t] \in Nat /\ depth \in Nat /\ (HasOwner' <=> HasOwner)
      /\ kind # "none" /\ t \in holders
      /\ HasOwner => owner = t /\ depth = view[t]
  <2>1. ThreadInv(t) /\ view[t] \in Nat /\ depth \in Nat
    BY InCall
  <2>2. /\ kind # "none" /\ t \in holders
        /\ HasOwner => owner = t /\ depth = view[t]
    BY <1>1, <2>1 DEF ThreadInv, Viewed, Held, Has, Owned, IsOwner
  <2> QED
    BY <1>1, <2>1, <2>2 DEF HasOwner
<1>3. /\ at'[t] = to /\ view'[t] = view[t] - 1
      /\ \A u \in Thread \ {t} : at'[u] = at[u] /\ view'[u] = view[u]
  BY <1>1 DEF At, TypeOK
<1>4. TypeOK'
  <2>1. at' \in [Thread -> {"out", "check", "acquire", "own", "disown", "give", "wait", "end", "exit"}]
    BY <1>1 DEF At, TypeOK
  <2>2. view' \in [Thread -> Nat] /\ depth' \in Nat
    BY <1>1, <1>2 DEF TypeOK
  <2>3. want' \in [Thread -> {"none", "due", "hungry"}]
    BY DEF TypeOK, CallUnlock
  <2> QED
    BY <2>1, <2>2, <2>3 DEF TypeOK, CondTypeOK, CallUnlock, vars
<1>5. OthersStay(t)
  <2>1. ASSUME NEW u \in Thread \ {t}, owner = u PROVE depth' = depth
    BY <1>1, <1>2, <2>1
  <2> QED
    BY <1>1, <1>3, <2>1 DEF OthersStay, Stays
<1>6. ThreadInv(t)'
  <2>1. CASE ~HasOwner
    <3>1. view[t] = 1
      BY <1>1, <1>2, <2>1 DEF ThreadInv, Viewed
    <3>2. owner # t
      BY <2>1, NoneAssumption DEF OneOwner
    <3> QED
      BY <1>1, <1>2, <1>3, <2>1, <3>1, <3>2
         DEF ThreadInv, Placed, Calling, Exiting, Held, Has, Viewed, Owned, IsOwner, WaitPC
  <2>2. CASE HasOwner /\ depth = 1
    BY <1>1, <1>2, <1>3, <2>2
       DEF ThreadInv, Placed, Calling, Exiting, Held, Has, Viewed, Owned, IsOwner, WaitPC
  <2>3. CASE HasOwner /\ depth # 1
    BY <1>1, <1>2, <1>3, <2>3
       DEF ThreadInv, Placed, Calling, Exiting, Held, Has, Viewed, Owned, IsOwner, WaitPC
  <2> QED
    BY <2>1, <2>2, <2>3
<1>7. Exclusive' /\ OneOwner'
  <2>1. Exclusive'
    BY <1>1 DEF Exclusive, CallUnlock
  <2>2. OneOwner'
    BY <1>1, <1>2, NoneAssumption DEF OneOwner
  <2> QED
    BY <2>1, <2>2
<1> QED
  BY <1>4, <1>5, <1>6, <1>7, OthersKeepInv

LEMMA LockDisown ==
    ASSUME LockInv, NEW t \in Thread, Disown(t)
    PROVE  LockInv'
<1> USE DEF LockInv
<1>1. /\ at[t] = "disown" /\ owner' = None /\ At(t, "give")
      /\ pc' = pc /\ unlocked' = unlocked /\ owed' = owed /\ kind' = kind /\ saved' = saved
      /\ depth' = depth /\ call' = call /\ view' = view /\ atexit' = atexit /\ holders' = holders
  BY DEF Disown, vars, itemVars
<1>2. /\ ThreadInv(t) /\ (HasOwner' <=> HasOwner) /\ HasOwner /\ pc[t] = "idle"
      /\ kind # "none" /\ owner = t /\ view[t] = 0 /\ depth = 0
  <2>1. ThreadInv(t) /\ HasOwner /\ pc[t] = "idle" /\ kind # "none" /\ view[t] = 0
    BY <1>1, InCall DEF ThreadInv, Calling, Viewed
  <2>2. owner = t /\ depth = 0
    BY <1>1, <2>1 DEF ThreadInv, Owned, IsOwner
  <2> QED
    BY <1>1, <2>1, <2>2 DEF HasOwner
<1>3. at'[t] = "give" /\ \A u \in Thread \ {t} : at'[u] = at[u]
  BY <1>1 DEF At, TypeOK
<1>4. TypeOK'
  BY <1>1 DEF TypeOK, CondTypeOK, Disown, At, vars, itemVars
<1>5. OthersStay(t)
  BY <1>1, <1>2, <1>3, NoneAssumption DEF OthersStay, Stays
<1>6. ThreadInv(t)'
  BY <1>1, <1>2, <1>3, NoneAssumption
     DEF ThreadInv, Placed, Calling, Exiting, Held, Has, Viewed, Owned, IsOwner, WaitPC
<1>7. Exclusive' /\ OneOwner'
  BY <1>1, <1>2 DEF Exclusive, OneOwner, Disown
<1> QED
  BY <1>4, <1>5, <1>6, <1>7, OthersKeepInv

LEMMA LockGive ==
    ASSUME LockInv, NEW t \in Thread, Give(t)
    PROVE  LockInv'
<1> USE DEF LockInv
<1>1. /\ at[t] = "give" /\ At(t, "out") /\ holders' = holders \ {t}
      /\ pc' = pc /\ unlocked' = unlocked /\ owed' = owed /\ kind' = kind /\ saved' = saved
      /\ owner' = owner /\ depth' = depth /\ call' = call /\ view' = view /\ atexit' = atexit
      /\ shared' = shared
  BY DEF Give, lockVars, itemVars
<1>2. /\ ThreadInv(t) /\ (HasOwner' <=> HasOwner) /\ pc[t] = "idle"
      /\ kind # "none" /\ view[t] = 0
  BY <1>1, InCall DEF ThreadInv, Viewed, HasOwner
<1>3. at'[t] = "out" /\ \A u \in Thread \ {t} : at'[u] = at[u]
  BY <1>1 DEF At, TypeOK
<1>4. TypeOK'
  BY <1>1 DEF TypeOK, CondTypeOK, Give, At, lockVars, itemVars
<1>5. OthersStay(t)
  BY <1>1, <1>2, <1>3 DEF OthersStay, Stays
<1>6. ThreadInv(t)'
  BY <1>1, <1>2, <1>3
     DEF ThreadInv, Placed, Calling, Exiting, Held, Has, Viewed, Owned, IsOwner, WaitPC
<1>7. Exclusive' /\ OneOwner'
  BY <1>1, <1>2 DEF Exclusive, OneOwner
<1> QED
  BY <1>4, <1>5, <1>6, <1>7, OthersKeepInv

-----------------------------------------------------------------------------
(* The condition variable *)

(***************************************************************************)
(* What the beginning of a wait and a signal do to the state of Cond.      *)
(***************************************************************************)
LEMMA Waited ==
    ASSUME TypeOK, NEW t \in Thread, NEW when, Waits(t, when)
    PROVE  /\ CondTypeOK' /\ pc[t] = "idle"
           /\ pc' = [pc EXCEPT ![t] = IF t \in holders THEN "unlock" ELSE "wait"]
           /\ nsleep' = nsleep + 1
           /\ owed' = owed /\ holders' = holders /\ unlocked' = unlocked /\ err' = err
           /\ pc'[t] = (IF t \in holders THEN "unlock" ELSE "wait")
           /\ \A u \in Thread \ {t} : pc'[u] = pc[u]
<1>1. /\ pc' = [pc EXCEPT ![t] = IF t \in holders THEN "unlock" ELSE "wait"]
      /\ pc[t] = "idle" /\ nsleep' = nsleep + 1
      /\ owed' = owed /\ holders' = holders /\ unlocked' = unlocked /\ err' = err
      /\ \E k \in {"abs", "inf"} : tmo' = [tmo EXCEPT ![t] = k]
  BY DEF Waits, CallWait
<1>2. tmo' \in [Thread -> TimeoutKind]
  BY <1>1 DEF TypeOK, CondTypeOK, TimeoutKind
<1>3. CondTypeOK'
  BY <1>1, <1>2 DEF TypeOK, CondTypeOK, PC, KernelPC
<1> QED
  BY <1>1, <1>3 DEF TypeOK, CondTypeOK

LEMMA Lesser ==
    ASSUME NEW a \in Nat, NEW b \in Nat
    PROVE  Min({a, b}) = IF a <= b THEN a ELSE b
BY DEF Min

LEMMA LimitIsPositive == \A who : Limit(who) \in Nat /\ Limit(who) >= 1
BY FinitelyMany, FS_CardinalityType DEF Limit

LEMMA Signaled ==
    ASSUME TypeOK, NEW t \in Thread, NEW who, Signals(t, who), nsleep # 0
    PROVE  /\ CondTypeOK' /\ pc[t] = "idle"
           /\ \E n \in 1 .. nsleep :
                 /\ n = Min({nsleep, Limit(who)})
                 /\ nsleep' = nsleep - n
                 /\ owed' = [owed EXCEPT ![t] = n]
                 /\ owed'[t] > 0
           /\ \A u \in Thread \ {t} : owed'[u] = owed[u] /\ pc'[u] = pc[u]
           /\ pc' = [pc EXCEPT ![t] = "release"] /\ pc'[t] = "release"
           /\ holders' = holders /\ unlocked' = unlocked /\ err' = err /\ tmo' = tmo
<1> DEFINE n == Min({nsleep, Limit(who)})
<1>1. n \in 1 .. nsleep /\ n \in Nat /\ n > 0
  <2>1. nsleep \in Nat /\ Limit(who) \in Nat /\ Limit(who) >= 1
    BY LimitIsPositive DEF TypeOK, CondTypeOK
  <2>2. n = IF nsleep <= Limit(who) THEN nsleep ELSE Limit(who)
    BY <2>1, Lesser
  <2> QED
    BY <2>1, <2>2
<1>2. Signal(t, Limit(who))
  BY DEF Signals
<1> HIDE DEF n
<1>3. /\ pc[t] = "idle" /\ nsleep' = nsleep - n
      /\ owed' = [owed EXCEPT ![t] = n]
      /\ pc' = [pc EXCEPT ![t] = IF n = 0 THEN "idle" ELSE "release"]
      /\ holders' = holders /\ unlocked' = unlocked /\ err' = err /\ tmo' = tmo
  BY <1>2 DEF Signal, BeginsRelease, n
<1>4. pc' = [pc EXCEPT ![t] = "release"]
  <2>1. (IF n = 0 THEN "idle" ELSE "release") = "release"
    BY <1>1
  <2> QED
    BY <1>3, <2>1
<1>5. CondTypeOK'
  BY <1>1, <1>3, <1>4 DEF TypeOK, CondTypeOK, PC, KernelPC
<1>6. owed'[t] > 0 /\ pc'[t] = "release"
  BY <1>1, <1>3, <1>4 DEF TypeOK, CondTypeOK
<1>7. \A u \in Thread \ {t} : owed'[u] = owed[u] /\ pc'[u] = pc[u]
  BY <1>3, <1>4 DEF TypeOK, CondTypeOK
<1> QED
  BY <1>1, <1>3, <1>4, <1>5, <1>6, <1>7 DEF n

LEMMA LockCallCondWait ==
    ASSUME LockInv, NEW t \in Thread, NEW f \in Functions, CallCondWait(t, f)
    PROVE  LockInv'
<1> USE DEF LockInv
<1>1. /\ at[t] = "out" /\ pc[t] = "idle" /\ f.op = "wait" /\ Fits(f) /\ Waits(t, f.when)
      /\ kind # "none" => view[t] > 0
      /\ kind' = kind /\ saved' = saved /\ owner' = owner /\ depth' = depth /\ view' = view
      /\ atexit' = atexit /\ shared' = shared
      /\ at' = [at EXCEPT ![t] = "wait"] /\ call' = [call EXCEPT ![t] = f]
  BY DEF CallCondWait, MayCall, Calls, At, lockVars
<1>2. /\ ThreadInv(t) /\ (HasOwner' <=> HasOwner) /\ view[t] \in Nat
      /\ t \in holders <=> kind # "none"
      /\ owner = t => depth = view[t]
      /\ HasOwner /\ kind # "none" => owner = t
      /\ t \notin unlocked /\ ~(owed[t] > 0) /\ atexit[t] = <<>>
  <2>1. ThreadInv(t) /\ view[t] \in Nat
    BY InCall
  <2>2. t \in holders <=> kind # "none"
    BY <1>1, <2>1 DEF ThreadInv, Viewed, Held, Has
  <2>3. t \notin unlocked /\ ~(owed[t] > 0) /\ atexit[t] = <<>>
    BY <1>1, <2>1 DEF ThreadInv, Placed, Exiting
  <2>4. /\ owner = t => depth = view[t]
        /\ HasOwner /\ kind # "none" => owner = t
    BY <1>1, <2>1 DEF ThreadInv, Owned, IsOwner
  <2> QED
    BY <1>1, <2>1, <2>2, <2>3, <2>4 DEF HasOwner
<1>3. /\ at'[t] = "wait" /\ call'[t] = f
      /\ \A u \in Thread \ {t} : at'[u] = at[u] /\ call'[u] = call[u]
  BY <1>1 DEF TypeOK
<1>4. TypeOK'
  <2>1. CondTypeOK'
    BY <1>1, Waited
  <2>2. want' \in [Thread -> {"none", "due", "hungry"}]
    BY DEF TypeOK, CallCondWait
  <2> QED
    BY <1>1, <2>1, <2>2 DEF TypeOK, CallCondWait, lockVars
<1>5. OthersStay(t)
  BY <1>1, <1>3, Waited DEF OthersStay, Stays
<1>6. ThreadInv(t)'
  <2>1. /\ pc'[t] = (IF kind # "none" THEN "unlock" ELSE "wait")
        /\ owed' = owed /\ holders' = holders /\ unlocked' = unlocked
    BY <1>1, <1>2, Waited
  <2>2. Placed(t)' /\ Calling(t)' /\ Exiting(t)'
    BY <1>1, <1>2, <1>3, <2>1 DEF ThreadInv, Placed, Calling, Exiting, Fits, WaitPC
  <2>3. Held(t)' /\ Viewed(t)' /\ Owned(t)'
    BY <1>1, <1>2, <1>3, <2>1 DEF ThreadInv, Held, Has, Viewed, Owned, IsOwner, HasOwner, MtxType
  <2> QED
    BY <2>2, <2>3 DEF ThreadInv
<1>7. Exclusive' /\ OneOwner'
  BY <1>1, <1>2, Waited DEF Exclusive, OneOwner
<1> QED
  BY <1>4, <1>5, <1>6, <1>7, OthersKeepInv

LEMMA LockSaveDepth ==
    ASSUME LockInv, NEW t \in Thread, SaveDepth(t)
    PROVE  LockInv'
<1> USE DEF LockInv
<1>1. /\ pc[t] = "unlock" /\ owner = t /\ saved' = [saved EXCEPT ![t] = depth]
      /\ depth' = 0 /\ owner' = None
      /\ pc' = pc /\ unlocked' = unlocked /\ owed' = owed /\ kind' = kind
      /\ at' = at /\ call' = call /\ view' = view /\ atexit' = atexit /\ holders' = holders
  BY DEF SaveDepth, vars, callVars, itemVars
<1>2. /\ ThreadInv(t) /\ (HasOwner' <=> HasOwner) /\ at[t] = "wait" /\ depth = view[t]
      /\ depth \in Nat
  BY <1>1, InCall DEF ThreadInv, Placed, Owned, HasOwner, WaitPC
<1>3. saved'[t] = depth /\ \A u \in Thread \ {t} : saved'[u] = saved[u]
  BY <1>1 DEF TypeOK
<1>4. TypeOK'
  BY <1>1, <1>2 DEF TypeOK, CondTypeOK, SaveDepth, vars, callVars, itemVars
<1>5. OthersStay(t)
  BY <1>1, <1>3, NoneAssumption DEF OthersStay, Stays
<1>6. ThreadInv(t)'
  BY <1>1, <1>2, <1>3, NoneAssumption
     DEF ThreadInv, Placed, Calling, Exiting, Held, Has, Viewed, Owned, IsOwner, Fits, WaitPC
<1>7. Exclusive' /\ OneOwner'
  BY <1>1, <1>2 DEF Exclusive, OneOwner, SaveDepth
<1> QED
  BY <1>4, <1>5, <1>6, <1>7, OthersKeepInv

LEMMA LockUnlockToWait ==
    ASSUME LockInv, NEW t \in Thread, UnlockToWait(t)
    PROVE  LockInv'
<1> USE DEF LockInv
<1>1. /\ pc[t] = "unlock" /\ owner # t /\ pc' = [pc EXCEPT ![t] = "wait"]
      /\ holders' = holders \ {t} /\ unlocked' = unlocked \cup {t}
      /\ owed' = owed /\ kind' = kind /\ owner' = owner /\ depth' = depth /\ saved' = saved
      /\ at' = at /\ call' = call /\ view' = view /\ atexit' = atexit /\ shared' = shared
  BY DEF UnlockToWait, UnlockCallback, Sleeps, lockVars, callVars, itemVars
<1>2. /\ ThreadInv(t) /\ (HasOwner' <=> HasOwner) /\ at[t] = "wait" /\ kind # "none"
  BY <1>1, InCall DEF ThreadInv, Placed, HasOwner, WaitPC
<1>3. pc'[t] = "wait" /\ \A u \in Thread \ {t} : pc'[u] = pc[u]
  BY <1>1 DEF TypeOK, CondTypeOK
<1>4. TypeOK'
  <2>1. CondTypeOK'
    BY <1>1 DEF TypeOK, CondTypeOK, PC, KernelPC, UnlockToWait, UnlockCallback, Sleeps
  <2> QED
    BY <2>1 DEF TypeOK, UnlockToWait, lockVars, callVars, itemVars
<1>5. OthersStay(t)
  BY <1>1, <1>3 DEF OthersStay, Stays
<1>6. ThreadInv(t)'
  BY <1>1, <1>2, <1>3
     DEF ThreadInv, Placed, Calling, Exiting, Held, Has, Viewed, Owned, IsOwner, Fits, WaitPC
<1>7. Exclusive' /\ OneOwner'
  BY <1>1, <1>2 DEF Exclusive, OneOwner
<1> QED
  BY <1>4, <1>5, <1>6, <1>7, OthersKeepInv

LEMMA LockSleepStep ==
    ASSUME LockInv, NEW t \in Thread, SleepStep(t)
    PROVE  LockInv'
<1> USE DEF LockInv
<1> DEFINE woken == IF t \in unlocked THEN "relock" ELSE "idle"
<1>1. /\ kind' = kind /\ owner' = owner /\ depth' = depth /\ saved' = saved
      /\ at' = at /\ call' = call /\ view' = view /\ atexit' = atexit /\ shared' = shared
  BY DEF SleepStep, lockVars, callVars, itemVars
<1>2. /\ owed' = owed /\ holders' = holders /\ unlocked' = unlocked
      /\ tmo' \in [Thread -> TimeoutKind] /\ err' \in [Thread -> {0, -1}] /\ nsleep' \in Nat
      /\ \/ pc[t] = "leave" /\ pc' = [pc EXCEPT ![t] = woken]
         \/ pc[t] = "leave" /\ pc' = [pc EXCEPT ![t] = "poll"]
         \/ pc[t] \in {"wait", "poll"} /\ pc' = [pc EXCEPT ![t] = "leave"]
  <2>1. CASE LeaveCounted(t)
    BY <2>1 DEF LeaveCounted, Afterwards, Returns, TypeOK, CondTypeOK, TimeoutKind
  <2>2. CASE LeaveOwed(t)
    BY <2>2 DEF LeaveOwed, AwaitsRelease, TypeOK, CondTypeOK
  <2>3. CASE WaitTimeout(t)
    BY <2>3 DEF WaitTimeout, WaitTimesOut, PollTimesOut, TypeOK, CondTypeOK
  <2> QED
    BY <2>1, <2>2, <2>3 DEF SleepStep
<1>3. /\ ThreadInv(t) /\ (HasOwner' <=> HasOwner) /\ at[t] = "wait"
      /\ t \in unlocked <=> kind # "none"
  BY <1>1, <1>2, InCall DEF ThreadInv, Placed, HasOwner, WaitPC
<1>4. \A u \in Thread \ {t} : pc'[u] = pc[u]
  BY <1>2 DEF TypeOK, CondTypeOK
<1>5. TypeOK'
  <2>1. pc' \in [Thread -> PC]
    BY <1>2 DEF TypeOK, CondTypeOK, PC, KernelPC
  <2>2. CondTypeOK'
    BY <1>2, <2>1 DEF TypeOK, CondTypeOK
  <2> QED
    BY <2>2 DEF TypeOK, SleepStep, lockVars, callVars, itemVars
<1>6. OthersStay(t)
  BY <1>1, <1>2, <1>4 DEF OthersStay, Stays
<1>7. ThreadInv(t)'
  <2>1. \/ pc'[t] = "relock" /\ kind # "none"
        \/ pc'[t] = "idle" /\ kind = "none"
        \/ pc'[t] \in {"poll", "leave"}
    BY <1>2, <1>3 DEF TypeOK, CondTypeOK
  <2> QED
    BY <1>1, <1>2, <1>3, <2>1
       DEF ThreadInv, Placed, Calling, Exiting, Held, Has, Viewed, Owned, IsOwner, Fits, WaitPC
<1>8. Exclusive' /\ OneOwner'
  BY <1>1, <1>2, <1>3 DEF Exclusive, OneOwner
<1> QED
  BY <1>5, <1>6, <1>7, <1>8, OthersKeepInv

LEMMA LockWake ==
    ASSUME LockInv, NEW w \in Thread, NEW r \in Thread, Wake(w, r)
    PROVE  LockInv'
<1> USE DEF LockInv
<1> DEFINE woken == IF w \in unlocked THEN "relock" ELSE "idle"
           rest == IF owed[r] = 1 THEN "idle" ELSE "release"
<1>1. /\ kind' = kind /\ owner' = owner /\ depth' = depth /\ saved' = saved
      /\ at' = at /\ call' = call /\ view' = view /\ atexit' = atexit /\ shared' = shared
      /\ holders' = holders /\ unlocked' = unlocked /\ nsleep' = nsleep
      /\ err' = [err EXCEPT ![w] = 0] /\ tmo' = [tmo EXCEPT ![w] = "zero"]
      /\ owed' = [owed EXCEPT ![r] = owed[r] - 1]
      /\ pc[r] = "release" /\ pc[w] \in {"wait", "poll"}
  BY DEF Wake, Wakeup, Handoff, Parked, lockVars, callVars, itemVars
<1>2. pc' = [pc EXCEPT ![w] = woken, ![r] = rest]
  <2>1. pc' = [pc EXCEPT ![w] = woken, ![r] = IF owed[r] = 1 THEN "idle" ELSE @]
    BY DEF Wake, Wakeup, Handoff, Afterwards
  <2> QED
    BY <1>1, <2>1 DEF TypeOK, CondTypeOK
<1>3. /\ w # r /\ owed[r] \in Nat /\ owed[r] > 0
      /\ ThreadInv(w) /\ ThreadInv(r) /\ (HasOwner' <=> HasOwner) /\ at[w] = "wait"
      /\ at[r] \in {"out", "exit"}
      /\ w \in unlocked <=> kind # "none"
  BY <1>1 DEF ThreadInv, Placed, HasOwner, WaitPC, TypeOK, CondTypeOK
<1>4. /\ pc'[w] = woken /\ pc'[r] = rest /\ owed'[r] = owed[r] - 1 /\ owed'[w] = owed[w]
      /\ \A u \in Thread \ {w, r} : pc'[u] = pc[u] /\ owed'[u] = owed[u]
  BY <1>1, <1>2, <1>3 DEF TypeOK, CondTypeOK
<1>5. TypeOK'
  <2>1. pc' \in [Thread -> PC]
    <3>1. woken \in PC /\ rest \in PC
      BY DEF PC, KernelPC
    <3> HIDE DEF woken, rest
    <3> QED
      BY <1>2, <3>1 DEF TypeOK, CondTypeOK
  <2>2. owed' \in [Thread -> Nat]
    <3>1. owed[r] - 1 \in Nat
      BY <1>3
    <3> QED
      BY <1>1, <3>1 DEF TypeOK, CondTypeOK
  <2>3. CondTypeOK'
    BY <1>1, <2>1, <2>2 DEF TypeOK, CondTypeOK, TimeoutKind
  <2> QED
    BY <2>3 DEF TypeOK, Wake, lockVars, callVars, itemVars
<1>6. ThreadInv(w)'
  <2>1. \/ pc'[w] = "relock" /\ kind # "none"
        \/ pc'[w] = "idle" /\ kind = "none"
    BY <1>3, <1>4
  <2> QED
    BY <1>1, <1>3, <1>4, <2>1
       DEF ThreadInv, Placed, Calling, Exiting, Held, Has, Viewed, Owned, IsOwner, Fits, WaitPC
<1>7. ThreadInv(r)'
  <2>1. Placed(r)'
    BY <1>1, <1>3, <1>4 DEF ThreadInv, Placed, WaitPC
  <2> QED
    BY <1>1, <1>3, <1>4, <2>1
       DEF ThreadInv, Calling, Exiting, Held, Has, Viewed, Owned, IsOwner, Fits, WaitPC
<1>8. ASSUME NEW u \in Thread \ {w, r} PROVE ThreadInv(u)'
  <2>1. Stays(u)
    BY <1>1, <1>4 DEF Stays
  <2> QED
    BY <1>1, <2>1, StaysKeepsInv
<1>9. Exclusive' /\ OneOwner'
  BY <1>1, <1>3 DEF Exclusive, OneOwner
<1> QED
  BY <1>5, <1>6, <1>7, <1>8, <1>9

LEMMA LockRelockAfterWait ==
    ASSUME LockInv, NEW t \in Thread, RelockAfterWait(t)
    PROVE  LockInv'
<1> USE DEF LockInv
<1> DEFINE to == IF HasOwner THEN "own" ELSE "end"
<1>1. /\ pc[t] = "relock" /\ pc' = [pc EXCEPT ![t] = "idle"]
      /\ holders' = holders \cup {t} /\ unlocked' = unlocked \ {t} /\ at' = [at EXCEPT ![t] = to]
      /\ owed' = owed /\ kind' = kind /\ owner' = owner /\ depth' = depth /\ saved' = saved
      /\ call' = call /\ view' = view /\ atexit' = atexit /\ shared' \in BOOLEAN
  BY DEF RelockAfterWait, Relock, At, itemVars
<1>2. /\ ThreadInv(t) /\ (HasOwner' <=> HasOwner) /\ at[t] = "wait" /\ kind # "none"
      /\ call[t] \in Functions /\ call[t].op = "wait" /\ Fits(call[t])
  BY <1>1, InCall DEF ThreadInv, Placed, Calling, HasOwner, WaitPC
<1>3. owner # t
  BY <1>1, <1>2 DEF ThreadInv, Owned, IsOwner
<1>4. /\ pc'[t] = "idle" /\ at'[t] = to
      /\ \A u \in Thread \ {t} : pc'[u] = pc[u] /\ at'[u] = at[u]
  BY <1>1 DEF TypeOK, CondTypeOK
<1>5. TypeOK'
  <2>1. CondTypeOK'
    BY <1>1 DEF TypeOK, CondTypeOK, PC, RelockAfterWait, Relock
  <2> QED
    BY <1>1, <2>1 DEF TypeOK, RelockAfterWait, itemVars
<1>6. OthersStay(t)
  BY <1>1, <1>4 DEF OthersStay, Stays
<1>7. ThreadInv(t)'
  <2>1. Placed(t)' /\ Calling(t)' /\ Exiting(t)'
    BY <1>1, <1>2, <1>4 DEF ThreadInv, Placed, Calling, Exiting, Fits, WaitPC
  <2>2. Held(t)' /\ Viewed(t)' /\ Owned(t)'
    BY <1>1, <1>2, <1>3, <1>4 DEF ThreadInv, Held, Has, Viewed, Owned, IsOwner
  <2> QED
    BY <2>1, <2>2 DEF ThreadInv
<1>8. Exclusive'
  BY <1>1, <1>2, FreeIsExclusive, FittingFunctions DEF RelockAfterWait, TypeOK
<1>9. OneOwner'
  BY <1>1, <1>2 DEF OneOwner
<1> QED
  BY <1>5, <1>6, <1>7, <1>8, <1>9, OthersKeepInv

LEMMA LockRestoreDepth ==
    ASSUME LockInv, NEW t \in Thread, RestoreDepth(t)
    PROVE  LockInv'
<1> USE DEF LockInv
<1>1. /\ at[t] = "own" /\ call[t].op = "wait" /\ owner' = t /\ depth' = saved[t]
      /\ at' = [at EXCEPT ![t] = "end"]
      /\ pc' = pc /\ unlocked' = unlocked /\ owed' = owed /\ kind' = kind /\ saved' = saved
      /\ call' = call /\ view' = view /\ atexit' = atexit /\ holders' = holders
  BY DEF RestoreDepth, At, vars, itemVars
<1>2. /\ HasOwner /\ (HasOwner' <=> HasOwner) /\ view[t] > 0 /\ t \in holders
      /\ ThreadInv(t) /\ pc[t] = "idle" /\ kind # "none" /\ saved[t] \in Nat
  <2>1. HasOwner /\ view[t] > 0 /\ t \in holders
    BY <1>1, InCall DEF ThreadInv, Calling, Viewed, Held, Has
  <2> QED
    BY <1>1, <2>1, InCall DEF HasOwner
<1>3. owner # t /\ saved[t] = view[t]
  BY <1>1, <1>2 DEF ThreadInv, Owned, IsOwner
<1>4. owner = None
  BY <1>2, <1>3, HolderAlone
<1>5. at'[t] = "end" /\ \A u \in Thread \ {t} : at'[u] = at[u]
  BY <1>1 DEF TypeOK
<1>6. TypeOK'
  BY <1>1, <1>2 DEF TypeOK, CondTypeOK, RestoreDepth, vars, itemVars
<1>7. OthersStay(t)
  BY <1>1, <1>4, <1>5, NoneAssumption DEF OthersStay, Stays
<1>8. ThreadInv(t)'
  <2>1. Placed(t)' /\ Calling(t)' /\ Exiting(t)'
    BY <1>1, <1>2, <1>5 DEF ThreadInv, Placed, Calling, Exiting, Fits, WaitPC
  <2>2. Held(t)' /\ Viewed(t)' /\ Owned(t)'
    BY <1>1, <1>2, <1>3, <1>5 DEF ThreadInv, Held, Has, Viewed, Owned, IsOwner
  <2> QED
    BY <2>1, <2>2 DEF ThreadInv
<1>9. Exclusive' /\ OneOwner'
  BY <1>1, <1>2, NoneAssumption DEF Exclusive, OneOwner, RestoreDepth
<1> QED
  BY <1>6, <1>7, <1>8, <1>9, OthersKeepInv

LEMMA LockNextRound ==
    ASSUME LockInv, NEW t \in Thread, NextRound(t)
    PROVE  LockInv'
<1> USE DEF LockInv
<1>1. /\ EndsWait(t) /\ Waits(t, "until") /\ at' = [at EXCEPT ![t] = "wait"]
      /\ kind' = kind /\ saved' = saved /\ owner' = owner /\ depth' = depth /\ view' = view
      /\ call' = call /\ atexit' = atexit /\ shared' = shared
  BY DEF NextRound, At, lockVars
<1>2. /\ ThreadInv(t) /\ (HasOwner' <=> HasOwner) /\ pc[t] = "idle"
      /\ call[t].op = "wait" /\ Fits(call[t])
      /\ at[t] = "end" \/ (at[t] = "wait" /\ kind = "none")
      /\ t \in holders <=> kind # "none"
      /\ atexit[t] = <<>> /\ t \notin unlocked /\ ~(owed[t] > 0)
  <2>1. ThreadInv(t) /\ pc[t] = "idle" /\ (at[t] = "end" \/ (at[t] = "wait" /\ kind = "none"))
    BY <1>1, InCall, Waited DEF EndsWait
  <2>2. call[t].op = "wait" /\ Fits(call[t]) /\ (at[t] = "end" => kind # "none")
    BY <2>1 DEF ThreadInv, Calling
  <2>3. t \in holders <=> kind # "none"
    BY <2>1, <2>2 DEF ThreadInv, Held, Has
  <2>4. atexit[t] = <<>> /\ t \notin unlocked /\ ~(owed[t] > 0)
    BY <2>1 DEF ThreadInv, Exiting, Placed
  <2> QED
    BY <1>1, <2>1, <2>2, <2>3, <2>4 DEF HasOwner
<1>3. at'[t] = "wait" /\ \A u \in Thread \ {t} : at'[u] = at[u]
  BY <1>1 DEF TypeOK
<1>4. TypeOK'
  <2>1. CondTypeOK'
    BY <1>1, Waited
  <2>2. missed' \in BOOLEAN /\ late' \in SUBSET Thread
    BY DEF NextRound, TypeOK
  <2> QED
    BY <1>1, <2>1, <2>2 DEF TypeOK, NextRound, lockVars
<1>5. OthersStay(t)
  BY <1>1, <1>3, Waited DEF OthersStay, Stays
<1>6. ThreadInv(t)'
  <2>1. /\ pc'[t] = (IF kind # "none" THEN "unlock" ELSE "wait")
        /\ owed' = owed /\ holders' = holders /\ unlocked' = unlocked
    BY <1>1, <1>2, Waited
  <2>2. Placed(t)' /\ Calling(t)' /\ Exiting(t)'
    BY <1>1, <1>2, <1>3, <2>1 DEF ThreadInv, Placed, Calling, Exiting, Fits, WaitPC
  <2>3. Held(t)' /\ Viewed(t)'
    BY <1>1, <1>2, <1>3, <2>1 DEF ThreadInv, Held, Has, Viewed
  <2>4. /\ HasOwner /\ at[t] = "end" => owner = t
        /\ owner = t => HasOwner /\ depth = view[t]
        /\ HasOwner => kind # "none"
    BY <1>2, NoneAssumption DEF ThreadInv, Owned, IsOwner, OneOwner, HasOwner, MtxType
  <2>5. Owned(t)'
    BY <1>1, <1>2, <1>3, <2>1, <2>4 DEF Owned, IsOwner
  <2> QED
    BY <2>2, <2>3, <2>5 DEF ThreadInv
<1>7. Exclusive' /\ OneOwner'
  BY <1>1, <1>2, Waited DEF Exclusive, OneOwner
<1> QED
  BY <1>4, <1>5, <1>6, <1>7, OthersKeepInv

LEMMA LockWaitReturns ==
    ASSUME LockInv, NEW t \in Thread, WaitReturns(t)
    PROVE  LockInv'
<1> USE DEF LockInv
<1>1. /\ EndsWait(t) /\ at' = [at EXCEPT ![t] = "out"] /\ call' = [call EXCEPT ![t] = mcf_sleep]
      /\ kind' = kind /\ saved' = saved /\ owner' = owner /\ depth' = depth /\ view' = view
      /\ pc' = pc /\ holders' = holders /\ unlocked' = unlocked /\ owed' = owed
      /\ atexit' = atexit /\ shared' = shared
  BY DEF WaitReturns, At, vars, lockVars
<1>2. /\ ThreadInv(t) /\ (HasOwner' <=> HasOwner) /\ pc[t] = "idle"
      /\ at[t] = "end" \/ (at[t] = "wait" /\ kind = "none")
  BY <1>1, InCall DEF EndsWait, HasOwner
<1>3. at'[t] = "out" /\ \A u \in Thread \ {t} : at'[u] = at[u] /\ call'[u] = call[u]
  BY <1>1 DEF TypeOK
<1>4. TypeOK'
  <2>1. want' \in [Thread -> {"none", "due", "hungry"}] /\ late' \in SUBSET Thread
    BY DEF TypeOK, WaitReturns
  <2> QED
    BY <1>1, <2>1, SleepIsWait DEF TypeOK, CondTypeOK, WaitReturns, vars, lockVars
<1>5. OthersStay(t)
  BY <1>1, <1>3 DEF OthersStay, Stays
<1>6. ThreadInv(t)'
  BY <1>1, <1>2, <1>3
     DEF ThreadInv, Placed, Calling, Exiting, Held, Has, Viewed, Owned, IsOwner, WaitPC
<1>7. Exclusive' /\ OneOwner'
  BY <1>1, <1>2 DEF Exclusive, OneOwner
<1> QED
  BY <1>4, <1>5, <1>6, <1>7, OthersKeepInv

(***************************************************************************)
(* A thread that signals may be anywhere but in a wait.                    *)
(***************************************************************************)
LEMMA SignalsKeepsInv ==
    ASSUME LockInv, NEW t \in Thread, NEW who, Signals(t, who), pc[t] = "idle",
           at[t] \in {"out", "exit"},
           kind' = kind, owner' = owner, depth' = depth, saved' = saved, at' = at, call' = call,
           view' = view, shared' = shared, Exiting(t)', \A u \in Thread \ {t} : atexit'[u] = atexit[u],
           at[t] = "exit" => (t \in holders <=> atexit'[t] = <<"signal_all", "unlock">>)
    PROVE  /\ CondTypeOK' /\ holders' = holders
           /\ \A u \in Thread : ThreadInv(u)'
           /\ Exclusive' /\ OneOwner'
<1> USE DEF LockInv
<1>1. /\ CondTypeOK' /\ holders' = holders /\ unlocked' = unlocked
      /\ \A u \in Thread \ {t} : owed'[u] = owed[u] /\ pc'[u] = pc[u]
      /\ \/ pc'[t] = "idle" /\ owed'[t] = owed[t]
         \/ pc'[t] = "release" /\ owed'[t] > 0
  <2>1. CASE nsleep = 0
    BY <2>1 DEF Signals, vars, TypeOK, CondTypeOK
  <2>2. CASE nsleep # 0
    BY <2>2, Signaled
  <2> QED
    BY <2>1, <2>2
<1>2. ThreadInv(t) /\ (HasOwner' <=> HasOwner)
  BY DEF HasOwner
<1>3. OthersStay(t)
  BY <1>1 DEF OthersStay, Stays
<1>4. ThreadInv(t)'
  <2>1. Placed(t)' /\ Calling(t)'
    BY <1>1, <1>2 DEF ThreadInv, Placed, Calling, WaitPC
  <2>2. Held(t)' /\ Viewed(t)' /\ Owned(t)'
    BY <1>1, <1>2 DEF ThreadInv, Held, Has, Viewed, Owned, IsOwner
  <2> QED
    BY <2>1, <2>2 DEF ThreadInv
<1>5. Exclusive' /\ OneOwner'
  BY <1>1, <1>2 DEF Exclusive, OneOwner
<1> QED
  BY <1>1, <1>3, <1>4, <1>5, OthersKeepInv

LEMMA LockCallNotify ==
    ASSUME LockInv, NEW t \in Thread, NEW f \in Functions, CallNotify(t, f)
    PROVE  LockInv'
<1>1. /\ at[t] = "out" /\ pc[t] = "idle" /\ Signals(t, f.when)
      /\ kind' = kind /\ saved' = saved /\ owner' = owner /\ depth' = depth /\ view' = view
      /\ at' = at /\ call' = call /\ atexit' = atexit /\ shared' = shared
  BY DEF CallNotify, MayCall, lockVars, callVars
<1>2. Exiting(t)'
  BY <1>1, InCall DEF ThreadInv, Exiting
<1>3. /\ CondTypeOK' /\ \A u \in Thread : ThreadInv(u)'
      /\ Exclusive' /\ OneOwner'
  BY <1>1, <1>2, SignalsKeepsInv
<1>4. TypeOK'
  <2>1. want' \in [Thread -> {"none", "due", "hungry"}]
    BY DEF LockInv, TypeOK, CallNotify
  <2> QED
    BY <1>1, <1>3, <2>1 DEF LockInv, TypeOK, CallNotify, lockVars, callVars
<1> QED
  BY <1>3, <1>4 DEF LockInv

LEMMA LockPutTake ==
    ASSUME LockInv, NEW t \in Thread, Put(t) \/ Take(t)
    PROVE  LockInv'
<1> USE DEF LockInv
<1>1. /\ at' = at /\ pc' = pc /\ owed' = owed /\ unlocked' = unlocked /\ holders' = holders
      /\ kind' = kind /\ saved' = saved /\ owner' = owner /\ depth' = depth /\ view' = view
      /\ call' = call /\ atexit' = atexit /\ shared' = shared
  BY DEF Put, Take, vars, lockVars, callVars
<1>2. TypeOK'
  <2>1. want' \in [Thread -> {"none", "due", "hungry"}]
    BY DEF TypeOK, Put, Take
  <2>2. CASE Put(t)
    <3>1. items' \in Nat /\ made' \in 0 .. MaxItems /\ missed' \in BOOLEAN /\ late' = late
      BY <2>2, BoundsAssumption DEF TypeOK, Put
    <3> QED
      BY <1>1, <2>1, <2>2, <3>1 DEF TypeOK, CondTypeOK, Put, vars
  <2>3. CASE Take(t)
    <3>1. items' \in Nat /\ made' \in 0 .. MaxItems /\ missed' \in BOOLEAN /\ late' = late
      BY <2>3 DEF TypeOK, Take
    <3> QED
      BY <1>1, <2>1, <2>3, <3>1 DEF TypeOK, CondTypeOK, Take, vars
  <2> QED
    BY <2>2, <2>3
<1>3. ASSUME NEW u \in Thread PROVE ThreadInv(u)'
  BY <1>1, StaysKeepsInv DEF Stays
<1>4. Exclusive' /\ OneOwner'
  BY <1>1 DEF Exclusive, OneOwner, HasOwner
<1> QED
  BY <1>2, <1>3, <1>4

LEMMA LockNotifyAtExit ==
    ASSUME LockInv, NEW t \in Thread, NotifyAtExit(t)
    PROVE  LockInv'
<1> USE DEF LockInv
<1>1. /\ at[t] = "out" /\ pc[t] = "idle" /\ view[t] > 0 /\ kind = "mutex"
      /\ at' = [at EXCEPT ![t] = "exit"] /\ view' = [view EXCEPT ![t] = 0]
      /\ atexit' = [atexit EXCEPT ![t] = <<"signal_all", "unlock">>]
      /\ pc' = pc /\ owed' = owed /\ unlocked' = unlocked /\ holders' = holders
      /\ kind' = kind /\ saved' = saved /\ owner' = owner /\ depth' = depth
      /\ call' = call /\ shared' = shared
  BY DEF NotifyAtExit, MayTouch, At, vars, lockVars
<1>2. ThreadInv(t) /\ ~HasOwner /\ ~HasOwner' /\ owner # t
  <2>1. ~HasOwner /\ ~HasOwner'
    BY <1>1 DEF HasOwner, MtxType
  <2> QED
    BY <2>1, NoneAssumption DEF OneOwner
<1>3. /\ at'[t] = "exit" /\ view'[t] = 0 /\ atexit'[t] = <<"signal_all", "unlock">>
      /\ \A u \in Thread \ {t} : at'[u] = at[u] /\ view'[u] = view[u] /\ atexit'[u] = atexit[u]
  BY <1>1 DEF TypeOK
<1>4. TypeOK'
  <2>1. want' \in [Thread -> {"none", "due", "hungry"}]
    BY DEF TypeOK, NotifyAtExit
  <2>2. atexit' \in [Thread -> Seq({"signal_all", "unlock"})]
    <3>1. <<"signal_all", "unlock">> \in Seq({"signal_all", "unlock"})
      OBVIOUS
    <3> QED
      BY <1>1, <3>1 DEF TypeOK
  <2> QED
    BY <1>1, <2>1, <2>2 DEF TypeOK, CondTypeOK, NotifyAtExit, vars, lockVars
<1>5. OthersStay(t)
  BY <1>1, <1>3 DEF OthersStay, Stays
<1>6. ThreadInv(t)'
  BY <1>1, <1>2, <1>3
     DEF ThreadInv, Placed, Calling, Exiting, Held, Has, Viewed, Owned, IsOwner, WaitPC
<1>7. Exclusive' /\ OneOwner'
  BY <1>1, <1>2 DEF Exclusive, OneOwner
<1> QED
  BY <1>4, <1>5, <1>6, <1>7, OthersKeepInv

(***************************************************************************)
(* The callbacks of notify_all_at_thread_exit, the last of which is first. *)
(***************************************************************************)
LEMMA LastCallback ==
    /\ Last(<<"signal_all", "unlock">>) = "unlock"
    /\ Front(<<"signal_all", "unlock">>) = <<"signal_all">>
    /\ Last(<<"signal_all">>) = "signal_all"
    /\ Front(<<"signal_all">>) = <<>>
    /\ <<"signal_all">> \in Seq({"signal_all", "unlock"})
    /\ <<>> \in Seq({"signal_all", "unlock"})
<1> DEFINE S == Seq({"signal_all", "unlock"})
<1>1. Last(<<"signal_all", "unlock">>) = "unlock" /\ Last(<<"signal_all">>) = "signal_all"
  BY DEF Last
<1>2. /\ Front(<<"signal_all", "unlock">>) \in S
      /\ Len(Front(<<"signal_all", "unlock">>)) = 1
  BY DEF Front
<1>3. Front(<<"signal_all", "unlock">>)[1] = "signal_all"
  BY DEF Front
<1>4. Front(<<"signal_all">>) \in S /\ Len(Front(<<"signal_all">>)) = 0
  BY DEF Front
<1>5. ASSUME NEW s \in S, Len(s) = 1, s[1] = "signal_all" PROVE s = <<"signal_all">>
  BY <1>5
<1>6. ASSUME NEW s \in S, Len(s) = 0 PROVE s = <<>>
  BY <1>6
<1>7. <<"signal_all">> \in S /\ <<>> \in S
  OBVIOUS
<1> HIDE DEF S
<1> QED
  BY <1>1, <1>2, <1>3, <1>4, <1>5, <1>6, <1>7 DEF S

LEMMA LockRunAtExit ==
    ASSUME LockInv, NEW t \in Thread, RunAtExit(t)
    PROVE  LockInv'
<1> USE DEF LockInv
<1>1. /\ at[t] = "exit" /\ pc[t] = "idle" /\ atexit' = [atexit EXCEPT ![t] = Front(atexit[t])]
      /\ kind' = kind /\ saved' = saved /\ owner' = owner /\ depth' = depth /\ view' = view
      /\ at' = at /\ call' = call /\ shared' = shared
      /\ want' = want /\ late' = late /\ items' = items /\ missed' = missed /\ made' = made
  BY DEF RunAtExit, lockVars, callVars
<1>2. ThreadInv(t) /\ (HasOwner' <=> HasOwner) /\ kind = "mutex" /\ ~HasOwner
  BY <1>1 DEF ThreadInv, Calling, HasOwner, MtxType
<1>3. owner # t
  BY <1>2, NoneAssumption DEF OneOwner
<1>4. atexit[t] = <<"signal_all", "unlock">> \/ atexit[t] = <<"signal_all">>
  BY <1>2 DEF ThreadInv, Exiting, RunAtExit
<1>5. atexit'[t] = Front(atexit[t]) /\ \A u \in Thread \ {t} : atexit'[u] = atexit[u]
  BY <1>1 DEF TypeOK
<1>6. atexit' \in [Thread -> Seq({"signal_all", "unlock"})]
  <2>1. Front(atexit[t]) = <<"signal_all">> \/ Front(atexit[t]) = <<>>
    BY <1>4, LastCallback
  <2>2. Front(atexit[t]) \in Seq({"signal_all", "unlock"})
    BY <2>1, LastCallback
  <2> QED
    BY <1>1, <2>2 DEF TypeOK
<1>7. CASE atexit[t] = <<"signal_all", "unlock">>
  <2>1. /\ holders' = holders \ {t} /\ pc' = pc /\ tmo' = tmo /\ owed' = owed
        /\ nsleep' = nsleep /\ unlocked' = unlocked /\ err' = err
        /\ atexit'[t] = <<"signal_all">>
    BY <1>5, <1>7, LastCallback DEF RunAtExit
  <2>2. TypeOK'
    BY <1>1, <1>6, <2>1 DEF TypeOK, CondTypeOK
  <2>3. OthersStay(t)
    BY <1>1, <1>5, <2>1 DEF OthersStay, Stays
  <2>4. Placed(t)' /\ Calling(t)' /\ Viewed(t)' /\ Owned(t)'
    BY <1>1, <1>2, <1>3, <2>1 DEF ThreadInv, Placed, Calling, Viewed, Owned, WaitPC
  <2>5. Exiting(t)'
    BY <1>1, <2>1 DEF Exiting
  <2>6. <<"signal_all">> # <<"signal_all", "unlock">>
    OBVIOUS
  <2>7. Held(t)'
    BY <1>1, <1>2, <2>1, <2>6 DEF Held, Has, ThreadInv, Placed, WaitPC
  <2>8. Exclusive' /\ OneOwner'
    BY <1>1, <1>2, <2>1 DEF Exclusive, OneOwner
  <2> QED
    BY <2>2, <2>3, <2>4, <2>5, <2>7, <2>8, OthersKeepInv DEF ThreadInv
<1>8. CASE atexit[t] = <<"signal_all">>
  <2>1. Signals(t, "all") /\ atexit'[t] = <<>>
    BY <1>5, <1>8, LastCallback DEF RunAtExit
  <2>2. Exiting(t)' /\ t \notin holders
    BY <1>1, <1>2, <1>8, <2>1 DEF ThreadInv, Exiting, Held, Has
  <2>3. /\ CondTypeOK' /\ \A u \in Thread : ThreadInv(u)'
        /\ Exclusive' /\ OneOwner'
    BY <1>1, <1>5, <2>1, <2>2, SignalsKeepsInv
  <2> QED
    BY <1>1, <1>6, <2>3 DEF TypeOK
<1> QED
  BY <1>4, <1>7, <1>8

-----------------------------------------------------------------------------
LEMMA LockInit == AInit => LockInv
<1> SUFFICES ASSUME AInit PROVE LockInv
  OBVIOUS
<1> USE DEF AInit, Init
<1>1. TypeOK
  <2>1. CondTypeOK
    BY DEF CondTypeOK, PC, TimeoutKind
  <2>2. call \in [Thread -> Functions]
    BY SleepIsWait
  <2>3. atexit \in [Thread -> Seq({"signal_all", "unlock"})]
    BY LastCallback
  <2>4. made \in 0 .. MaxItems
    BY BoundsAssumption
  <2> QED
    BY <2>1, <2>2, <2>3, <2>4 DEF TypeOK
<1>2. ASSUME NEW t \in Thread PROVE ThreadInv(t)
  <2>1. owner # t
    BY NoneAssumption
  <2> QED
    BY <2>1 DEF ThreadInv, Placed, Calling, Exiting, Held, Has, Viewed, Owned, IsOwner, WaitPC
<1>3. Exclusive /\ OneOwner
  BY DEF Exclusive, OneOwner
<1> QED
  BY <1>1, <1>2, <1>3 DEF LockInv

LEMMA LockNext == LockInv /\ [ANext]_avars => LockInv'
<1> SUFFICES ASSUME LockInv, [ANext]_avars PROVE LockInv'
  OBVIOUS
<1>1. ASSUME NEW t \in Thread, NEW f \in Functions, CallLock(t, f) PROVE LockInv'
  BY <1>1, LockCallLock
<1>2. ASSUME NEW t \in Thread, NEW f \in Functions, CallUnlock(t, f) PROVE LockInv'
  BY <1>2, LockCallUnlock
<1>3. ASSUME NEW t \in Thread, NEW f \in Functions, CallCondWait(t, f) PROVE LockInv'
  BY <1>3, LockCallCondWait
<1>4. ASSUME NEW t \in Thread, NEW f \in Functions, CallNotify(t, f) PROVE LockInv'
  BY <1>4, LockCallNotify
<1>5. ASSUME NEW t \in Thread,
             Recurse(t) \/ Acquire(t) \/ FailToAcquire(t) \/ Own(t) \/ Disown(t) \/ Give(t)
      PROVE  LockInv'
  BY <1>5, LockRecurse, LockAcquire, LockFailToAcquire, LockOwn, LockDisown, LockGive
<1>6. ASSUME NEW t \in Thread,
             Callback(t) \/ RelockAfterWait(t) \/ RestoreDepth(t) \/ NextRound(t) \/ WaitReturns(t)
      PROVE  LockInv'
  BY <1>6, LockSaveDepth, LockUnlockToWait, LockSleepStep, LockRelockAfterWait,
     LockRestoreDepth, LockNextRound, LockWaitReturns DEF Callback
<1>7. ASSUME NEW t \in Thread, Put(t) \/ Take(t) \/ NotifyAtExit(t) \/ RunAtExit(t)
      PROVE  LockInv'
  BY <1>7, LockPutTake, LockNotifyAtExit, LockRunAtExit
<1>8. ASSUME NEW w \in Thread, NEW r \in Thread, Wake(w, r) PROVE LockInv'
  BY <1>8, LockWake
<1>9. CASE UNCHANGED avars
  <2>1. LockInv' = LockInv
    BY <1>9 DEF avars, vars, lockVars, callVars, itemVars, LockInv, TypeOK, CondTypeOK,
       ThreadInv, Placed, Calling, Exiting, Held, Has, Viewed, Owned, IsOwner, Exclusive,
       OneOwner, HasOwner, Fits
  <2> QED
    BY <2>1
<1> QED
  BY <1>1, <1>2, <1>3, <1>4, <1>5, <1>6, <1>7, <1>8, <1>9 DEF ANext

LEMMA LockInvHolds == ASpec => []LockInv
BY LockInit, LockNext, PTL DEF ASpec

(***************************************************************************)
(* The variables of the callers, the lock and the condition variable have  *)
(* their types.                                                            *)
(***************************************************************************)
THEOREM TypeCorrect == ASpec => []TypeOK
BY LockInvHolds, PTL DEF LockInv

(***************************************************************************)
(* What a program concludes from the results of its calls, of whichever    *)
(* interface, is true: who counts a lock has it, and has it as often as he *)
(* counts; who counts none has none.                                       *)
(***************************************************************************)
THEOREM ResultsTellTheTruth == ASpec => []ClientViewIsTrue
<1>1. LockInv => ClientViewIsTrue
  <2> SUFFICES ASSUME LockInv, NEW t \in Thread
               PROVE  /\ at[t] = "out" =>
                            /\ t \in holders <=> view[t] > 0
                            /\ HasOwner => (owner = t <=> view[t] > 0)
                            /\ HasOwner /\ view[t] > 0 => depth = view[t]
                      /\ at[t] = "exit" /\ atexit[t] = <<>> => t \notin holders
    BY DEF ClientViewIsTrue
  <2>1. ThreadInv(t)
    BY DEF LockInv
  <2>2. pc[t] # "unlock" \/ at[t] = "wait"
    BY <2>1 DEF ThreadInv, Placed, WaitPC
  <2>3. ASSUME at[t] = "out" PROVE t \in holders <=> view[t] > 0
    BY <2>1, <2>2, <2>3 DEF ThreadInv, Held, Has
  <2>4. ASSUME at[t] = "out", HasOwner PROVE owner = t <=> view[t] > 0
    BY <2>1, <2>2, <2>4 DEF ThreadInv, Owned, IsOwner
  <2>5. ASSUME at[t] = "out", HasOwner, view[t] > 0 PROVE depth = view[t]
    BY <2>1, <2>4, <2>5 DEF ThreadInv, Owned
  <2>6. ASSUME at[t] = "exit", atexit[t] = <<>> PROVE t \notin holders
    BY <2>1, <2>2, <2>6 DEF ThreadInv, Held, Has
  <2> QED
    BY <2>3, <2>4, <2>5, <2>6
<1> QED
  BY <1>1, LockInvHolds, PTL

(***************************************************************************)
(* The owner of a recursive mutex is who holds it, and nobody else does:   *)
(* the owner is read with no lock, and still no thread finds itself to be  *)
(* the owner of a mutex that it has not locked.                            *)
(***************************************************************************)
THEOREM OwnersHold == ASpec => []OwnerIsHolder
<1>1. LockInv => OwnerIsHolder
  <2> SUFFICES ASSUME LockInv, owner # None PROVE holders = {owner}
    BY DEF OwnerIsHolder, LockInv, OneOwner
  <2>1. owner \in Thread /\ HasOwner
    BY DEF LockInv, TypeOK, OneOwner
  <2>2. owner \in holders
    BY <2>1 DEF LockInv, ThreadInv, Owned, Held, Has, IsOwner
  <2>3. \A u \in holders : u = owner
    BY <2>1, <2>2, HolderAlone DEF LockInv, TypeOK, CondTypeOK
  <2> QED
    BY <2>2, <2>3
<1> QED
  BY <1>1, LockInvHolds, PTL

-----------------------------------------------------------------------------
(* The sleeping count and the releases, as SleepQueue has them *)

LEMMA NobodyMoves ==
    ASSUME pc' = pc, owed' = owed, nsleep' = nsleep
    PROVE  UNCHANGED SQ!vars
BY DEF SQ!vars, Enlisted, Asleep

LEMMA WaitEnlists ==
    ASSUME LockInv, NEW t \in Thread, NEW when, Waits(t, when)
    PROVE  SQ!Enlist(t) /\ Enlisted' = Enlisted \cup {t}
<1>1. /\ pc[t] = "idle" /\ nsleep' = nsleep + 1 /\ owed' = owed
      /\ pc'[t] \in {"unlock", "wait"} /\ \A u \in Thread \ {t} : pc'[u] = pc[u]
  BY Waited DEF LockInv
<1>2. owed[t] = 0
  BY <1>1, InCall DEF ThreadInv, Placed, LockInv, TypeOK, CondTypeOK
<1>3. t \notin Enlisted /\ Enlisted' = Enlisted \cup {t}
  BY <1>1 DEF Enlisted, Asleep
<1> QED
  BY <1>1, <1>2, <1>3 DEF SQ!Enlist

LEMMA SignalWakes ==
    ASSUME LockInv, NEW t \in Thread, NEW who, Signals(t, who), pc[t] = "idle"
    PROVE  /\ \/ UNCHANGED SQ!vars
              \/ \E n \in 1 .. nsleep : SQ!Wake(t, n)
           /\ Enlisted' = Enlisted
<1>1. CASE nsleep = 0
  BY <1>1, NobodyMoves DEF Signals, vars, SQ!vars
<1>2. CASE nsleep # 0
  <2>1. PICK n \in 1 .. nsleep : nsleep' = nsleep - n /\ owed' = [owed EXCEPT ![t] = n]
    BY <1>2, Signaled DEF LockInv
  <2>2. pc'[t] = "release" /\ \A u \in Thread \ {t} : pc'[u] = pc[u]
    BY <1>2, Signaled DEF LockInv
  <2>3. Enlisted' = Enlisted /\ t \notin Enlisted
    BY <2>2 DEF Enlisted, Asleep
  <2>4. owed[t] = 0
    BY InCall DEF ThreadInv, Placed, LockInv, TypeOK, CondTypeOK
  <2> QED
    BY <2>1, <2>3, <2>4 DEF SQ!Wake
<1> QED
  BY <1>1, <1>2

LEMMA WakeMeets ==
    ASSUME LockInv, NEW w \in Thread, NEW r \in Thread, Wake(w, r)
    PROVE  SQ!Meet(w, r)
<1> DEFINE woken == IF w \in unlocked THEN "relock" ELSE "idle"
           rest == IF owed[r] = 1 THEN "idle" ELSE "release"
<1>1. /\ pc[r] = "release" /\ pc[w] \in {"wait", "poll"} /\ nsleep' = nsleep
      /\ owed' = [owed EXCEPT ![r] = @ - 1]
      /\ pc' = [pc EXCEPT ![w] = woken, ![r] = IF owed[r] = 1 THEN "idle" ELSE @]
  BY DEF Wake, Wakeup, Handoff, Parked, Afterwards
<1>2. owed[r] > 0
  BY <1>1, InCall DEF ThreadInv, Placed
<1>3. /\ pc'[w] = woken /\ pc'[r] = rest
      /\ \A u \in Thread \ {w, r} : pc'[u] = pc[u]
  BY <1>1 DEF LockInv, TypeOK, CondTypeOK
<1>4. w \in Enlisted /\ Enlisted' = Enlisted \ {w}
  <2>1. pc'[w] \notin {"wait", "leave", "poll", "unlock"}
    BY <1>3
  <2>2. r # w => pc'[r] \notin {"wait", "leave", "poll", "unlock"}
    BY <1>3
  <2> HIDE DEF woken, rest
  <2> QED
    BY <1>1, <1>3, <2>1, <2>2 DEF Enlisted, Asleep
<1> QED
  BY <1>1, <1>2, <1>4 DEF SQ!Meet

LEMMA LeaveDeparts ==
    ASSUME LockInv, NEW t \in Thread, LeaveCounted(t)
    PROVE  SQ!Depart(t)
<1>1. /\ pc[t] = "leave" /\ pc' = [pc EXCEPT ![t] = IF t \in unlocked THEN "relock" ELSE "idle"]
      /\ nsleep > 0 /\ nsleep' = nsleep - 1 /\ owed' = owed
  BY DEF LeaveCounted, Afterwards, Returns
<1>2. pc'[t] \in {"relock", "idle"} /\ \A u \in Thread \ {t} : pc'[u] = pc[u]
  BY <1>1 DEF LockInv, TypeOK, CondTypeOK
<1>3. t \in Enlisted /\ Enlisted' = Enlisted \ {t}
  BY <1>1, <1>2 DEF Enlisted, Asleep
<1> QED
  BY <1>1, <1>3 DEF SQ!Depart

(***************************************************************************)
(* A thread in a wait goes on, with its place on the count, or without one *)
(* as before.                                                              *)
(***************************************************************************)
LEMMA MovesOn ==
    ASSUME LockInv, NEW t \in Thread,
           \/ UnlockToWait(t) \/ LeaveOwed(t) \/ WaitTimeout(t) \/ RelockAfterWait(t)
    PROVE  UNCHANGED SQ!vars
<1>1. \/ pc[t] \in {"unlock", "leave", "wait", "poll"}
         /\ \E p \in {"wait", "poll", "leave"} : pc' = [pc EXCEPT ![t] = p]
      \/ pc[t] = "relock" /\ pc' = [pc EXCEPT ![t] = "idle"]
  BY DEF UnlockToWait, UnlockCallback, Sleeps, LeaveOwed, AwaitsRelease, WaitTimeout,
     WaitTimesOut, PollTimesOut, RelockAfterWait, Relock
<1>2. Enlisted' = Enlisted
  BY <1>1 DEF Enlisted, Asleep, LockInv, TypeOK, CondTypeOK
<1>3. owed' = owed /\ nsleep' = nsleep
  BY DEF UnlockToWait, UnlockCallback, Sleeps, LeaveOwed, AwaitsRelease, WaitTimeout,
     WaitTimesOut, PollTimesOut, RelockAfterWait, Relock
<1> QED
  BY <1>2, <1>3 DEF SQ!vars

(***************************************************************************)
(* Whatever program uses the condition variable, through any interface and *)
(* with any lock or none, its sleeping count and its releases follow the   *)
(* protocol of SleepQueue, as those of the other primitives do.            *)
(***************************************************************************)
THEOREM CondSleepsProperly == ASpec => SleepsProperly
<1>1. AInit => SQ!Init
  BY DEF AInit, Init, SQ!Init, Enlisted, Asleep
<1>2. LockInv /\ [ANext]_avars => [SQ!Next]_(SQ!vars)
  <2> SUFFICES ASSUME LockInv, [ANext]_avars PROVE SQ!Next \/ UNCHANGED SQ!vars
    BY DEF SQ!vars
  <2>1. ASSUME NEW t \in Thread, NEW f \in Functions, CallLock(t, f) \/ CallUnlock(t, f)
        PROVE  UNCHANGED SQ!vars
    BY <2>1, NobodyMoves DEF CallLock, CallUnlock, vars
  <2>2. ASSUME NEW t \in Thread, NEW f \in Functions, CallCondWait(t, f) PROVE SQ!Next
    <3>1. SQ!Enlist(t)
      BY <2>2, WaitEnlists DEF CallCondWait
    <3> QED
      BY <3>1 DEF SQ!Next
  <2>3. ASSUME NEW t \in Thread, NextRound(t) PROVE SQ!Next
    <3>1. SQ!Enlist(t)
      BY <2>3, WaitEnlists DEF NextRound
    <3> QED
      BY <3>1 DEF SQ!Next
  <2>4. ASSUME NEW t \in Thread, NEW who, Signals(t, who), pc[t] = "idle"
        PROVE  SQ!Next \/ UNCHANGED SQ!vars
    BY <2>4, SignalWakes DEF SQ!Next
  <2>5. ASSUME NEW t \in Thread, NEW f \in Functions, CallNotify(t, f)
        PROVE  SQ!Next \/ UNCHANGED SQ!vars
    BY <2>4, <2>5 DEF CallNotify, MayCall
  <2>6. ASSUME NEW t \in Thread, RunAtExit(t) PROVE SQ!Next \/ UNCHANGED SQ!vars
    <3>1. CASE Last(atexit[t]) = "unlock"
      BY <2>6, <3>1, NobodyMoves DEF RunAtExit
    <3>2. CASE Last(atexit[t]) # "unlock"
      BY <2>4, <2>6, <3>2 DEF RunAtExit
    <3> QED
      BY <3>1, <3>2
  <2>7. ASSUME NEW t \in Thread,
               \/ Recurse(t) \/ Acquire(t) \/ FailToAcquire(t) \/ Own(t) \/ Disown(t) \/ Give(t)
               \/ SaveDepth(t) \/ RestoreDepth(t) \/ WaitReturns(t)
               \/ Put(t) \/ Take(t) \/ NotifyAtExit(t)
        PROVE  UNCHANGED SQ!vars
    <3>1. pc' = pc /\ owed' = owed /\ nsleep' = nsleep
      BY <2>7 DEF Recurse, Acquire, FailToAcquire, Own, Disown, Give, SaveDepth, RestoreDepth,
         WaitReturns, Put, Take, NotifyAtExit, vars
    <3> QED
      BY <3>1, NobodyMoves
  <2>8. ASSUME NEW t \in Thread, LeaveCounted(t) PROVE SQ!Next
    BY <2>8, LeaveDeparts DEF SQ!Next
  <2>9. ASSUME NEW t \in Thread,
               UnlockToWait(t) \/ LeaveOwed(t) \/ WaitTimeout(t) \/ RelockAfterWait(t)
        PROVE  UNCHANGED SQ!vars
    BY <2>9, MovesOn
  <2>10. ASSUME NEW w \in Thread, NEW r \in Thread, Wake(w, r) PROVE SQ!Next
    BY <2>10, WakeMeets DEF SQ!Next
  <2>11. CASE UNCHANGED avars
    BY <2>11, NobodyMoves DEF avars, vars
  <2> QED
    BY <2>1, <2>2, <2>3, <2>5, <2>6, <2>7, <2>8, <2>9, <2>10, <2>11
       DEF ANext, Callback, SleepStep
<1> QED
  BY <1>1, <1>2, LockInvHolds, PTL DEF ASpec, SleepsProperly, SQ!Spec

(***************************************************************************)
(* So what is proved of SleepQueue holds here: every thread that has       *)
(* joined the count is on it, or is owed a release.                        *)
(***************************************************************************)
SQP == INSTANCE SleepQueueProofs WITH asleep <- Enlisted

LEMMA SameSizes ==
    \A S : SQP!Cardinality(S) = Cardinality(S) /\ (SQP!IsFiniteSet(S) <=> IsFiniteSet(S))
BY DEF SQP!Cardinality, Cardinality, SQP!IsFiniteSet, IsFiniteSet

Covered ==
    /\ IsFiniteSet(SQ!Debts)
    /\ nsleep + Cardinality(SQ!Debts) = Cardinality(Enlisted)

LEMMA SleepersCovered == ASpec => []Covered
<1> USE DEF SQ!Init, SQP!Init, SQ!vars, SQP!vars, SQ!Next, SQP!Next,
            SQ!Enlist, SQP!Enlist, SQ!Depart, SQP!Depart, SQ!Wake, SQP!Wake,
            SQ!Meet, SQP!Meet, SQ!Spec, SQP!Spec
<1>1. SQ!Spec => []SQP!IInv
  BY SQP!IInvHolds, PTL
<1>2. SQP!IInv => Covered
  <2>1. SQP!Debts = SQ!Debts
    BY DEF SQP!Debts, SQ!Debts
  <2>2. SQP!IInv => SQP!Conservation /\ SQP!IsFiniteSet(SQP!Debts)
    BY DEF SQP!IInv
  <2> QED
    BY <2>1, <2>2, SameSizes DEF SQP!Conservation, Covered
<1> QED
  BY <1>1, <1>2, CondSleepsProperly, PTL DEF SleepsProperly

-----------------------------------------------------------------------------
(* The items *)

Fine == LockInv /\ Covered /\ ItemInv

LEMMA ThreadsAreCounted ==
    ASSUME NEW S \in SUBSET Thread
    PROVE  /\ IsFiniteSet(S) /\ Cardinality(S) \in Nat
           /\ \A t \in S : Cardinality(S \ {t}) = Cardinality(S) - 1
           /\ \A t \in Thread \ S : Cardinality(S \cup {t}) = Cardinality(S) + 1
BY FinitelyMany, FS_Subset, FS_CardinalityType, FS_AddElement, FS_RemoveElement

LEMMA SetsOfThreads ==
    /\ Asleep \in SUBSET Thread /\ Takers \in SUBSET Thread /\ Due \in SUBSET Thread
    /\ Enlisted \in SUBSET Thread
BY DEF Asleep, Takers, Woken, Due, Enlisted

LEMMA SetsOfThreadsNext ==
    /\ Asleep' \in SUBSET Thread /\ Takers' \in SUBSET Thread /\ Due' \in SUBSET Thread
    /\ Enlisted' \in SUBSET Thread
BY DEF Asleep, Takers, Woken, Due, Enlisted

LEMMA Sizes ==
    ASSUME Covered
    PROVE  /\ Cardinality(Asleep) \in Nat /\ Cardinality(Takers) \in Nat
           /\ Cardinality(Due) \in Nat /\ Cardinality(Enlisted) \in Nat
           /\ Cardinality(SQ!Debts) \in Nat
BY SetsOfThreads, ThreadsAreCounted, FS_CardinalityType DEF Covered

LEMMA SizesNext ==
    ASSUME Covered'
    PROVE  /\ Cardinality(Asleep') \in Nat /\ Cardinality(Takers') \in Nat
           /\ Cardinality(Due') \in Nat /\ Cardinality(Enlisted') \in Nat
           /\ Cardinality(SQ!Debts') \in Nat
BY SetsOfThreadsNext, ThreadsAreCounted, FS_CardinalityType DEF Covered

(***************************************************************************)
(* Without items nobody has to act, and without a count everybody asleep   *)
(* is owed a release.                                                      *)
(***************************************************************************)
LEMMA NoItems ==
    ASSUME Covered', items' = 0
    PROVE  Enough'
BY SizesNext DEF Enough

LEMMA NoCount ==
    ASSUME Covered', nsleep' = 0
    PROVE  Enough'
<1>1. Cardinality(Asleep') <= Cardinality(Enlisted')
  BY SetsOfThreadsNext, ThreadsAreCounted, FS_Subset DEF Enlisted
<1>2. Cardinality(Enlisted') = Cardinality(SQ!Debts')
  BY SizesNext DEF Covered
<1> QED
  BY <1>1, <1>2, SizesNext DEF Enough

LEMMA SameDebts == ASSUME owed' = owed PROVE SQ!Debts' = SQ!Debts
BY DEF SQ!Debts

(***************************************************************************)
(* What a step of another thread leaves alone.                             *)
(***************************************************************************)
Same(u) ==
    /\ pc'[u] = pc[u] /\ at'[u] = at[u] /\ call'[u] = call[u] /\ err'[u] = err[u]
    /\ want'[u] = want[u]

LEMMA SameKeeps ==
    ASSUME NEW t \in Thread, \A u \in Thread \ {t} : Same(u)
    PROVE  \A u \in Thread \ {t} :
               /\ u \in Woken' <=> u \in Woken
               /\ u \in Takers' <=> u \in Takers
               /\ u \in Due' <=> u \in Due
               /\ u \in Asleep' <=> u \in Asleep
               /\ Wants(u) => Wants(u)'
BY DEF Same, Woken, Takers, Due, Asleep, Wants

(***************************************************************************)
(* A step of t that neither makes an item nor takes one.  What it does     *)
(* matters only while there are items, and no round has begun late.        *)
(***************************************************************************)
LEMMA KeepsItemInv ==
    ASSUME Fine, Covered', NEW t \in Thread, \A u \in Thread \ {t} : Same(u), Wants(t)',
           items' = items, missed' = missed, atexit' = atexit, owed' = owed, kind' = kind,
           \/ items = 0 \/ missed
           \/ /\ t \in Takers' <=> t \in Takers
              /\ t \in Due' <=> t \in Due
              /\ t \in Asleep' => t \in Asleep
              /\ pc'[t] = "unlock" => pc[t] = "unlock"
    PROVE  ItemInv'
<1> USE DEF Fine, ItemInv
<1>1. Wanting'
  BY SameKeeps DEF Wanting
<1>2. SeenNone'
  BY DEF SeenNone, Same
<1>3. CASE items = 0
  BY <1>1, <1>2, <1>3, NoItems
<1>4. CASE missed
  BY <1>1, <1>2, <1>4 DEF Enough
<1>5. CASE ~(items = 0 \/ missed)
  <2>1. Takers' = Takers /\ Due' = Due /\ Asleep' \subseteq Asleep
    BY <1>5, SameKeeps, SetsOfThreads, SetsOfThreadsNext
  <2>2. Cardinality(Asleep') <= Cardinality(Asleep)
    BY <2>1, SetsOfThreads, ThreadsAreCounted, FS_Subset
  <2>3. SQ!Debts' = SQ!Debts
    BY SameDebts
  <2>4. Enough'
    BY <1>5, <2>1, <2>2, <2>3, Sizes, SizesNext DEF Enough, SignalsAll
  <2> QED
    BY <1>1, <1>2, <2>4
<1> QED
  BY <1>3, <1>4, <1>5

(***************************************************************************)
(* The lock, which is no concern of who waits for items.                   *)
(***************************************************************************)
LEMMA ItemCallLock ==
    ASSUME Fine, Covered', NEW t \in Thread, NEW f \in Functions, CallLock(t, f)
    PROVE  ItemInv'
<1> USE DEF Fine, LockInv
<1>1. /\ f.op = "lock" /\ at[t] = "out" /\ pc[t] = "idle"
      /\ want[t] = "hungry" => items = 0
      /\ want[t] # "due"
      /\ pc' = pc /\ err' = err /\ owed' = owed /\ kind' = kind /\ atexit' = atexit
      /\ items' = items /\ missed' = missed
      /\ want' = [want EXCEPT ![t] = "none"]
  BY DEF CallLock, MayCall, vars, lockVars
<1>2. /\ at'[t] = "out" \/ call'[t].op = "lock"
      /\ \A u \in Thread \ {t} : at'[u] = at[u] /\ call'[u] = call[u]
  BY <1>1, Returned DEF CallLock, Calls, At, TypeOK
<1>3. want'[t] = "none" /\ \A u \in Thread \ {t} : want'[u] = want[u]
  BY <1>1 DEF TypeOK
<1>4. Wants(t)' /\ \A u \in Thread \ {t} : Same(u)
  BY <1>1, <1>2, <1>3 DEF Same, Wants
<1>5. want[t] # "hungry" => (t \in Takers' <=> t \in Takers)
  BY <1>1, <1>2, <1>3 DEF Takers, Woken
<1>6. /\ t \in Due' <=> t \in Due
      /\ t \in Asleep' => t \in Asleep
  BY <1>1, <1>3 DEF Due, Asleep
<1> QED
  BY <1>1, <1>4, <1>5, <1>6, KeepsItemInv

LEMMA ItemCallUnlock ==
    ASSUME Fine, Covered', NEW t \in Thread, NEW f \in Functions, CallUnlock(t, f)
    PROVE  ItemInv'
<1> USE DEF Fine, LockInv
<1>1. /\ at[t] = "out" /\ pc[t] = "idle"
      /\ want[t] = "hungry" => items = 0
      /\ pc' = pc /\ err' = err /\ owed' = owed /\ kind' = kind /\ atexit' = atexit
      /\ items' = items /\ missed' = missed /\ call' = call
      /\ want' = [want EXCEPT ![t] = IF want[t] = "hungry" THEN "none" ELSE want[t]]
      /\ \E to \in {"give", "disown", "out"} : at' = [at EXCEPT ![t] = to]
  BY DEF CallUnlock, MayCall, At, vars
<1>2. at'[t] \in {"give", "disown", "out"} /\ \A u \in Thread \ {t} : at'[u] = at[u]
  BY <1>1 DEF TypeOK
<1>3. /\ want'[t] = IF want[t] = "hungry" THEN "none" ELSE want[t]
      /\ \A u \in Thread \ {t} : want'[u] = want[u]
  BY <1>1 DEF TypeOK
<1>4. Wants(t)' /\ \A u \in Thread \ {t} : Same(u)
  BY <1>1, <1>2, <1>3 DEF Same, Wants, TypeOK
<1>5. want[t] # "hungry" => (t \in Takers' <=> t \in Takers)
  BY <1>1, <1>2, <1>3 DEF Takers, Woken
<1>6. /\ t \in Due' <=> t \in Due
      /\ t \in Asleep' => t \in Asleep
  BY <1>1, <1>3 DEF Due, Asleep
<1> QED
  BY <1>1, <1>4, <1>5, <1>6, KeepsItemInv

LEMMA ItemLockStep ==
    ASSUME Fine, Covered', NEW t \in Thread,
           Recurse(t) \/ Acquire(t) \/ FailToAcquire(t) \/ Own(t) \/ Disown(t) \/ Give(t)
    PROVE  ItemInv'
<1> USE DEF Fine, LockInv
<1>1. /\ pc' = pc /\ err' = err /\ owed' = owed /\ kind' = kind
      /\ want' = want /\ atexit' = atexit /\ items' = items /\ missed' = missed
  BY DEF Recurse, Acquire, FailToAcquire, Own, Disown, Give, vars, lockVars, itemVars
<1> DEFINE Locking == at[t] \in {"check", "acquire"} \/ (at[t] = "own" /\ call[t].op = "lock")
<1>2. \/ Locking /\ \E code : LockReturns(t, code)
      \/ Locking /\ call' = call /\ \E to \in {"acquire", "own"} : at' = [at EXCEPT ![t] = to]
      \/ at[t] = "disown" /\ at' = [at EXCEPT ![t] = "give"] /\ call' = call
      \/ at[t] = "give" /\ at' = [at EXCEPT ![t] = "out"] /\ call' = call
  <2>1. ASSUME Recurse(t)
        PROVE  /\ Locking
               /\ \/ \E code : LockReturns(t, code)
                  \/ call' = call /\ at' = [at EXCEPT ![t] = "acquire"]
    <3>1. CASE owner = t /\ kind \in Recursive
      BY <2>1, <3>1 DEF Recurse
    <3>2. CASE owner = t /\ kind \notin Recursive
      BY <2>1, <3>2 DEF Recurse
    <3>3. CASE owner # t
      BY <2>1, <3>3 DEF Recurse, At
    <3> QED
      BY <3>1, <3>2, <3>3
  <2>2. ASSUME Acquire(t)
        PROVE  /\ Locking
               /\ \/ \E code : LockReturns(t, code)
                  \/ call' = call /\ at' = [at EXCEPT ![t] = "own"]
    <3>1. CASE HasOwner
      BY <2>2, <3>1 DEF Acquire, At
    <3>2. CASE ~HasOwner
      BY <2>2, <3>2 DEF Acquire
    <3> QED
      BY <3>1, <3>2
  <2>3. ASSUME Own(t) PROVE Locking /\ \E code : LockReturns(t, code)
    BY <2>3 DEF Own
  <2>4. ASSUME FailToAcquire(t) PROVE Locking /\ \E code : LockReturns(t, code)
    BY <2>4 DEF FailToAcquire
  <2>5. ASSUME Disown(t)
        PROVE  at[t] = "disown" /\ at' = [at EXCEPT ![t] = "give"] /\ call' = call
    BY <2>5 DEF Disown, At
  <2>6. ASSUME Give(t)
        PROVE  at[t] = "give" /\ at' = [at EXCEPT ![t] = "out"] /\ call' = call
    BY <2>6 DEF Give, At
  <2> HIDE DEF Locking
  <2> QED
    BY <2>1, <2>2, <2>3, <2>4, <2>5, <2>6
<1>3. \A u \in Thread \ {t} : at'[u] = at[u] /\ call'[u] = call[u]
  BY <1>2, Returned DEF TypeOK
<1>4. t \notin Woken
  <2>1. ThreadInv(t)
    OBVIOUS
  <2> QED
    BY <1>2, <2>1 DEF Woken, ThreadInv, Calling
<1>5. /\ t \notin Woken'
      /\ \/ at[t] \in {"check", "acquire", "own"}
         \/ at'[t] \in {"out", "disown", "give"}
  <2>1. ThreadInv(t)
    OBVIOUS
  <2>2. ASSUME NEW code, LockReturns(t, code) PROVE at'[t] = "out"
    BY <2>2, Returned
  <2> QED
    BY <1>2, <2>1, <2>2 DEF Woken, ThreadInv, Calling, TypeOK
<1>6. Wants(t)' /\ \A u \in Thread \ {t} : Same(u)
  <2>1. Wants(t)
    BY DEF ItemInv, Wanting
  <2>2. want[t] = "hungry" => at[t] = "out"
    BY <2>1 DEF Wants
  <2> QED
    BY <1>1, <1>2, <1>3, <1>5, <2>1, <2>2 DEF Same, Wants
<1>7. /\ t \in Takers' <=> t \in Takers
      /\ t \in Due' <=> t \in Due
      /\ t \in Asleep' => t \in Asleep
  BY <1>1, <1>4, <1>5 DEF Takers, Due, Asleep
<1> QED
  BY <1>1, <1>6, <1>7, KeepsItemInv

(***************************************************************************)
(* A wait, from its beginning without items to its return for one.         *)
(***************************************************************************)
LEMMA ItemCallCondWait ==
    ASSUME Fine, Covered', NEW t \in Thread, NEW f \in Functions, CallCondWait(t, f)
    PROVE  ItemInv'
<1> USE DEF Fine, LockInv
<1>1. /\ at[t] = "out" /\ Waits(t, f.when) /\ kind' = kind
      /\ kind # "none" => items = 0
      /\ items' = items /\ missed' = missed /\ atexit' = atexit
      /\ want' = [want EXCEPT ![t] = "none"]
      /\ at' = [at EXCEPT ![t] = "wait"] /\ call' = [call EXCEPT ![t] = f]
  BY DEF CallCondWait, MayCall, Calls, At, lockVars
<1>2. items = 0
  BY <1>1 DEF ItemInv, SeenNone
<1>3. /\ owed' = owed /\ err' = err /\ pc'[t] \in {"unlock", "wait"}
      /\ \A u \in Thread \ {t} : pc'[u] = pc[u]
  BY <1>1, Waited
<1>4. /\ want'[t] = "none"
      /\ \A u \in Thread \ {t} : want'[u] = want[u] /\ at'[u] = at[u] /\ call'[u] = call[u]
  BY <1>1 DEF TypeOK
<1>5. Wants(t)' /\ \A u \in Thread \ {t} : Same(u)
  BY <1>3, <1>4 DEF Same, Wants
<1> QED
  BY <1>1, <1>2, <1>3, <1>5, KeepsItemInv

LEMMA ItemWaitStep ==
    ASSUME Fine, Covered', NEW t \in Thread, Callback(t)
    PROVE  ItemInv'
<1> USE DEF Fine, LockInv
<1>1. /\ at' = at /\ call' = call /\ want' = want /\ kind' = kind /\ atexit' = atexit
      /\ items' = items /\ missed' = missed
  BY DEF Callback, SaveDepth, UnlockToWait, SleepStep, lockVars, callVars, itemVars
<1>2. /\ owed' = owed
      /\ \/ pc[t] = "unlock" /\ pc' = pc /\ err' = err
         \/ pc[t] = "unlock" /\ pc' = [pc EXCEPT ![t] = "wait"] /\ err' = err
         \/ /\ pc[t] \in {"wait", "leave", "poll"} /\ err' = err
            /\ \E to \in {"leave", "poll"} : pc' = [pc EXCEPT ![t] = to]
         \/ /\ pc[t] = "leave" /\ err' = [err EXCEPT ![t] = -1]
            /\ \E to \in {"relock", "idle"} : pc' = [pc EXCEPT ![t] = to]
  <2>1. CASE SaveDepth(t) \/ UnlockToWait(t)
    BY <2>1 DEF SaveDepth, vars, UnlockToWait, UnlockCallback, Sleeps
  <2>2. CASE LeaveCounted(t)
    BY <2>2 DEF LeaveCounted, Returns, Afterwards
  <2>3. CASE LeaveOwed(t) \/ WaitTimeout(t)
    BY <2>3 DEF LeaveOwed, AwaitsRelease, WaitTimeout, WaitTimesOut, PollTimesOut
  <2> QED
    BY <2>1, <2>2, <2>3 DEF Callback, SleepStep
<1>3. /\ \A u \in Thread \ {t} : pc'[u] = pc[u] /\ err'[u] = err[u]
      /\ pc'[t] # "release" /\ t \notin Woken'
      /\ pc'[t] = "unlock" => pc[t] = "unlock"
      /\ pc[t] # "unlock" /\ t \in Asleep' => t \in Asleep
  BY <1>2 DEF TypeOK, CondTypeOK, Woken, Asleep
<1>4. t \notin Woken
  BY <1>2 DEF Woken
<1>5. pc[t] = "unlock" => items = 0 \/ missed
  BY DEF ItemInv, SeenNone
<1>6. Wants(t)' /\ \A u \in Thread \ {t} : Same(u)
  BY <1>1, <1>3 DEF Same, Wants, ItemInv, Wanting
<1>7. /\ t \in Takers' <=> t \in Takers
      /\ t \in Due' <=> t \in Due
  BY <1>1, <1>3, <1>4 DEF Takers, Due
<1> QED
  BY <1>1, <1>2, <1>3, <1>5, <1>6, <1>7, KeepsItemInv

LEMMA ItemRelock ==
    ASSUME Fine, Covered', NEW t \in Thread, RelockAfterWait(t) \/ RestoreDepth(t)
    PROVE  ItemInv'
<1> USE DEF Fine, LockInv
<1>1. /\ call' = call /\ want' = want /\ kind' = kind /\ atexit' = atexit /\ err' = err
      /\ items' = items /\ missed' = missed /\ owed' = owed
  BY DEF RelockAfterWait, Relock, RestoreDepth, vars, itemVars
<1>2. \/ /\ pc[t] = "relock" /\ pc' = [pc EXCEPT ![t] = "idle"]
         /\ \E to \in {"own", "end"} : at' = [at EXCEPT ![t] = to]
      \/ at[t] = "own" /\ pc' = pc /\ at' = [at EXCEPT ![t] = "end"]
  <2>1. CASE RelockAfterWait(t)
    BY <2>1 DEF RelockAfterWait, Relock, At
  <2>2. CASE RestoreDepth(t)
    BY <2>2 DEF RestoreDepth, vars, At
  <2> QED
    BY <2>1, <2>2
<1>3. ThreadInv(t) /\ Wants(t)
  BY DEF ItemInv, Wanting
<1>4. /\ at[t] \in {"wait", "own"} /\ at'[t] \in {"own", "end"}
      /\ pc[t] \in {"relock", "idle"} /\ pc'[t] = "idle"
      /\ \A u \in Thread \ {t} : pc'[u] = pc[u] /\ at'[u] = at[u]
  <2>1. pc[t] = "relock" => at[t] = "wait"
    BY <1>3 DEF ThreadInv, Placed, WaitPC
  <2>2. at[t] = "own" => pc[t] = "idle"
    BY InCall
  <2> QED
    BY <1>2, <2>1, <2>2 DEF TypeOK, CondTypeOK
<1>5. Wants(t)' /\ \A u \in Thread \ {t} : Same(u)
  BY <1>1, <1>3, <1>4 DEF Same, Wants
<1>6. /\ t \in Takers' <=> t \in Takers
      /\ t \in Due' <=> t \in Due
      /\ t \in Asleep' => t \in Asleep
  BY <1>1, <1>4 DEF Takers, Woken, Due, Asleep
<1> QED
  BY <1>1, <1>4, <1>5, <1>6, KeepsItemInv

LEMMA ItemWaitReturns ==
    ASSUME Fine, Covered', NEW t \in Thread, WaitReturns(t)
    PROVE  ItemInv'
<1> USE DEF Fine, LockInv
<1>1. /\ EndsWait(t) /\ at' = [at EXCEPT ![t] = "out"] /\ call' = [call EXCEPT ![t] = mcf_sleep]
      /\ want' = [want EXCEPT ![t] = IF kind # "none" /\ err[t] = 0 THEN "hungry" ELSE "none"]
      /\ pc' = pc /\ err' = err /\ owed' = owed /\ kind' = kind /\ atexit' = atexit
      /\ items' = items /\ missed' = missed
  BY DEF WaitReturns, At, vars, lockVars
<1>2. /\ at[t] \in {"wait", "end"} /\ pc[t] = "idle" /\ call[t].op = "wait"
      /\ want[t] \notin {"hungry", "due"}
  <2>1. Wants(t) /\ ThreadInv(t)
    BY DEF ItemInv, Wanting
  <2> QED
    BY <1>1, <2>1, InCall DEF EndsWait, Wants, ThreadInv, Calling
<1>3. /\ want'[t] = (IF kind # "none" /\ err[t] = 0 THEN "hungry" ELSE "none")
      /\ at'[t] = "out"
      /\ \A u \in Thread \ {t} : want'[u] = want[u] /\ at'[u] = at[u] /\ call'[u] = call[u]
  BY <1>1 DEF TypeOK
<1>4. Wants(t)' /\ \A u \in Thread \ {t} : Same(u)
  BY <1>1, <1>2, <1>3 DEF Same, Wants
<1>5. items = 0 \/ (t \in Takers' <=> t \in Takers)
  <2>1. CASE kind = "none"
    BY <2>1 DEF ItemInv, SeenNone
  <2>2. CASE kind # "none"
    BY <1>2, <1>3, <2>2 DEF Takers, Woken
  <2> QED
    BY <2>1, <2>2
<1>6. /\ t \in Due' <=> t \in Due
      /\ t \in Asleep' => t \in Asleep
  BY <1>1, <1>2, <1>3 DEF Due, Asleep
<1> QED
  BY <1>1, <1>4, <1>5, <1>6, KeepsItemInv

(***************************************************************************)
(* A round that begins while there are items is told by `missed`.          *)
(***************************************************************************)
LEMMA ItemNextRound ==
    ASSUME Fine, Covered', NEW t \in Thread, NextRound(t)
    PROVE  ItemInv'
<1> USE DEF Fine, LockInv
<1>1. /\ EndsWait(t) /\ Waits(t, "until") /\ at' = [at EXCEPT ![t] = "wait"]
      /\ call' = call /\ want' = want /\ kind' = kind /\ items' = items
      /\ missed' = (missed \/ items > 0)
  BY DEF NextRound, At, lockVars
<1>2. items' = 0 \/ missed'
  <2>1. items = 0 \/ items > 0
    BY DEF TypeOK
  <2> QED
    BY <1>1, <2>1
<1>3. Enough'
  BY <1>2, NoItems DEF Enough
<1>4. SeenNone'
  BY <1>1, <1>2 DEF SeenNone, ItemInv
<1>5. /\ pc'[t] \in {"unlock", "wait"} /\ err' = err
      /\ \A u \in Thread \ {t} : pc'[u] = pc[u] /\ at'[u] = at[u]
  BY <1>1, Waited DEF TypeOK
<1>6. Wants(t)'
  <2>1. Wants(t)
    BY DEF ItemInv, Wanting
  <2>2. want[t] \notin {"hungry", "due"}
    BY <1>1, <2>1 DEF EndsWait, Wants
  <2> QED
    BY <1>1, <1>5, <2>2 DEF Wants
<1>7. Wanting'
  <2>1. \A u \in Thread \ {t} : Same(u)
    BY <1>1, <1>5 DEF Same
  <2> QED
    BY <1>6, <2>1, SameKeeps DEF ItemInv, Wanting
<1> QED
  BY <1>3, <1>4, <1>7 DEF ItemInv

(***************************************************************************)
(* A thread that is woken comes to take an item, in place of the release   *)
(* that it was owed.                                                       *)
(***************************************************************************)
LEMMA ItemWake ==
    ASSUME Fine, Covered', NEW w \in Thread, NEW r \in Thread, Wake(w, r)
    PROVE  ItemInv'
<1> USE DEF Fine, LockInv, ItemInv
<1> DEFINE woken == IF w \in unlocked THEN "relock" ELSE "idle"
           rest == IF owed[r] = 1 THEN "idle" ELSE "release"
<1>1. /\ pc[r] = "release" /\ pc[w] \in {"wait", "poll"} /\ nsleep' = nsleep
      /\ pc' = [pc EXCEPT ![w] = woken, ![r] = IF owed[r] = 1 THEN "idle" ELSE @]
      /\ err' = [err EXCEPT ![w] = 0]
      /\ at' = at /\ call' = call /\ want' = want /\ kind' = kind /\ atexit' = atexit
      /\ items' = items /\ missed' = missed
  BY DEF Wake, Wakeup, Handoff, Parked, Afterwards, lockVars, callVars, itemVars
<1>2. /\ pc'[w] = woken /\ pc'[r] = rest /\ err'[w] = 0 /\ err'[r] = err[r] /\ w # r
      /\ \A u \in Thread \ {w, r} : pc'[u] = pc[u] /\ err'[u] = err[u]
  BY <1>1 DEF TypeOK, CondTypeOK
<1>3. woken \in {"relock", "idle"} /\ rest \in {"idle", "release"}
  OBVIOUS
<1> HIDE DEF woken, rest
<1>4. /\ at[w] = "wait" /\ call[w].op = "wait"
      /\ at[r] \in {"out", "exit"}
  <2>1. ThreadInv(w) /\ ThreadInv(r)
    OBVIOUS
  <2> QED
    BY <1>1, <2>1 DEF ThreadInv, Placed, Calling, WaitPC
<1>5. /\ w \notin Takers /\ Takers' = Takers \cup {w}
      /\ Due' = Due
      /\ w \in Asleep /\ Asleep' = Asleep \ {w}
      /\ w \in Enlisted /\ Enlisted' = Enlisted \ {w}
  <2>1. Wants(w)
    BY DEF Wanting
  <2>2. w \notin Takers /\ w \in Takers'
    BY <1>1, <1>2, <1>4, <1>3, <2>1 DEF Takers, Woken, Wants
  <2>3. r \in Takers' <=> r \in Takers
    BY <1>1, <1>2, <1>4, <1>3 DEF Takers, Woken
  <2>4. \A u \in Thread \ {w, r} : u \in Takers' <=> u \in Takers
    BY <1>1, <1>2 DEF Takers, Woken
  <2>5. Takers' = Takers \cup {w}
    BY <2>2, <2>3, <2>4, SetsOfThreads, SetsOfThreadsNext
  <2>6. w \in Asleep /\ Asleep' = Asleep \ {w} /\ w \in Enlisted /\ Enlisted' = Enlisted \ {w}
    BY <1>1, <1>2, <1>3 DEF Asleep, Enlisted
  <2> QED
    BY <1>1, <2>2, <2>5, <2>6 DEF Due
<1>6. Enough'
  <2>1. /\ Cardinality(Takers') = Cardinality(Takers) + 1
        /\ Cardinality(Asleep') = Cardinality(Asleep) - 1
        /\ Cardinality(Enlisted') = Cardinality(Enlisted) - 1
    BY <1>5, SetsOfThreads, ThreadsAreCounted
  <2>2. Cardinality(SQ!Debts') = Cardinality(SQ!Debts) - 1
    <3>1. /\ nsleep + Cardinality(SQ!Debts) = Cardinality(Enlisted)
          /\ nsleep' + Cardinality(SQ!Debts') = Cardinality(Enlisted')
          /\ nsleep \in Nat
      BY DEF Covered, TypeOK, CondTypeOK
    <3> QED
      BY <1>1, <2>1, <3>1, Sizes, SizesNext
  <2>3. missed \/ SignalsAll => Enough'
    BY <1>1 DEF Enough, SignalsAll
  <2>4. items \in Nat
    BY DEF TypeOK
  <2> QED
    BY <1>1, <1>5, <2>1, <2>2, <2>3, <2>4, Sizes, SizesNext DEF Enough
<1>7. Wanting'
  <2>1. ASSUME NEW u \in Thread PROVE Wants(u)'
    BY <1>1, <1>2, <1>3 DEF Wanting, Wants
  <2> QED
    BY <2>1 DEF Wanting
<1>8. SeenNone'
  BY <1>1, <1>2, <1>3 DEF SeenNone
<1> QED
  BY <1>6, <1>7, <1>8

(***************************************************************************)
(* A signal either finds the count empty, when everybody asleep is owed a  *)
(* release already, or owes one more release for the signal that was due.  *)
(* A signal to all leaves nobody on the count.                             *)
(***************************************************************************)
LEMMA SignalIsEnough ==
    ASSUME Fine, Covered', NEW t \in Thread, NEW who, Signals(t, who), pc[t] = "idle",
           items' = items
    PROVE  /\ nsleep' = 0 \/ Cardinality(SQ!Debts') >= Cardinality(SQ!Debts) + 1
           /\ Asleep' = Asleep /\ err' = err
           /\ who = "all" => nsleep' = 0
           /\ pc'[t] \in {"idle", "release"} /\ \A u \in Thread \ {t} : pc'[u] = pc[u]
<1> USE DEF Fine, LockInv
<1>1. CASE nsleep = 0
  BY <1>1 DEF Signals, vars, Asleep
<1>2. CASE nsleep # 0
  <2>1. PICK n \in 1 .. nsleep : n = Min({nsleep, Limit(who)}) /\ nsleep' = nsleep - n
    BY <1>2, Signaled
  <2>2. /\ pc'[t] = "release" /\ err' = err
        /\ \A u \in Thread \ {t} : pc'[u] = pc[u]
    BY <1>2, Signaled
  <2>3. Enlisted' = Enlisted /\ Asleep' = Asleep
    BY <2>2 DEF Enlisted, Asleep
  <2>4. /\ nsleep + Cardinality(SQ!Debts) = Cardinality(Enlisted)
        /\ nsleep' + Cardinality(SQ!Debts') = Cardinality(Enlisted')
        /\ nsleep \in Nat
    BY DEF Covered, TypeOK, CondTypeOK
  <2>5. Cardinality(SQ!Debts') >= Cardinality(SQ!Debts) + 1
    BY <2>1, <2>3, <2>4, Sizes, SizesNext
  <2>6. ASSUME who = "all" PROVE nsleep' = 0
    <3>1. Cardinality(Enlisted) <= Cardinality(Thread) /\ Cardinality(Thread) \in Nat
      BY FinitelyMany, SetsOfThreads, FS_Subset, FS_CardinalityType
    <3>2. nsleep <= Limit(who) /\ Limit(who) \in Nat
      BY <2>4, <2>6, <3>1, Sizes DEF Limit
    <3>3. n = nsleep
      BY <2>1, <2>4, <3>2, Lesser
    <3> QED
      BY <2>1, <2>4, <3>3
  <2> QED
    BY <2>2, <2>3, <2>5, <2>6
<1> QED
  BY <1>1, <1>2

LEMMA ItemCallNotify ==
    ASSUME Fine, Covered', NEW t \in Thread, NEW f \in Functions, CallNotify(t, f)
    PROVE  ItemInv'
<1> USE DEF Fine, LockInv, ItemInv
<1>1. /\ at[t] = "out" /\ pc[t] = "idle" /\ Signals(t, f.when)
      /\ want[t] = "hungry" => items = 0
      /\ want' = [want EXCEPT ![t] = "none"]
      /\ at' = at /\ call' = call /\ kind' = kind /\ atexit' = atexit
      /\ items' = items /\ missed' = missed
  BY DEF CallNotify, MayCall, lockVars, callVars
<1>2. /\ nsleep' = 0 \/ Cardinality(SQ!Debts') >= Cardinality(SQ!Debts) + 1
      /\ Asleep' = Asleep /\ err' = err
      /\ pc'[t] \in {"idle", "release"} /\ \A u \in Thread \ {t} : pc'[u] = pc[u]
  BY <1>1, SignalIsEnough
<1>3. want'[t] = "none" /\ \A u \in Thread \ {t} : want'[u] = want[u]
  BY <1>1 DEF TypeOK
<1>4. Wants(t)' /\ \A u \in Thread \ {t} : Same(u)
  BY <1>1, <1>2, <1>3 DEF Same, Wants
<1>5. Wanting'
  BY <1>4, SameKeeps DEF Wanting
<1>6. SeenNone'
  BY <1>1, <1>2 DEF SeenNone
<1>7. CASE nsleep' = 0 \/ items = 0
  BY <1>1, <1>5, <1>6, <1>7, NoCount, NoItems
<1>8. CASE ~(nsleep' = 0 \/ items = 0)
  <2>1. Takers' = Takers
    <3>1. t \notin Takers /\ t \notin Takers'
      BY <1>1, <1>3, <1>8 DEF Takers, Woken
    <3> QED
      BY <1>4, <3>1, SameKeeps, SetsOfThreads, SetsOfThreadsNext
  <2>2. Due' = Due \ {t}
    BY <1>3 DEF Due
  <2>3. Cardinality(Due') >= Cardinality(Due) - 1
    <3>1. CASE t \in Due
      BY <2>2, <3>1, SetsOfThreads, ThreadsAreCounted, Sizes, SizesNext
    <3>2. CASE t \notin Due
      <4>1. Due' = Due
        BY <2>2, <3>2
      <4> QED
        BY <4>1, Sizes
    <3> QED
      BY <3>1, <3>2
  <2>4. missed \/ SignalsAll => Enough'
    BY <1>1 DEF Enough, SignalsAll
  <2>5. items \in Nat
    BY DEF TypeOK
  <2>6. Enough'
    BY <1>1, <1>2, <1>8, <2>1, <2>3, <2>4, <2>5, Sizes, SizesNext DEF Enough
  <2> QED
    BY <1>5, <1>6, <2>6
<1> QED
  BY <1>7, <1>8

LEMMA ItemRunAtExit ==
    ASSUME Fine, Covered', NEW t \in Thread, RunAtExit(t)
    PROVE  ItemInv'
<1> USE DEF Fine, LockInv, ItemInv
<1>1. /\ at[t] = "exit" /\ pc[t] = "idle" /\ atexit' = [atexit EXCEPT ![t] = Front(atexit[t])]
      /\ want' = want /\ at' = at /\ call' = call /\ kind' = kind
      /\ items' = items /\ missed' = missed
      /\ atexit[t] # <<>>
  BY DEF RunAtExit, lockVars, callVars
<1>2. atexit[t] = <<"signal_all", "unlock">> \/ atexit[t] = <<"signal_all">>
  BY <1>1, InCall DEF ThreadInv, Exiting
<1>3. Wants(t) /\ want[t] = "none"
  BY <1>1 DEF Wanting, Wants, TypeOK
<1>4. CASE atexit[t] = <<"signal_all", "unlock">>
  <2>1. pc' = pc /\ err' = err
    BY <1>4, LastCallback DEF RunAtExit
  <2>2. atexit'[t] = <<"signal_all">>
    BY <1>1, <1>4, LastCallback DEF TypeOK
  <2>3. atexit'[t] # <<>>
    BY <2>2
  <2>4. Enough'
    BY <2>3 DEF Enough, SignalsAll
  <2>5. SeenNone' /\ Wanting'
    BY <1>1, <2>1 DEF SeenNone, Wanting, Wants
  <2> QED
    BY <2>4, <2>5
<1>5. CASE atexit[t] = <<"signal_all">>
  <2>1. Signals(t, "all")
    BY <1>5, LastCallback DEF RunAtExit
  <2>2. nsleep' = 0 /\ pc'[t] \in {"idle", "release"} /\ \A u \in Thread \ {t} : pc'[u] = pc[u]
    BY <1>1, <2>1, SignalIsEnough
  <2>3. ASSUME NEW u \in Thread PROVE Wants(u)'
    BY <1>1, <1>3, <2>2 DEF Wanting, Wants
  <2>4. SeenNone' /\ Wanting'
    BY <1>1, <2>2, <2>3 DEF SeenNone, Wanting
  <2> QED
    BY <2>2, <2>4, NoCount
<1> QED
  BY <1>2, <1>4, <1>5

LEMMA ItemNotifyAtExit ==
    ASSUME Fine, Covered', NEW t \in Thread, NotifyAtExit(t)
    PROVE  ItemInv'
<1> USE DEF Fine, LockInv, ItemInv
<1>1. /\ at' = [at EXCEPT ![t] = "exit"] /\ atexit' = [atexit EXCEPT ![t] = <<"signal_all", "unlock">>]
      /\ want' = [want EXCEPT ![t] = "none"] /\ pc' = pc /\ kind' = kind
      /\ items' = items /\ missed' = missed
  BY DEF NotifyAtExit, At, vars, lockVars
<1>2. /\ atexit'[t] = <<"signal_all", "unlock">> /\ want'[t] = "none"
      /\ \A u \in Thread \ {t} : want'[u] = want[u] /\ at'[u] = at[u]
  BY <1>1 DEF TypeOK
<1>3. atexit'[t] # <<>>
  BY <1>2
<1>4. Enough'
  BY <1>3 DEF Enough, SignalsAll
<1>5. SeenNone' /\ Wanting'
  BY <1>1, <1>2 DEF SeenNone, Wanting, Wants
<1> QED
  BY <1>4, <1>5

(***************************************************************************)
(* Who puts an item owes a signal for it, and who takes one has come for   *)
(* it or makes one less to come for.                                       *)
(***************************************************************************)
LEMMA ItemPut ==
    ASSUME Fine, Covered', NEW t \in Thread, Put(t)
    PROVE  ItemInv'
<1> USE DEF Fine, LockInv, ItemInv
<1>1. /\ pc[t] = "idle" /\ at[t] = "out" /\ view[t] > 0 /\ ~shared /\ want[t] # "due"
      /\ want[t] = "hungry" => items = 0
      /\ items' = items + 1 /\ want' = [want EXCEPT ![t] = "due"] /\ missed' = missed
      /\ pc' = pc /\ at' = at /\ call' = call /\ err' = err /\ owed' = owed
      /\ kind' = kind /\ atexit' = atexit
  BY DEF Put, MayTouch, vars, lockVars, callVars
<1>2. want'[t] = "due" /\ \A u \in Thread \ {t} : want'[u] = want[u]
  BY <1>1 DEF TypeOK
<1>3. Due' = Due \cup {t} /\ t \in Thread \ Due
  BY <1>1, <1>2 DEF Due
<1>4. Cardinality(Due') = Cardinality(Due) + 1
  BY <1>3, SetsOfThreads, ThreadsAreCounted
<1>5. items \in Nat
  BY DEF TypeOK
<1>6. Enough'
  <2>1. CASE items = 0
    BY <1>1, <1>4, <2>1, Sizes, SizesNext DEF Enough
  <2>2. CASE items # 0
    <3>1. Takers' = Takers
      BY <1>1, <1>2, <2>2 DEF Takers, Woken
    <3>2. Asleep' = Asleep /\ SQ!Debts' = SQ!Debts
      BY <1>1, SameDebts DEF Asleep
    <3>3. missed \/ SignalsAll => Enough'
      BY <1>1 DEF Enough, SignalsAll
    <3> QED
      BY <1>1, <1>4, <1>5, <3>1, <3>2, <3>3, Sizes, SizesNext DEF Enough
  <2> QED
    BY <2>1, <2>2
<1>7. SeenNone'
  <2>1. ThreadInv(t) /\ t \in holders /\ kind # "none"
    BY <1>1 DEF ThreadInv, Held, Has, Viewed
  <2>2. ASSUME NEW u \in Thread, pc[u] = "unlock" PROVE FALSE
    <3>1. u \in holders
      BY <2>2 DEF ThreadInv, Held, Has
    <3> QED
      BY <1>1, <2>1, <2>2, <3>1 DEF Exclusive
  <2> QED
    BY <1>1, <2>1, <2>2 DEF SeenNone
<1>8. Wanting'
  BY <1>1, <1>2 DEF Wanting, Wants
<1> QED
  BY <1>6, <1>7, <1>8

LEMMA ItemTake ==
    ASSUME Fine, Covered', NEW t \in Thread, Take(t)
    PROVE  ItemInv'
<1> USE DEF Fine, LockInv, ItemInv
<1>1. /\ pc[t] = "idle" /\ at[t] = "out" /\ items > 0
      /\ items' = items - 1 /\ missed' = (missed /\ items > 1)
      /\ want' = [want EXCEPT ![t] = IF want[t] = "due" THEN want[t] ELSE "none"]
      /\ pc' = pc /\ at' = at /\ call' = call /\ err' = err /\ owed' = owed
      /\ kind' = kind /\ atexit' = atexit
  BY DEF Take, MayTouch, vars, lockVars, callVars
<1>2. /\ want'[t] = (IF want[t] = "due" THEN want[t] ELSE "none")
      /\ \A u \in Thread \ {t} : want'[u] = want[u]
  BY <1>1 DEF TypeOK
<1>3. items \in Nat /\ items' \in Nat
  BY <1>1 DEF TypeOK
<1>4. missed => items' = 0 \/ missed'
  <2>1. items = 1 \/ items > 1
    BY <1>1, <1>3
  <2>2. missed /\ items > 1 => missed'
    BY <1>1, Zenon
  <2>3. items = 1 => items' = 0
    BY <1>1
  <2> QED
    BY <2>1, <2>2, <2>3
<1>5. Due' = Due /\ Asleep' = Asleep /\ SQ!Debts' = SQ!Debts
  BY <1>1, <1>2, SameDebts DEF Due, Asleep
<1>6. Takers' = Takers \ {t}
  BY <1>1, <1>2 DEF Takers, Woken
<1>7. Cardinality(Takers') >= Cardinality(Takers) - 1
  <2>1. CASE t \in Takers
    BY <1>6, <2>1, SetsOfThreads, ThreadsAreCounted, Sizes, SizesNext
  <2>2. CASE t \notin Takers
    <3>1. Takers' = Takers
      BY <1>6, <2>2
    <3> QED
      BY <3>1, Sizes
  <2> QED
    BY <2>1, <2>2
<1>8. Enough'
  <2>1. CASE missed
    BY <1>4, <2>1, NoItems DEF Enough
  <2>2. SignalsAll => Enough'
    BY <1>1 DEF Enough, SignalsAll
  <2>3. CASE ~missed /\ ~SignalsAll
    BY <1>1, <1>3, <1>5, <1>7, <2>3, Sizes, SizesNext DEF Enough
  <2> QED
    BY <2>1, <2>2, <2>3
<1>9. SeenNone'
  BY <1>1, <1>3, <1>4 DEF SeenNone
<1>10. Wanting'
  BY <1>1, <1>2 DEF Wanting, Wants
<1> QED
  BY <1>8, <1>9, <1>10

-----------------------------------------------------------------------------
LEMMA ItemInit == AInit => ItemInv
<1> SUFFICES ASSUME AInit PROVE ItemInv
  OBVIOUS
<1> USE DEF AInit, Init
<1>1. SeenNone /\ Wanting
  BY DEF SeenNone, Wanting, Wants
<1>2. Asleep = {} /\ Due = {}
  BY DEF Asleep, Due
<1>3. SQ!Debts = {}
  BY DEF SQ!Debts
<1>4. Enough
  BY <1>2, <1>3, FS_EmptySet DEF Enough
<1> QED
  BY <1>1, <1>4 DEF ItemInv

LEMMA ItemNext == Fine /\ Covered' /\ [ANext]_avars => ItemInv'
<1> SUFFICES ASSUME Fine, Covered', [ANext]_avars PROVE ItemInv'
  OBVIOUS
<1>1. ASSUME NEW t \in Thread, NEW f \in Functions,
             CallLock(t, f) \/ CallUnlock(t, f) \/ CallCondWait(t, f) \/ CallNotify(t, f)
      PROVE  ItemInv'
  BY <1>1, ItemCallLock, ItemCallUnlock, ItemCallCondWait, ItemCallNotify
<1>2. ASSUME NEW t \in Thread,
             Recurse(t) \/ Acquire(t) \/ FailToAcquire(t) \/ Own(t) \/ Disown(t) \/ Give(t)
      PROVE  ItemInv'
  BY <1>2, ItemLockStep
<1>3. ASSUME NEW t \in Thread,
             Callback(t) \/ RelockAfterWait(t) \/ RestoreDepth(t) \/ NextRound(t) \/ WaitReturns(t)
      PROVE  ItemInv'
  BY <1>3, ItemWaitStep, ItemRelock, ItemNextRound, ItemWaitReturns
<1>4. ASSUME NEW t \in Thread, Put(t) \/ Take(t) \/ NotifyAtExit(t) \/ RunAtExit(t)
      PROVE  ItemInv'
  BY <1>4, ItemPut, ItemTake, ItemNotifyAtExit, ItemRunAtExit
<1>5. ASSUME NEW w \in Thread, NEW r \in Thread, Wake(w, r) PROVE ItemInv'
  BY <1>5, ItemWake
<1>6. CASE UNCHANGED avars
  <2>1. ItemInv' = ItemInv
    BY <1>6 DEF avars, vars, lockVars, callVars, itemVars, ItemInv, SeenNone, Wanting, Wants,
       Enough, SignalsAll, SQ!Debts, Takers, Woken, Due, Asleep
  <2> QED
    BY <2>1 DEF Fine
<1> QED
  BY <1>1, <1>2, <1>3, <1>4, <1>5, <1>6 DEF ANext

(***************************************************************************)
(* No item is forgotten: while there are items and threads asleep, and no  *)
(* wait has begun a round too late, a release is owed, a signal is due, or *)
(* a thread is awake to take an item.                                      *)
(***************************************************************************)
THEOREM ItemsAreSignaled == ASpec => []NoItemForgotten
<1>1. AInit /\ Covered => Fine
  BY LockInit, ItemInit DEF Fine
<1>2. Fine /\ Covered' /\ [ANext]_avars => Fine'
  <2> SUFFICES ASSUME Fine, Covered', [ANext]_avars PROVE Fine'
    OBVIOUS
  <2> QED
    BY LockNext, ItemNext DEF Fine
<1>3. Fine => NoItemForgotten
  <2> SUFFICES ASSUME Fine, items > 0, ~missed, Asleep # {},
                      ~ \E t \in Thread : owed[t] > 0,
                      ~ \E t \in Thread : want[t] \in {"due", "hungry"} \/ t \in Woken
               PROVE  \E t \in Thread : "signal_all" \in Range(atexit[t])
    BY DEF NoItemForgotten
  <2> USE DEF Fine, ItemInv, LockInv
  <2>1. Takers = {} /\ Due = {}
    BY DEF Takers, Woken, Due
  <2>2. SQ!Debts = {}
    BY DEF SQ!Debts, TypeOK, CondTypeOK
  <2>3. Cardinality(Takers) = 0 /\ Cardinality(Due) = 0 /\ Cardinality(SQ!Debts) = 0
    BY <2>1, <2>2, FS_EmptySet
  <2>4. Cardinality(Asleep) # 0
    BY SetsOfThreads, ThreadsAreCounted, FS_EmptySet
  <2>5. SignalsAll
    BY <2>3, <2>4, Sizes DEF Enough, TypeOK
  <2>6. PICK t \in Thread : atexit[t] # <<>>
    BY <2>5 DEF SignalsAll
  <2>7. atexit[t] = <<"signal_all", "unlock">> \/ atexit[t] = <<"signal_all">>
    BY <2>6, InCall DEF ThreadInv, Exiting
  <2>8. "signal_all" \in Range(atexit[t])
    BY <2>7 DEF Range
  <2> QED
    BY <2>8
<1> QED
  BY <1>1, <1>2, <1>3, SleepersCovered, PTL DEF ASpec
=============================================================================
