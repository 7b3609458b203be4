# Verification of MCF Gthread

This directory holds TLA+ specifications of MCF Gthread (`src/mcfgthread`), the
TLC configurations that model-check them, and proofs that TLAPS checks. Module
and definition names follow the source where TLA+ allows. `PROJECT.json` maps
every definition to the lines it models and lists the runs, the hazards and the
theorems.

Paths below are relative to `src/mcfgthread/`; `src/mutex.c` means
`src/mcfgthread/src/mutex.c`.

## 1. The system

All six primitives are one machine word that threads change with
compare-and-swap, together with *NT keyed events*, a rendezvous in the kernel
that is named by the address of the word. There is no lock below them and no
list of waiters: the only trace of a sleeping thread is that it has added one to
the *sleeping count* in the word. Threads, thread-local values and exit handlers
are built from these, and the interfaces of four language runtimes on top.

| Component | State | Operations | What makes it correct |
|---|---|---|---|
| mutex (`mutex.h`, `src/mutex.c`) | `__locked`, `__sp_mask` (4 spinners), `__sp_nfail`, `__nsleep`; flag bytes of spinners in a table all mutexes share | lock with a timeout, unlock | exclusion; no lost wakeup; unlock returns; a lock fails only if it may; the mutex does not lie idle |
| semaphore (`sem.h`, `src/sem.c`) | `__value`, negative for sleepers | wait with a timeout, signal n | tokens conserved; overflow refused; tokens reach sleepers |
| event (`event.h`, `src/event.c`) | `__value`, `__nsleep` | await a change with a timeout, set | a change ends the waits for it |
| once flag (`once.h`, `src/once.c`) | `__ready`, `__locked`, `__nsleep` | wait with a timeout, abort, release | one initializer at a time, none after success; an abort passes on |
| shared mutex (`shared_mutex.h`, `src/shared_mutex.c`) | `__nshare` (0x3FFF: a writer), `__nsleep` | lock in either mode with a timeout, unlock | readers exclude writers; the limit on readers holds; writers get in |
| condition variable (`cond.h`, `src/cond.c`) | `__nsleep` | wait with callbacks and a timeout, signal n, signal all | unlock-and-wait is atomic for signals; a signaled wait does not report a timeout |
| waits and timeouts (`src/xglobals.c`, `src/clock.c`) | `__MCF_winnt_timeout` | initialize, adjust, batch release; clocks | a wait ends no earlier than asked; a release is delivered |
| thread (`thread.h`, `src/thread.c`) | reference count, handle, `__init_done` event, destructor queue, TLS table | create, attach a foreign thread, exit, drop, wait, sleep | freed once; not used after it has been freed; nothing registered is lost, but for what the destructors of values register at the end |
| thread-local storage (`tls.h`, `src/tls.c`) | table of a thread, reference counts of keys | get, set, pop, delete a key | a value set is the value got; half of the table stays empty; keys freed once |
| destructor queue (`dtor_queue.h`, `src/dtor_queue.c`) | list of blocks of elements | push, pop, remove | last in, first out per module, across blocks |
| C++ ABI, exit (`src/cxa.c`, `src/exit.c`) | two global queues and their mutexes | guards, `atexit`, finalize, `quick_exit` | each destructor runs once, also those registered meanwhile |
| gthread helpers (`src/gthr_aux.c`) | recursive mutex (owner, depth, mutex), record of a joinable thread | lock, recurse, unlock, wait with a mutex, join, run once | owner and depth survive a wait; a join gets the result |
| interfaces (`gthr.h`, `gthr_libobjc.h`, `libcxx.h`, `c11.h`, `cxx11.hpp`) | type and owner of a C11 mutex, arguments of a C++ thread, callbacks at the exit of a thread | what the runtimes call | the caller holds what the return value says; no item is stranded; arguments are there when the thread runs |
| processor sets (`src/cpu_collection.c`, `src/thread.c`) | sorted collection of CPUs | enumerate, find, select, affinity of a thread | sorted within its memory; a CPU is found if it is there |
| global state (`src/xglobals.c`) | section shared by all copies of the library in a process | initialize once | one set of globals per process |
| atomics, TEB, `fwd.h` | none of their own | | |

How they interact. Every primitive sleeps and releases through the waits of
`src/xglobals.c`. Condition variables call back into a mutex between their
increment of the sleeping count and their wait. Threads use an event to hold a
new thread back until its structure is complete, a mutex for the structure that
is used when memory is out, and the destructor queue and the TLS table at exit.
Exit handlers use the destructor queue under a mutex; C++ guards are once flags.
A recursive mutex keeps its owner and its depth beside a mutex, and a wait gives
up and restores all three.

What is hard. Between the exchange that changes a word and the system call that
waits or releases, everything else can happen. The count says *how many* sleep,
never *who*; the kernel matches a release with any waiter. A wait that times out
races with a release that has already counted it. The mutex adds spinners whose
bits are reused and whose flag bytes are shared with strangers. Structures of
threads and keys are freed by whoever drops the last reference, while others
hold pointers that they have read before. Destructors run by the library may
register, set and delete what the library is just running through.
`PROJECT.json` lists these hazards at their lines with the properties that cover
them.

## 2. The modules

| Module | Models |
|---|---|
| `SleepQueue` | the sleeping-count protocol alone, without any primitive: the abstract specification of the rendezvous |
| `KeyedWait`, `TimeoutKinds` | keyed events and `__MCF_batch_release_common`, and the four kinds of timeout; every primitive extends them |
| `CountedWait` | what the mutex, the event, the once flag and the shared mutex have in common: a field `__nsleep`, and the mapping of it and of the sleepers to `SleepQueue` |
| `Mutex`, `TimedLock` | `src/mutex.c`; abstract: a lock whose calls may time out |
| `Sem`, `CountingSem` | `src/sem.c`; abstract: a counting semaphore |
| `Event` | `src/event.c` |
| `Once`, `OnceCell` | `src/once.c` and the functions that run a callback once; abstract: a cell that is initialized once |
| `SharedMutex`, `SharedLock` | `shared_mutex.h`, `src/shared_mutex.c`; abstract: a readers-writer lock |
| `Cond` | `src/cond.c` |
| `Api` | what programs call: one lock and one condition variable (`Cond`) behind the functions of the five interfaces, with programs that put and take items |
| `Threads` | structures of threads: `src/thread.c`, joinable threads, threads of C++, the end of a thread |
| `Tls`, `TlsMap` | `src/tls.c`; abstract: a map from keys to values in each thread |
| `DtorQueue`, `DtorList` | operators of `src/dtor_queue.c` on a chain of blocks; abstract: a list, as a set of elements that are numbered as they are registered |
| `Exit` | registration and running of destructors: `src/cxa.c`, `src/exit.c`, `__MCF_run_static_dtors`, `__MCF_gthread_on_thread_exit` |
| `Timeout` | the arithmetic of clocks and timeouts, with the constants of the code |
| `CpuSets` | `src/cpu_collection.c` and the affinity of a thread |
| `MCApi`, `MCThreads`, `MCTls`, `MCExit` | instances for TLC: symmetry, and the programs of `Tls` |
| `SleepQueueProofs`, `MutexProofs`, `SemProofs`, `OnceProofs`, `ApiProofs` | proofs about the module of that name |
| `BroadcastProofs` | proofs about `Event` and `SharedMutex`, which wake all their sleepers |
| `ThreadsProofs` | proofs about `Threads`, and about `Exit` with `DtorQueue` |
| `DataProofs` | proofs about `Tls`, `CpuSets`, `Timeout` and `TimeoutKinds` |

Definitions whose comment begins with "Fault:" are not part of the models. Each
is what a definition would be with a plausible mistake in the code; it stands
before the definition it corrupts and shows that a property notices.

### How state and steps of the primitives correspond to the code

* *A thread* is a member of `Thread`; `pc[t]` is where it is. `"wait"` is the
  first `NtWaitForKeyedEvent` of a call, `"leave"` the loop after a timeout,
  `"poll"` the second wait with a zero timeout, `"release"`
  `__MCF_batch_release_common`. The other values are the loops of each function.
* *A compare-and-swap loop is one step*, the one whose exchange succeeds. All
  fields of `new` are functions of the `old` that the exchange compares, so
  failed attempts and the stale first load have no effect. Branches that return
  or break without an exchange act on a value that was read in one load and
  decide on that alone.
* *Inline fast paths* in the headers make the same change as a branch of the
  slow function, with the same single exchange. Only those of the shared mutex
  differ: they compute with the whole word. They are actions of `SharedMutex`,
  on a word that has `WordValues` values. Its lower field `__nshare` has
  `ShareValues` of them, so that masks and fields are remainders and quotients.
* *Keyed events.* A wait and a release meet in one step (`Handoff`). `"wait"`
  covers a thread that is about to enter the kernel and one that is queued; a
  release that comes first is queued by the kernel, so the two cannot be told
  apart. Any waiter on the address may be the one that is matched. The release
  repeats its call every second, which changes nothing.
* *Timeouts* are `"zero"`, `"rel"`, `"abs"` or `"inf"` as in `li.QuadPart`. A
  wait with a finite timeout may expire at any time. Adjusting a relative
  timeout after a wakeup either leaves some of it or saturates at zero; an
  absolute timeout stays as it is and simply expires in the next wait. That
  this is what the 64-bit arithmetic does is a theorem about `Timeout`
  (`AdjustmentOfKinds`). The condition variable and the semaphore never adjust
  a timeout, so there the kinds differ only in being finite or not.
* *Calls* start with any timeout from `"idle"`. A thread does not lock what it
  holds, and unlocks only what it holds (the functions assert this). A shared
  mutex may be unlocked by a thread that did not lock it; this is the same
  behaviour with the names of the threads exchanged.
* *Memory ordering* is not modelled: all state of a primitive is in one word,
  and the only other shared state are the flag bytes, whose content the mutex
  never relies on.

Per module: `Mutex` has one action per outcome of each loop of
`_MCF_mutex_lock_slow` (`LockAcquire`, `LockFail`, `LockSpin`, `LockSleep`; the
spinning turn; `RetryAcquire`, `RetryRelocate`, `RetryStop` for the loop after a
notification; `GiveUpAcquire`, `GiveUpSleep` for the loop after spinning;
`LeaveCounted`, `LeaveOwed` for the loop after a timeout) and splits
`_MCF_mutex_unlock_slow` into its exchange (`Unlock`), the store to a flag byte
(`Notify`) and the releases (`Wakeup`). `Collide` lets any flag byte change at
any time, since other mutexes hash to the same bytes. The other primitives have
the same shape: outcomes of the entry loop, of the leaving loop, and one
exchange for each waking function. `Once` adds the callers that run a callback
once (`__gthread_once`, `call_once` in C and C++, `__MCF_cxa_guard_acquire` and
the rest): the callback returns, or it is unwound by an exception, and the flag
is released or aborted. In `Cond` the unlock callback, the wait and the relock
callback are separate steps, and a wait without callbacks skips them. Error
returns that read nothing (an invalid value to set, a negative number to signal,
a signal of zero) change nothing and are left out.

### The other modules

`Api` describes each function of the five interfaces by a record: whether it
locks, unlocks, waits or notifies, which lock it is about, whether it waits for
it, and what it returns when it has done its work and when it has not. The
actions do what the records say. The lock is what `TimedLock` and `SharedLock`
promise (the primitives are shown to implement them); the owner and the depth of
a recursive mutex are fields of their own, which are read and written in steps
apart from locking. `kind` is what the lock of a behaviour is: a mutex, a shared
mutex, a recursive mutex, a C11 mutex of two types, or none. Programs know of
their locks by return values alone (`view`); they take an item or wait while
there is none, and signal after they have put one, perhaps by
`notify_all_at_thread_exit`. `late` marks threads in a later round of a wait
with a clock that the library does not know; `missed` records that such a round
has begun while there were items.

`Threads` has the structures as records at addresses, which are used again once
freed: two blocks of the heap, the static structure of the main thread and the
one that is shared when memory is out. The slot of a thread (`self`) is empty,
an address, or `__MCF_BAD_PTR`. Creation, waiting for the creator, the
constructor of the arguments of a C++ thread, joining and dropping are steps of
several threads. The number of elements in the queue and in the table of a
structure stands for their content, which `Exit` and `Tls` have. When a thread
ends its callbacks are run, then the destructors of its values (`clearing`), and
the structure is given up without another look at the queue, as in
`__MCF_gthread_on_thread_exit`. All these are the program's own: they may
register more, and they may end the thread once again. `late` counts the
callbacks that the destructors of values have registered, which nobody runs. The
functions of the interfaces that create a thread, end one, or give up a
reference to one are records (`Creators`, `Enders`, `Closers`) that say in what
they differ.

`Tls` has the tables as sequences of elements, with the arithmetic of the hash
function, its constants made small. Growing a table is a step for the
allocation and one for each element that is moved, so that other threads delete
keys in between. A key that nobody refers to is free, and its address may be
taken by the next. Destructors are calls that the thread makes while it exits,
in which it may set values and delete keys. A call that sets a value ends with
one of the return codes of `_MCF_tls_xset` (`Result`): "0" when it has set the
value, "-1" when the key has been deleted, "-2" when memory is out. `TlsMap`
has the same codes, and in it a call that returns "0" has set the value, unless
the key has been deleted while it was in progress.

A program may delete a key, or drop a reference, while other calls use the key,
but it does not give up its *last* reference while a call needs it (`MayDrop`).
The reference of the table alone protects a call that finds its key there, but
not one whose table has to grow first: if the key has been deleted by then, the
growth drops that reference (`src/tls.c:140-143`), and with it the last one; the
call goes on to put the key into the new table and increments the count of a key
that has been freed (`src/tls.c:167`). The attempt to prove `RefsCounted`
brought this to light, and TLC shows it when `MayDrop` asks for the reference of
the table only. `tls.h:181-182` says that the table owns a reference to the key
after a value that is not null has been set. It does not say that the reference
of an earlier value protects a key in use, so this is a precondition of the
model.

`Exit` gives each thread a stack of calls that run destructors. The frame tells
which loop the call is in (`"thread"`, `"static"` and `"remove"` are
`__MCF_cxa_finalize`, `"quick"` is `__MCF_quick_exit`, `"atexit"` and `"values"`
are the end of a thread) and whether it is `busy`, that is, waiting for a
destructor. A destructor may do what the program may: register, set a
thread-local value, start another of these calls. Popping or pushing under the
mutex of a queue is one step. A chain of blocks is a sequence of sequences with
the current block first; the code keeps the current block in place and copies
blocks, the model adds and drops them. `Removed` is the loop that moves elements
into the space of those that have been taken out, block by block (`Compacted`):
the element of a rank among those that stay goes to the place of that rank. A
registration for which memory is missing changes nothing.

`Timeout` is a module of operators with the numbers of the code; where the code
computes with `double`, its result may be the next millisecond. `CpuSets` has
one client with one collection: an action per round of the sort and of the
search, and one for each function that visits all CPUs.

## 3. What is checked

| Run | Shows |
|---|---|
| `sleep_queue` | the protocol keeps `nsleep + debts = sleepers`, and a releaser always has a sleeper to meet |
| `mutex` | `MutualExclusion`; `NoLostWakeup`, the condition behind the "IMPORTANT!" comment; `SleepsProperly`: the mutex implements `SleepQueue`; `IsTimedLock`: it implements `TimedLock`; an unlock returns; a thread that waits without a timeout keeps the mutex in use |
| `sem` | the semaphore implements `CountingSem`, overflow included, and `SleepQueue`; signals return and tokens reach sleepers |
| `event` | with one undesired value no waiter sleeps through a change and a lasting change ends all waits |
| `once` | the flag implements `OnceCell` and `SleepQueue`, sleepers of an unlocked flag are served; success ends waits, an abort or a callback that is unwound passes on |
| `shared_mutex` | fast and slow paths together implement `SharedLock`, at its limit of readers too, and `SleepQueue`; a stream of readers does not shut out a sleeping writer |
| `exit` | `EachOnce`: no destructor is forgotten or called twice; `FinalizedAreGone`: finalization gets through the destructors that were registered before it, those of the thread first; `IsDtorList`: each chain of blocks behaves like a list |
| `threads` | `RefsCounted`: references match the pointers that threads hold, and a structure belongs to the thread that points to it; `FreedIsEmpty`; `NothingLost` of what a thread registers, also before its routine begins, but for what the destructors of its values register; `CodeHasArguments`; `NoneForgotten`: a new thread that waits has somebody on the way to let it go; `JoinGetsResult` |
| `tls` | `RefsCounted` of keys, and that no call refers to a freed one; `HalfEmpty`, on which the end of every search rests; `IsTlsMap`: tables behave like maps through collisions, growth, deletion by others and addresses that are used again, and the return codes are right |
| `api` | `ClientViewIsTrue`: who has been told that it holds the lock does, with that depth, and after a wait as before it; `OwnerIsHolder`; `NoItemForgotten`: no item lies there while its consumers sleep and nobody is about to wake one; `SleepsProperly` of the condition variable with all these clients |

Two runs end with a counterexample, each against a sentence of the documentation
or a comment. They are listed under `findings` with the quotations:

* `event_two_values`. Thread 1 waits for 0 to go away and sleeps. A setter
  stores 1 and owes one release. Before it releases, thread 2 starts to wait
  for 1 to go away, takes the release, sees 1, and sleeps again. Thread 1 sleeps
  on although the event holds 1. With a single undesired value (the use the
  library itself makes of events) this cannot happen: `event`, and the theorem
  `ChangeReachesSleepers`. A broadcast on a condition variable can be robbed by
  a newcomer in the same way, which matters only to newcomers that wait for
  something else than the sleepers do.
* `exit_leftovers`. The destructor of a thread-local value registers a callback
  when the callbacks of its thread have already been run; it is never run.
  `Threads` has the same behaviour: it is the exception in `FreedIsEmpty`,
  `NothingLost` and `JoinGetsResult`.

Three more differences between words and code are built into the models and
have no run of their own:

* `shared_mutex.h:46-47` says that a reader gets in at once unless a writer
  holds the mutex; `src/shared_mutex.c:29` also asks for an empty sleeping
  count, so readers wait behind sleepers, and go on to do so beside active
  readers after a sleeping writer has timed out; a shared `try` can therefore
  fail beside readers. `SharedLock` says what the code keeps, which is less than
  what the header says: no call fails on a free mutex, and a reader that does
  not wait is refused beside readers only while another thread is in a call that
  waits, or when there are `__MCF_SHARED_MUTEX_MAX_SHARE` readers.
* A wait with a clock other than the system's or the steady one
  (`cxx11.hpp:165-178`) is a sequence of waits, and a notification between two
  of them misses it. The round that follows may then take the signal for a
  second item, which was for another thread. So `NoItemForgotten` promises
  nothing once such a round has begun while there were items, until there are
  none (`missed`). With a single item the second effect cannot occur, and the
  property was stated too strongly until its proof failed; the instance now has
  two items.
* `tls.h:121-122` and `tls.h:138-139` say that the destructor of a key is not
  called any more after the key has been deleted. A thread that exits has taken
  a value out of its table before another thread deletes the key, and then calls
  the destructor (`src/xglobals.c:695-697`); `thread_specific_ptr::reset`
  destroys the old value in the same way. `TlsMap` allows both and says so.

### Bounds

Threads: three or four, five for the protocol. The smallest instance of the
races above has three: a releaser, a waiter that times out, and a waiter that
comes late. A fourth adds a second waiter, so that releases are owed to more
than one. The protocol needs five to have two releasers and three sleepers.

* `Mutex`: `NSlot = 2` spinning bits instead of four, enough for a bit to be
  reallocated while the other is in use; `NFailMax = SpinThreshold = 1` lets the
  failure counter saturate at both ends and reach the threshold; `SpinUnit`, the
  number of turns per missing failure (16 in the code), is 1. The proofs hold
  for all values.
* `Sem`: `ValueMax = 2` (`INTPTR_MAX` in the code) makes overflow reachable;
  `PostMax` bounds the signals of a behaviour. `Event`: three values.
* `SharedMutex`: `ShareValues = 4` (2^14 in the code) makes the limit, two
  readers, reachable with three threads; `WordValues = 32` (2^32) leaves eight
  values for the count of sleepers, who are at most three.
* `Api`: three threads, `MaxItems = 2`, so that a consumer that waits, one that
  comes late and a producer meet over one item and over two; `MaxDepth = 2`, the
  smallest recursion that a wait has to give up at once.
* `Threads`: the main thread and two others, with two blocks, so that memory
  runs out and addresses are used again; `MaxMade = 1` element that the threads
  register in time, and for each thread one callback too late, which suffices
  to lose one; `MaxOwn = 1` reference of the program to
  a structure at a time.
* `Tls`: `Base = Step = 2`, so that a table of two elements grows to five with
  the second key. With `Golden = 5` and `Radix = 16` the addresses 3, 6 and 9
  collide and wrap around the end. Either one thread has these three keys, or
  two threads share the key 12 with two references of the program.
  `Slack = {0}`: the allocator gives what is asked for.
* `Exit`: blocks of two elements and three registrations (`MaxDtor`), so that a
  chain has two blocks and one of them two elements; two threads; `MaxCall = 2`
  calls in progress, either one per thread or one within a destructor of the
  other; one module and the null handle.

Deadlock is checked wherever some thread can always act. It is switched off for
the semaphore, the event and `Api`, where all threads may wait for a signal that
nobody is left to give, for `Exit` and `Threads`, where the process ends, and
for `Tls`, where all threads may have ended.

On two workers `tls`, `threads` and `api` take about two minutes each, `sem` and
`exit` one, and the others less than half a minute.

### Fairness

`WF(Step(t))`: each thread keeps running and timeouts expire; the system
schedules every runnable thread. `SF` on the handoff of each releaser: a queued
release stays queued and the loop re-queues it each second, so a waiter that
polls again and again meets it; this is what the loop of
`__MCF_batch_release_common` and the second wait after a timeout rely on. `WF`
on unlocking, on ending a critical section and on the end of a callback that
runs once: programs that hold a lock give it back. No fairness is assumed for
starting calls, for setting events or for signaling, nor for which waiter a
release meets. The properties of `Exit`, `Threads`, `Tls` and `Api` are about
safety and need none.

The liveness properties therefore promise progress of somebody where the code
does: the mutex is unfair, so `SomebodyLocks` does not promise that each thread
gets it.

## 4. What is proved

TLAPS checks these for every set of threads and every value of the constants
that the assumptions allow (a finite set of threads where cardinality is used).

`SleepQueueProofs`. `TypeCorrect`; `SleepersConserved`; `ReleaserFindsSleeper`;
`NobodyForgotten`. The inductive invariant `IInv` is type correctness, the
finiteness of the sleepers and of the set of debts, and `Conservation`, which
alone is not inductive: the sets have to be finite for their numbers to add up.
There is one lemma for each action. Enlisting and departing leave the debts
alone (`CountFollowsSleepers`); what a wake and a meeting do to the set of debts
is said by `WakeAddsDebts` and `MeetRemovesDebt`. The other properties follow
from `IInv` by counting.

`MutexProofs`.

* `TypeCorrect`, from an invariant that also bounds the slots of notifiers and
  the budgets of spinners.
* `HoldersExclude`: `MutualExclusion` is inductive; the flag bytes, bits and
  counters do not occur in the argument, which is what the design relies on.
* `MutexSleepsProperly`: every step of the mutex maps to a step of `SleepQueue`
  or leaves it alone, with `Asleep` as the set of sleepers. So the theorems of
  `SleepQueueProofs` hold of the mutex (`SleepersCovered`).
* `SleepersAreServed`: `NoLostWakeup`. The invariant `CountedAreServed` says
  that a free mutex with a positive sleeping count has a thread on its way to
  lock it or a debt. It is inductive because the count grows only while the
  mutex is locked and because an unlock leaves a debt whenever the count is
  positive; a sleeper that is not on the count is covered by a debt through
  `QuietIffEmpty`.
* `MutexIsTimedLock`: the mutex implements `TimedLock`. The mapping needs that
  a thread which leaves after a timeout has a finite timeout
  (`LeaversHaveTimeouts`).

`SemProofs`. `TypeCorrect`; `SemSleepsProperly`, with the negative part of the
value as the count; `TokensAreConserved`; and `SemIsCounter`, the refinement of
`CountingSem`. Its invariant adds to the tokens that are conserved that the
threads that wait are finitely many (`FinitelyMany`), so that there is a number
of them, and that a release under way means more sleepers than the value counts
(`DebtsCovered`, by way of `SleepQueue`): so there is a token for the sleeper
that the release meets.

`BroadcastProofs`, first part: `Event`. `TypeCorrect`; `EventSleepsProperly`;
`ChangeReachesSleepers`. The last assumes that all wait for one value to go
away, as the callers in this library do (`src/thread.c:27`, `cxx11.hpp:747`).
Its invariant says that when the event has another value nobody is on the count
(`NobodyCounted`), so that by `QuietIffEmpty` whoever sleeps is owed a release.

`BroadcastProofs`, second part: `SharedMutex`, for any widths of the word and of
its lower field.

* The fast paths are arithmetic on the word, the slow paths change its fields.
  `WordParts` says which word has which fields. `UnlockedWord` shows what the
  formula of `_MCF_shared_mutex_unlock` computes without a branch: its mask
  keeps everything for a reader and nothing for a writer, and what it gives is
  what `_MCF_shared_mutex_unlock_slow` would store. So every fast path is a step
  that the slow path has too (`GrantsAlike`, `UnlocksAlike`), and the rest of
  the proof has to look at the slow paths only.
* `SharedTypeCorrect` from `SharedInv`. `SharesCounted` says that `__nshare` is
  the number of readers, or that it is its largest value and there is one
  writer; type correctness needs it, since otherwise an unlock could take one
  from zero. `SleepersSeeHolder` says that the count is positive only while
  somebody holds the mutex.
* `SharedMutexSleepsProperly`: it implements `SleepQueue`.
* `SharedMutexIsSharedLock`: it implements `SharedLock`. By `SharesCounted` the
  conditions on the word are those of the abstract lock on its holders. A call
  that fails, or leaves after a timeout, has seen that somebody holds the mutex
  (`SleepersSeeHolder`). A reader that makes way for sleepers does so for another
  call: by `QuietIffEmpty` of `SleepQueue` there is a sleeper while the count is
  not zero, and whoever sleeps has a timeout that is not zero
  (`LeaversCanExpire`).

`OnceProofs`. `TypeCorrect`; `OnceSleepsProperly`; `FailurePassesOn`, from an
invariant that pairs an unlocked flag on which threads are counted with a thread
that looks at it or a debt (`LookedAfter`); and `OnceImplementsCell`, for which
`LockedForOne` ties the lock bit to the one thread whose callback runs.

`ThreadsProofs`, first part: `Threads`, for any set of threads, any blocks, and
any bounds.

* `TypeCorrect`, `ReferencesCounted` (`RefsCounted`) and `ArgumentsAreThere`
  come from one inductive invariant, `IInv`: none of them is inductive by
  itself. That a count is right needs to know where each pointer may be
  (`Placed`: what is in the slot, in the parameter and in the argument of a
  call, by the place of the thread). That arguments are there needs that a
  thread waits for exactly one maker (`Making`).
* `NothingIsLost` and `FreedEmpty` (`FreedIsEmpty`, an action property) come from
  `IInv` with `Stored`: a structure that its thread has given up is empty but
  for what came late (`Emptied`), and from the moment the destructors of values
  run the queue holds just that (`Clearing`). `KeepsStored` is for the steps
  that do not touch the content of any structure; `Frees` is what each step is
  shown to do besides.
* The references of a structure are a set of pairs of a thread and a place, and
  `RefAdded`, `RefDropped` and their like say what a step does to its size; so
  the proof for each action is about sets of places, and counting is done once.
* `NobodyForgotten` (`NoneForgotten`) follows from `Making`: for a structure
  that is not initialized the maker still exists.
* `JoinIsRight` (`JoinGetsResult`), an action property, from `Resulting`: the
  record of a gthread has the value of the routine once the thread is over, and
  none before. That the thread has run what it had registered by then, but for
  what came late, is `NothingLost` of a thread that is over.

`ThreadsProofs`, second part: `Exit` with `DtorQueue`, for any threads, any
modules and keys, any capacity of a block and any bounds.

* Popping and removing move elements into the gaps. `RankGrows`, `RankIsOnto`
  and `KeptElements` say that moving by rank keeps the elements that stay, each
  once and in their order; the proof counts sets of places and needs no
  induction over the sequence. From these come `PushedIsFine`, `PoppedIsFine`
  and `RemovedIsFine`: a chain stays `Fine`, that is, its numbers grow from the
  oldest block to the newest, and every block has an element and no more than
  its capacity, after which a push cannot overrun a block.
* `ExitTypeCorrect`, `EachDtorOnce` (`EachOnce`) and `FinalizedDtorsAreGone`
  (`FinalizedAreGone`) from `ExitInv`. `EachOnce` is not inductive: that a
  destructor which is popped will not be called again needs that no number is
  in two queues or twice in one (`Accounted`, with `Fine`). `FinalizedAreGone`
  needs that what is registered from now on is newer than the mark of every call
  in progress (`MarksArePast`), and that the calls below the top one stay as
  they are (`CallsStep`).
* `ChainsAreLists`: `ExitSpec => IsDtorList`. The newest element that matches is
  found although the search goes from block to block, because a chain is `Fine`.

`ApiProofs`, for any finite set of threads, all functions of the five
interfaces, any depth of recursion and any number of items.

* `TypeCorrect`, `ResultsTellTheTruth` (`ClientViewIsTrue`) and `OwnersHold`
  (`OwnerIsHolder`) from `LockInv`. Per thread it says where a call may be
  (`Placed`, `Calling`, `Exiting`), that exactly those threads hold the lock
  that have it by their place and their view (`Held`, `Viewed`), and how the
  owner and the saved depth follow (`Owned`); in addition, only readers share
  and an owner exists for the kinds that have one. A step moves one thread, so
  most of the proof is `OthersStay`. What is asked of each of the many functions
  is in one lemma, that its record is `Sound`: a failure can be told from a
  success, and nothing is locked that is not the lock of this behaviour.
* `CondSleepsProperly`: the condition variable with all these clients implements
  `SleepQueue` (`SleepsProperly`), with `Enlisted` as the sleepers. So the
  invariant of `SleepQueueProofs` holds of it (`Covered`).
* `ItemsAreSignaled` (`NoItemForgotten`). The invariant `Enough` compares
  numbers: either releases, threads on their way to take an item and signals
  that are due are as many as the items, or releases and due signals are as many
  as the sleepers. Both halves are needed: a signal that finds nobody asleep
  wakes nobody, and is wanted only if somebody goes to sleep later, who has then
  seen that there is no item (`SeenNone`).

`DataProofs`, first part: thread-local values, for any finite set of threads,
any keys and values, any hash multiplier and radix, and any capacity rule with
`Base` and `Step` of at least 2.

* The search. `TurnGetsThere`: the places a search visits are all places of the
  table, so that it ends where there is an empty one (`SearchEnds`), and the
  first stop exists by well-founded induction on the natural numbers
  (`FirstStop`). A table is `Findable` when the search for the key of each
  element ends at that element; from this follow that no key has two elements,
  and that a search which ends at an empty one proves that the key is not there
  (`ProbeFinds`). Filling the element at which the search for a key ends keeps a
  table findable (`FilledIsFindable`). This is the point of linear probing
  without removal: only empty elements are filled, so no other search gets
  shorter, and none that passed there stopped there.
* `TlsTypeCorrect`, `KeyReferencesCounted` (`RefsCounted`) and
  `TablesHalfEmpty` (`HalfEmpty`) from one invariant `IInv`. `HalfEmpty` needs
  that the number of elements still to be moved whose keys are not deleted
  (`Active`) fits into the new table beside those already there and the new one
  (`Roomy`); deletions in between make that number smaller only. `RefsCounted`
  needs that old and new storage have no key in common (`Apart`), and its second
  part that a call has a reference that lasts (`Using`).
* `TablesAreMaps`: `Spec => IsTlsMap`. What a thread has stored for a key
  (`Held`) is the value in the old storage, or else in the table; what is seen
  is that, unless the key is deleted (`SeenIsView`). For each action there is a
  lemma on what it does to `Held`, from which the step of the map, or that there
  is none, follows (`MapOfKeys` to `MapCallDtor`); `Deleted` are the keys that
  the map takes for deleted. That a new key at an address that was used before
  starts without values rests on `RefsCounted`: a freed key is in no table
  (`NoFreedKey`).

`DataProofs`, second part, about `CpuSets`, which has no run: its theorems are
for collections of every size. The invariant `BuildInv` describes the insertion
sort while an element is on its way (the sequence with its gap is ordered and
there is room for it); `Narrowed` says that the search keeps the CPU in its
range.

`DataProofs`, third part, about `Timeout`, which has no run either, since its
numbers are beyond those of TLC. `DivisionIsExact` holds for less than some
seven years in units of 100 ns; beyond that `DivisionIsClose` and
`UtcNowIsClose` leave the next millisecond as a possibility, which it takes
within the last microsecond of one. `RoundedUp` shows that no conversion from
nanoseconds ends a wait early. `InitializedFits` and `InitializedIsThatTime`
show that the limits in `__MCF_initialize_winnt_timeout_v3` keep the product
within 64 bits and of the right sign; `AdjustmentKeepsDeadline` and
`AdjustmentOfKinds`, that what is left of a relative timeout ends when the whole
would have ended, as the primitives' models assume. `ShutdownLimit` takes the
initialization and the check of `__MCF_check_wait_safety` together: the limit of
three seconds is written in one unit and for two epochs, and is the same for
waits of both kinds.

Every invariant and every safety property that the runs check is a theorem, the
refinements of abstract specifications among them. Only model-checked are the
liveness properties, since liveness under fairness and `ENABLED` are out of reach
of the proof system. The two runs that end with a counterexample concern
sentences that the code does not keep, about which there is nothing to prove.

## 5. What is not modelled

* *Shutdown of the process.* While it lasts a release loop ends without its
  releases, and waits fail at once or go on for three seconds. The models
  describe a process that goes on. Which timeouts the check lets pass is
  `IsSafe` in `Timeout`, and proved (`ShutdownLimit`).
* *The global section and the loader.* Mapping the section, loading optional
  functions of the system and `DllMain` run once, under the loader lock.
* *Assembly and memory functions* of `src/xglobals.c` and `xglobals.h`: entry
  points, SEH frames, copying, filling and comparing memory, the heap. That an
  allocation may fail is modelled where the code handles it.
* *Priorities and yielding*: calls into the system that keep no state.
* *Atomics, TEB access, `fwd.h`*: intrinsics and macros. The width and the
  order of atomic operations are not modelled.
* *Ctrl-C.* `_MCF_sleep` adds a handler that broadcasts on the condition variable
  it sleeps on, and removes it after the wait. The handler runs in a thread of
  the system; in `Api` a broadcast by any thread ends the sleep as it does.
* *In the interfaces*: comparisons and identifiers, moves and swaps of the C++
  classes, which only pass values on.
* *Tests, benchmarks and patches* of other projects.

## 6. Plan

Done, each with proofs: the protocol; the mutex, semaphore, event, once flag and
shared mutex; the condition variable and the five interfaces as its clients;
threads, thread-local storage, the destructor queue and exit; timeouts and
processor sets.

Next, in this order:

1. Shutdown: `KeyedWait` with a flag for a process that ends, and the release
   loop that ends with it; then, which of the theorems need that it is off.
2. The width of `__nsleep`: the models let it grow with the number of threads.
   `CountedWait` could bound it, with the number of threads at which it holds.
