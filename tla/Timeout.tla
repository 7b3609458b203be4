------------------------------ MODULE Timeout -------------------------------
(***************************************************************************)
(* How times become timeouts: the clocks of src/clock.c, what programs     *)
(* give in nanoseconds (gthr_aux.c, libcxx.c, c11.c, cxx11.hpp), and the   *)
(* timeouts of the kernel in units of 100 ns (src/xglobals.c).             *)
(*                                                                         *)
(* The constants are those of the code, and are beyond what TLC computes   *)
(* with; DataProofs is about them.  Where the code computes with           *)
(* `double`, its result may be the next millisecond instead of the one     *)
(* that is given here.                                                     *)
(***************************************************************************)
EXTENDS Integers

Between(a, b) == {i \in Int : a <= i /\ i <= b}

Int64 == Between(-9223372036854775808, 9223372036854775807)
UInt64 == Between(0, 18446744073709551615)

Smaller(a, b) == IF a < b THEN a ELSE b

-----------------------------------------------------------------------------
(* Clocks *)

(***************************************************************************)
(* do_divide_by_10000, without a division.                                 *)
(***************************************************************************)
DivideBy10000(v) == (v * 1844674407370956) \div 18446744073709551616

(***************************************************************************)
(* The same where the compiler has no multiplication with 128 bits: both   *)
(* factors are split into halves of 32 bits.                               *)
(***************************************************************************)
Hi(v) == v \div 4294967296
Lo(v) == v % 4294967296

DivideInHalves(v) ==
    LET x0 == Hi(Lo(v) * 3133608140)
        x1 == Lo(v) * 429496
        x2 == Hi(Hi(v) * 3133608140 + Lo(x1) + x0)
    IN  Hi(v) * 429496 + x2 + Hi(x1)

(***************************************************************************)
(* _MCF_utc_now from a time since 1601, which is not before 1970;          *)
(* _MCF_steady_now and _MCF_tick_count from times since the system has     *)
(* been started.                                                           *)
(***************************************************************************)
UtcNow(filetime) == DivideBy10000(filetime - 116444736000000000)
SteadyNow(time) == DivideBy10000(time)

-----------------------------------------------------------------------------
(* Nanoseconds *)

MaxMs == 9223372036854774784    \* 2^63 - 2^10

(***************************************************************************)
(* Milliseconds are rounded up and clamped.  So do __clamp_duration, and   *)
(* the functions below.                                                    *)
(***************************************************************************)
Clamped(ns) ==
    IF ns <= 0 THEN 0 ELSE Smaller((ns + 999999) \div 1000000, MaxMs)

(***************************************************************************)
(* __clamp_duration of milliseconds has nothing to round.                  *)
(***************************************************************************)
ClampedMs(ms) == IF ms < 0 THEN 0 ELSE Smaller(ms, MaxMs)

(***************************************************************************)
(* __MCF_gthr_timeout_from_timespec, __MCF_c11__thrd_sleep_until, and the  *)
(* __wait_until of the system clock: a time since 1970.                    *)
(***************************************************************************)
TimeoutFromTimespec(ns) == Clamped(ns)

(***************************************************************************)
(* __MCF_c11_thrd_sleep sleeps until a time, too; who is interrupted is    *)
(* told how much is left, up to that time as it was before the fraction of *)
(* a millisecond was cut off.                                              *)
(***************************************************************************)
ThrdSleep(ns, utc) == Clamped(utc + ns)
ThrdSleepRemains(ns, utc, now) ==
    LET rem == Smaller(utc + ns + 999999, MaxMs * 1000000) - now
    IN  IF rem < 0 THEN 0 ELSE rem

(***************************************************************************)
(* __wait_for, and the __wait_until of another clock, which begins the     *)
(* next round with what is left; __MCF_libcxx_thread_sleep_for_ns_count.   *)
(***************************************************************************)
WaitFor(ns) == -Clamped(ns)
WaitUntil(abs, now) == -Clamped(abs - now)
SleepForNs(ns) == -Clamped(ns)

-----------------------------------------------------------------------------
(* The timeout of a wait *)

Infinite == 9223372036854775807

(***************************************************************************)
(* __MCF_initialize_winnt_timeout_v3, for those who wait forever and for a *)
(* number of milliseconds, at a time of QueryUnbiasedInterruptTime.        *)
(***************************************************************************)
Forever == [li |-> Infinite, since |-> 0]

Initialized(ms, now) ==
    IF ms > 910692730085477 \/ ms < -922337203685477 THEN Forever
    ELSE IF ms > 0 THEN [li |-> (11644473600000 + ms) * 10000, since |-> 0]
    ELSE IF ms < 0 THEN [li |-> ms * 10000, since |-> now]
    ELSE [li |-> 0, since |-> 0]

(***************************************************************************)
(* _MCF_sleep_noninterruptible passes it to the system as it is.           *)
(***************************************************************************)
SleepNoninterruptible(ms, now) == Initialized(ms, now).li

(***************************************************************************)
(* __MCF_adjust_winnt_timeout_v3.                                          *)
(***************************************************************************)
AdjustedTo(to, now) ==
    IF to.li >= 0 THEN to
    ELSE [li |-> Smaller(to.li + (now - to.since), 0), since |-> now]

(***************************************************************************)
(* __MCF_check_wait_safety, at a time since 1601, when the process shuts   *)
(* down: the wait goes on if this holds, and else the process is ended.    *)
(***************************************************************************)
IsSafe(to, filetime) ==
    \/ to.li \in Between(-30000000, 0)
    \/ to.li > 0 /\ to.li <= filetime + 30000000
=============================================================================
