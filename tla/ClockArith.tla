----------------------------- MODULE ClockArith -----------------------------
(***************************************************************************)
(* The arithmetic of the clocks (time.c): mach time to nanoseconds by a    *)
(* fixed-point multiplier, nanoseconds to a timespec in half words, and    *)
(* the clocks read both ways.  A word is Half * Half, 2^64 in the program. *)
(***************************************************************************)
EXTENDS Integers

CONSTANTS Half,       \* 2^32
          Extra,      \* 2^EXTRA_SHIFT
          BILLION,    \* nanoseconds in a second
          MILLION,    \* microseconds in a second
          Scales,     \* <<numer, denom>> of the kernel; numer 0: it has failed
          Values,     \* the numbers tried
          Usages      \* the user and system times tried, [sec, usec] each

Word == Half * Half
Micro == BILLION \div MILLION
NULL_SCALE == Half * Extra

ClockConstants ==
    /\ Half \in Nat /\ Extra \in Nat /\ MILLION \in Nat \ {0}
    /\ BILLION = Micro * MILLION /\ BILLION < Half
    /\ Values \subseteq 0 .. Word - 1

VARIABLES scale, a, b, user, system
vars == <<scale, a, b, user, system>>

Init == /\ scale \in Scales
        /\ a \in Values /\ b = 0
        /\ user \in Usages /\ system \in Usages
Next == \E n \in Values : /\ b = 0 /\ b' = n
                          /\ UNCHANGED <<scale, a, user, system>>
Spec == Init /\ [][Next]_vars

(***************************************************************************)
(* Scaling                                                                 *)
(***************************************************************************)
\* setup_mach_mult; the shift is smaller for a numerator of many bits.
mach_mult(s) ==
    IF s[1] < Word \div NULL_SCALE
    THEN (s[1] * NULL_SCALE + (s[2] \div 2)) \div s[2]
    ELSE (((s[1] * Half + (s[2] \div 2)) \div s[2]) * Extra) % Word
res_mach(s) == (mach_mult(s) + NULL_SCALE - 1) \div NULL_SCALE

\* Mutation of mmul64: the high half of one cross product is not carried.
mmul64_uncarried(x, y) ==
    LET xh == x \div Half      xl == x % Half
        yh == y \div Half      yl == y % Half
        mid == (xl * yh + ((xh * yl) % Half) + ((xl * yl) \div Half)) % Word
    IN  ((xh * yh + (mid \div Half)) * Half + (mid % Half)) % Word

\* The middle word of the product, from the four products of halves.
mmul64(x, y) ==
    LET xh == x \div Half      xl == x % Half
        yh == y \div Half      yl == y % Half
        mid == (xl * yh + ((xh * yl) % Half) + ((xl * yl) \div Half)) % Word
        high == (xh * yh + (mid \div Half) + ((xh * yl) \div Half)) % Word
    IN  (high * Half + (mid % Half)) % Word

mach2nanos(s, t) == IF mach_mult(s) = NULL_SCALE THEN t
                    ELSE mmul64(t, mach_mult(s)) \div Extra

Timespec(sec, nsec) == [sec |-> sec, nsec |-> nsec]

\* The remainder is computed in half words.
nanos2timespec(n) ==
    LET secs == n \div BILLION
    IN  Timespec(secs, ((n % Half) - (secs % Half) * BILLION) % Half)

(***************************************************************************)
(* The clocks: the time of day is `user`, the mach time a.                 *)
(***************************************************************************)
Nanos(sec, usec) == sec * BILLION + usec * Micro
get_thread_usage_ns ==
    LET n == Nanos(user.sec + system.sec, user.usec + system.usec)
    IN  IF n = 0 THEN 1 ELSE n

get_thread_usage_ts ==
    LET nsec == (user.usec + system.usec) * Micro
        sec == user.sec + system.sec
        ts == IF nsec >= BILLION THEN Timespec(sec + 1, nsec - BILLION)
              ELSE Timespec(sec, nsec)
    IN  IF ts = Timespec(0, 0) THEN Timespec(0, 1) ELSE ts

Ids == {"realtime", "process", "thread", "monotonic", "monotonic_raw", "uptime_raw"}
Quantized(s, t) == (mach2nanos(s, t) \div Micro) * Micro
clock_gettime_nsec_np(id) ==
    CASE id = "realtime" -> Nanos(user.sec, user.usec)
      [] id = "process" -> Nanos(user.sec + system.sec, user.usec + system.usec)
      [] id = "thread" -> get_thread_usage_ns
      [] id = "monotonic" -> Quantized(scale, a)
      [] OTHER -> mach2nanos(scale, a)

\* timeradd and TIMEVAL_TO_TIMESPEC (external) carry too.
clock_gettime(id) ==
    CASE id = "realtime" -> Timespec(user.sec, user.usec * Micro)
      [] id = "process" -> LET usec == user.usec + system.usec
                           IN  Timespec(user.sec + system.sec + (usec \div MILLION),
                                        (usec % MILLION) * Micro)
      [] id = "thread" -> get_thread_usage_ts
      [] id = "monotonic" -> nanos2timespec(Quantized(scale, a))
      [] OTHER -> nanos2timespec(mach2nanos(scale, a))

\* In nanoseconds, rounded up, for the clocks that count mach time.
clock_getres(id) == IF id \in {"monotonic_raw", "uptime_raw"} THEN res_mach(scale)
                    ELSE Micro

(***************************************************************************)
(* Properties                                                              *)
(***************************************************************************)
Distance(x, y) == IF x < y THEN y - x ELSE x - y
Overflows == (a * mach_mult(scale)) \div Half >= Word

\* The fixed-point product is exact, and mach time scaled by it is off by less than
\* the multiplier's rounding and one, up to the overflow the code accepts.
Scaled ==
    /\ mmul64(a, b) = ((a * b) \div Half) % Word
    /\ ~Overflows /\ scale[1] < Word \div NULL_SCALE =>
          Distance(mach2nanos(scale, a) * scale[2], a * scale[1])
              <= scale[2] * (1 + ((a + NULL_SCALE - 1) \div NULL_SCALE))

\* A clock read as nanoseconds and as a timespec reads the same, its nanoseconds are
\* less than a second, and its resolution is not zero unless the scale has failed.
ClocksAgree ==
    \A id \in Ids :
        LET ts == clock_gettime(id) IN
        /\ Nanos(ts.sec, 0) + ts.nsec = clock_gettime_nsec_np(id)
        /\ ts.nsec \in 0 .. BILLION - 1
        /\ scale[1] # 0 => clock_getres(id) # 0
=============================================================================
