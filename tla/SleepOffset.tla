---------------------------- MODULE SleepOffset ----------------------------
(***************************************************************************)
(* Continuous time (time.c): mach time plus the time slept before the      *)
(* program began, worked out once from the boot time, the time of day and  *)
(* mach time, which are read one after another, each a step.  Mach time is *)
(* in nanoseconds, as on x86; a microsecond is Micro of them.              *)
(*                                                                         *)
(* `Uses` names what may happen beyond what the code stands:               *)
(*   "race"   two threads work the offset out at once, after the library's *)
(*            constructor has failed to                                    *)
(***************************************************************************)
EXTENDS Integers

CONSTANTS Threads, Main,
          Boots,       \* the boot time the kernel may report, ...
          Ahead,       \* ... for this time of day at mach time 0
          Step, Steps, \* by how much, and how often, the time of day is set ahead
          Micro,
          TRIES,       \* 5 samples
          Advance,     \* MIN_SLEEP_OFFSET_ADVANCE
          Drift,       \* 1000000 / MAX_DRIFT_PPM
          MaxNow, WORD, Uses

SleepConstants ==
    /\ Main \in Threads /\ Micro \in Nat \ {0} /\ TRIES \in Nat \ {0}
    /\ Advance \in Nat /\ Drift \in Nat \ {0} /\ WORD \in Nat
    /\ Boots \subseteq Nat /\ {Ahead, Steps, MaxNow} \subseteq Nat /\ Step \in Nat \ {0}
    /\ 2 * MaxNow + Ahead + Steps * Step < WORD   \* continuous time fits in a word
    /\ Uses \subseteq {"race"}

VARIABLES now,        \* mach_absolute_time
          ahead,      \* the time of day less mach time
          boot,
          sleep_offset, sleep_offset_valid, first_offset,
          since,      \* sleep_info.mach_before
          seen,       \* the latest continuous time any call has returned
          call        \* where each thread is, and what it has read

vars == <<now, ahead, boot, sleep_offset, sleep_offset_valid, first_offset, since,
          seen, call>>
clocks == <<now, ahead, boot>>
shared == <<sleep_offset, sleep_offset_valid, first_offset, since>>

NoInfo == [boot |-> 0, tod |-> 0, before |-> 0, after |-> 0]
Idle == [at |-> "idle", startup |-> FALSE, tod |-> 0, next |-> 0, mt |-> 0,
         si |-> NoInfo, left |-> 0, floor |-> 0, result |-> 0]

\* The library's constructor runs first.
Init == /\ now = 0
        /\ ahead = Ahead /\ boot \in Boots
        /\ sleep_offset = 0 /\ sleep_offset_valid = FALSE
        /\ first_offset = 0 /\ since = 0 /\ seen = 0
        /\ call = [t \in Threads |->
              [Idle EXCEPT !.at = IF t = Main THEN "boottime" ELSE "unborn",
                           !.startup = (t = Main)]]

At(t, at) == call[t].at = at
gettimeofday == ((now + ahead) \div Micro) * Micro

Tick == /\ now < MaxNow
        /\ now' = now + 1
        /\ UNCHANGED <<ahead, boot, shared, seen, call>>

\* settimeofday: only later systems move the boot time with it.
SetTime == /\ ahead < Ahead + Steps * Step
           /\ ahead' = ahead + Step
           /\ boot' \in {boot, boot + Step}
           /\ UNCHANGED <<now, shared, seen, call>>

\* mach_continuous_time, and what it returns must not be less than what has been
\* returned to anyone before.
mach_continuous_time(t) ==
    /\ At(t, "idle")
    /\ ~sleep_offset_valid /\ "race" \notin Uses =>
          \A u \in Threads : call[u].at \in {"idle", "unborn"}
    /\ call' = [call EXCEPT ![t] =
          [Idle EXCEPT !.at = IF sleep_offset_valid THEN "read" ELSE "boottime",
                       !.floor = seen]]
    /\ UNCHANGED <<clocks, shared, seen>>

ReadMach(t) ==
    /\ At(t, "read")
    /\ call' = [call EXCEPT ![t] = [@ EXCEPT !.mt = now, !.at = "add"]]
    /\ UNCHANGED <<clocks, shared, seen>>

Larger(m, n) == IF m > n THEN m ELSE n
AddOffset(t) ==
    LET result == (call[t].mt + sleep_offset) % WORD IN
    /\ At(t, "add")
    /\ call' = [call EXCEPT ![t] = [@ EXCEPT !.result = result, !.at = "return"]]
    /\ seen' = Larger(seen, result)
    /\ UNCHANGED <<clocks, shared>>

Return(t) == /\ At(t, "return")
             /\ call' = [call EXCEPT ![t] = Idle]
             /\ UNCHANGED <<clocks, shared, seen>>

(***************************************************************************)
(* get_sleep_offset                                                        *)
(***************************************************************************)
\* Back in mach_continuous_time, or from the constructor, after which the program
\* begins.
Leave(t) ==
    call' = IF call[t].startup THEN [u \in Threads |-> Idle]
            ELSE [call EXCEPT ![t] = [Idle EXCEPT !.at = "read", !.floor = call[t].floor]]

\* get_boottime: it may fail, for now or ("bad") for good; a failure of any later
\* read has the same effect.
Boottime(t) ==
    /\ At(t, "boottime")
    /\ \E answer \in {"ok", "fail", "bad"} :
          /\ sleep_offset_valid' = (sleep_offset_valid \/ answer = "bad")
          /\ IF answer = "ok"
             THEN call' = [call EXCEPT ![t] = [@ EXCEPT !.si = [NoInfo EXCEPT !.boot = boot],
                                                      !.left = TRIES, !.at = "tod"]]
             ELSE Leave(t)
    /\ UNCHANGED <<clocks, sleep_offset, first_offset, since, seen>>

\* get_todmach: the time of day and mach time, ...
Tod(t) == /\ At(t, "tod")
          /\ call' = [call EXCEPT ![t] = [@ EXCEPT !.tod = gettimeofday, !.at = "mach"]]
          /\ UNCHANGED <<clocks, shared, seen>>

Mach(t) == /\ At(t, "mach")
           /\ call' = [call EXCEPT ![t] = [@ EXCEPT !.mt = now, !.at = "tod_again"]]
           /\ UNCHANGED <<clocks, shared, seen>>

\* ... again and again until the time of day is another.
TodAgain(t) ==
    /\ At(t, "tod_again")
    /\ call' = [call EXCEPT ![t] = [@ EXCEPT !.next = gettimeofday, !.at = "mach_again"]]
    /\ UNCHANGED <<clocks, shared, seen>>

\* mach_diff, rounded up, with one more.
Diff(before, after) == (after - before + 3) \div 2

\* get_sleepofs_info keeps the closest of the samples.
MachAgain(t) ==
    LET c == call[t]
        sample == [boot |-> c.si.boot, tod |-> c.next, before |-> c.mt, after |-> now]
        best == IF c.left = TRIES \/ Diff(c.mt, now) < Diff(c.si.before, c.si.after)
                THEN sample ELSE c.si
    IN
    /\ At(t, "mach_again")
    /\ call' = [call EXCEPT ![t] =
          IF c.next = c.tod THEN [c EXCEPT !.mt = now, !.at = "tod_again"]
          ELSE [c EXCEPT !.si = best, !.left = c.left - 1,
                         !.at = IF c.left = 1 THEN "boottime_again" ELSE "tod"]]
    /\ UNCHANGED <<clocks, shared, seen>>

\* All of it again if the boot time is another.
BoottimeAgain(t) ==
    LET c == call[t] IN
    /\ At(t, "boottime_again")
    /\ call' = [call EXCEPT ![t] =
          IF boot = c.si.boot THEN [c EXCEPT !.at = "commit"]
          ELSE [c EXCEPT !.si = [NoInfo EXCEPT !.boot = boot], !.left = TRIES,
                         !.at = "tod"]]
    /\ UNCHANGED <<clocks, shared, seen>>

\* Under sleepofs_lock.  The signed offset is compared as an unsigned number.
Advanced(offset, si) ==
    LET least == Larger(Advance, (si.before - since) \div Drift)
        base  == IF first_offset = 0 /\ offset < 0 THEN offset ELSE first_offset
        more  == (offset - base) % WORD > (sleep_offset + least) % WORD
    IN  /\ first_offset' = base
        /\ sleep_offset' = IF more THEN (offset - base) % WORD ELSE sleep_offset
        /\ since' = IF more THEN si.before ELSE since

Commit(t) ==
    LET si == call[t].si
        toddiff == si.tod - si.boot
    IN
    /\ At(t, "commit")
    /\ sleep_offset_valid' = TRUE
    /\ IF toddiff < 0 THEN UNCHANGED <<sleep_offset, first_offset, since>>
       ELSE Advanced(toddiff - ((si.before + si.after) \div 2), si)
    /\ Leave(t)
    /\ UNCHANGED <<clocks, seen>>

Next == \/ Tick \/ SetTime
        \/ \E t \in Threads :
              \/ mach_continuous_time(t) \/ ReadMach(t) \/ AddOffset(t) \/ Return(t)
              \/ Boottime(t) \/ Tod(t) \/ Mach(t) \/ TodAgain(t) \/ MachAgain(t)
              \/ BoottimeAgain(t) \/ Commit(t)

Spec == Init /\ [][Next]_vars

(***************************************************************************)
(* Properties                                                              *)
(***************************************************************************)
\* Continuous time never goes back, for no thread, across the moment the offset is
\* found ("the mandatory monotonicity property", time.c on CLOCK_MONOTONIC).
Monotonic == \A t \in Threads : At(t, "return") => call[t].result >= call[t].floor
=============================================================================
