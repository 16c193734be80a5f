------------------------------- MODULE MCLibc -------------------------------
(* Polyfills of libSystem for TLC: the working directories, the streams over  *)
(* memory, calls made of many system calls, and the clocks.  The parts share  *)
(* nothing and do not call one another: each behaviour is one of them, with   *)
(* the others at rest in an initial state.                                    *)
EXTENDS WorkDirs, Integers, TLC

CONSTANTS MaxSize, MaxLen,      \* FMemOpen, OpenMemStream
          Lengths, Written,       \* VectorIO
          Half, Values,         \* ClockArith
          Boots, TRIES, MaxNow, \* SleepOffset
          Allowed               \* what the programs beyond WorkDirs' use

VARIABLES part,
          buf, len, off, mode, fcall,
          contents, block, position, size, ptr, sizeloc, open, scall,
          asked, given, place, total, moved, ret,
          scale, mach, other, user, system,
          now, ahead, boot, sleep_offset, sleep_offset_valid, first_offset, since,
          seen, asking

fmem == <<buf, len, off, mode, fcall>>
mems == <<contents, block, position, size, ptr, sizeloc, open, scall>>
vector == <<asked, given, place, total, moved, ret>>
arith == <<scale, mach, other, user, system>>
sleep == <<now, ahead, boot, sleep_offset, sleep_offset_valid, first_offset, since,
           seen, asking>>
libc == <<part, vars, fmem, mems, vector, arith, sleep>>

Bytes == {0, 1}
Vectors == UNION {[1..n -> 0..3] : n \in 0..3}
ShortTexts == UNION {[1..n -> 1..3] : n \in 0..6}
Usage(sec, usec) == [sec |-> sec, usec |-> usec]

F == INSTANCE FMemOpen WITH call <- fcall, WORD <- 64,
                            Uses <- Allowed \cap {"beyond", "middle"}
M == INSTANCE OpenMemStream WITH call <- scall, Capacity <- 1,
                                 Uses <- Allowed \cap {"read", "negative", "nomem"}
\* ESC [ > 4 m and ESC [ 24 m are two bytes each here.
V == INSTANCE VectorIO WITH op <- asked, arg <- given, i <- place,
                            Needle <- <<1, 2>>, Inject <- <<1, 3>>,
                            LIMIT <- 4, STACK <- 5, MOST <- 2,
                            Uses <- Allowed \cap {"stream", "again"}
\* x86, a slower and two faster counters, and a kernel that knows no scale.
C == INSTANCE ClockArith WITH a <- mach, b <- other,
        Extra <- 2, BILLION <- 6, MILLION <- 3,
        Scales <- {<<0, 1>>, <<1, 1>>, <<5, 3>>, <<2, 3>>, <<3, 2>>},
        Usages <- {Usage(0, 0), Usage(0, 2), Usage(1, 2)}
Slept == INSTANCE SleepOffset WITH
        Threads <- {1, 2}, Main <- 1, Ahead <- 20, Step <- 7, Steps <- 1,
        call <- asking, Micro <- 2, Advance <- 3, Drift <- 4, WORD <- 1000,
        Uses <- Allowed \cap {"race"}

ASSUME LibcConstants ==
    F!FMemConstants /\ M!MemStreamConstants /\ V!IOConstants
    /\ C!ClockConstants /\ Slept!SleepConstants

\* The others rest at what their initial states allow.
MCInit ==
    /\ part \in {"dirs", "fmem", "mems", "vector", "arith", "sleep"}
    /\ part # "dirs" => cwd = CHOOSE d \in Dirs : TRUE
    /\ part # "fmem" => /\ len = 0 /\ buf = <<0>>
                        /\ mode = [kind |-> "w", plus |-> TRUE, bin |-> TRUE]
    /\ part # "vector" => asked = "real write" /\ given = <<>>
    /\ part # "arith" => /\ scale = <<1, 1>> /\ mach = 0
                         /\ user = Usage(0, 0) /\ system = Usage(0, 0)
    /\ part # "sleep" => boot = CHOOSE boottime \in Boots : TRUE
    /\ Init /\ F!Init /\ M!Init /\ V!Init /\ C!Init /\ Slept!Init

\* A closed stream, a call that has returned and the end of the time tried are
\* ends; the directories have none.
MCNext ==
        \/ part = "dirs" /\ Next /\ UNCHANGED <<part, fmem, mems, vector, arith, sleep>>
        \/ part = "fmem" /\ F!Next /\ UNCHANGED <<part, vars, mems, vector, arith, sleep>>
        \/ part = "mems" /\ M!Next /\ UNCHANGED <<part, vars, fmem, vector, arith, sleep>>
        \/ part = "vector" /\ V!Next /\ UNCHANGED <<part, vars, fmem, mems, arith, sleep>>
        \/ part = "arith" /\ C!Next /\ UNCHANGED <<part, vars, fmem, mems, vector, sleep>>
        \/ part = "sleep" /\ Slept!Next /\ UNCHANGED <<part, vars, fmem, mems, vector, arith>>
        \/ part # "dirs" /\ UNCHANGED libc

MCSpec == MCInit /\ [][MCNext]_libc

Symmetric == Permutations(Threads) \cup Permutations(Dirs) \cup Permutations(Acts)

\* Both streams over memory give their caller a file (fmemopen.c, memstream.c),
\* and a call made of many moves a prefix (preadv, sendmsg_x, write, ...).
ImplementsStreams ==
    F!ImplementsFile /\ M!ImplementsStream /\ V!ImplementsTransfer

\* A product of fixed-point numbers is the real product cut off, whatever the
\* scale (mmul64); clock_gettime_nsec_np and clock_gettime tell one time, in all
\* their forms; and continuous time never goes back for a thread (time.c).
ClocksSound == /\ part = "arith" => C!Scaled /\ C!ClocksAgree
               /\ part = "sleep" => Slept!Monotonic
=============================================================================
