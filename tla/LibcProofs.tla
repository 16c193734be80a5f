----------------------------- MODULE LibcProofs -----------------------------
(***************************************************************************)
(* Proofs about two polyfills of libSystem.                                *)
(*                                                                         *)
(* Working directories (WorkDirs), for any threads, directories, spawn     *)
(* actions and size of the table.  What a thread's call knows of the       *)
(* thread (CallsInv) needs no assumption; each theorem states what its     *)
(* property does not bear, and no more, and has an invariant of its own.   *)
(*                                                                         *)
(* Clocks (ClockArith and SleepOffset as MCLibc composes them), for any    *)
(* half word and numbers of that word, and for any boot times, number of   *)
(* samples and span of time that a word of continuous time holds.          *)
(***************************************************************************)
EXTENDS MCLibc, FiniteSets, FiniteSetTheorems, WellFoundedInduction, TLAPS

\* Every non-empty set of positive numbers has a least element, which is what
\* a scan from the first slot stops at.
LEMMA LeastExists ==
  ASSUME NEW S \in SUBSET Nat, S # {}
  PROVE  \E i \in S : \A j \in S : i <= j
<1> DEFINE T == {1..i : i \in S}
<1>1. T \subseteq FiniteSubsetsOf(Nat) /\ T # {}
  <2>1. ASSUME NEW i \in S PROVE 1..i \in FiniteSubsetsOf(Nat)
    <3>1. i \in Nat
      OBVIOUS
    <3>2. IsFiniteSet(1..i)
      BY <3>1, FS_Interval
    <3> QED
      BY <3>1, <3>2 DEF FiniteSubsetsOf
  <2> QED
    BY <2>1
<1>2. \E x \in T : \A y \in T : ~ (<<y, x>> \in StrictSubsetOrdering(Nat))
  BY <1>1, FS_StrictSubsetOrderingWellFounded, WFMin
<1>3. PICK i \in S : \A j \in S : ~ (<<1..j, 1..i>> \in StrictSubsetOrdering(Nat))
  BY <1>2
<1>4. ASSUME NEW j \in S PROVE i <= j
  <2>1. SUFFICES ASSUME j < i PROVE FALSE
    OBVIOUS
  <2>2. 1..j \subseteq 1..i /\ i \in 1..i /\ i \notin 1..j
    BY <2>1
  <2>3. <<1..j, 1..i>> \in StrictSubsetOrdering(Nat)
    BY <2>2 DEF StrictSubsetOrdering
  <2> QED
    BY <1>3, <2>3
<1> QED
  BY <1>4

\* A set of that many numbers.
LEMMA Counted ==
  ASSUME NEW n \in Nat
  PROVE  IsFiniteSet(1..n) /\ Cardinality(1..n) = n
<1>1. n \in Int /\ 1 \in Int
  OBVIOUS
<1>2. IsFiniteSet(1..n) /\ Cardinality(1..n) = IF 1 > n THEN 0 ELSE n - 1 + 1
  BY <1>1, FS_Interval
<1>3. (IF 1 > n THEN 0 ELSE n - 1 + 1) = n
  OBVIOUS
<1> QED
  BY <1>2, <1>3

-----------------------------------------------------------------------------
(***************************************************************************)
(* The calls                                                               *)
(***************************************************************************)
Spawning == {"lock", "chdir", "fork", "restore"}
Stages == {"idle", "leave", "enter", "do", "back", "path", "plain"} \cup Spawning
Places == Args \cup {"gone"}
Targets == Dirs \cup {"gone"}

Calls == [at : Stages, op : {"other", "access"}, fd : Places \cup {None},
          args : Seq(Places), had : Dirs \cup {None}, saved : Dirs \cup {None},
          done : Seq([at : Places, want : Places]), actions : Acts \cup {None}]

Vacant == Entry(None, None)
Rows == {Vacant} \cup [acts : Acts, dir : Targets]

TypeOK == /\ cwd \in Dirs
          /\ home \in Dirs
          /\ own \in [Threads -> Dirs \cup {None}]
          /\ call \in [Threads -> Calls]
          /\ swapped \in BOOLEAN
          /\ table \in [1..CHDIR_TABLE_SIZE -> Rows]
          /\ acts \in [Acts -> [live : BOOLEAN, dir : Targets \cup {None},
                                spent : BOOLEAN]]
          /\ holder \in Threads \cup {None}

\* What the stage of a call says of its arguments: a call that enters a
\* directory was given that directory's descriptor, and absolute paths.
Formed(c) ==
    /\ c.at \in {"leave", "enter"} => c.fd \in Dirs \cup {"bad"}
    /\ c.at \in {"do", "back"} => c.fd \in Dirs \cup {"fdcwd", "abs"}
    /\ c.at \in {"leave", "enter", "do"} =>
          \A i \in DOMAIN c.args : c.args[i] \in {"abs", c.fd}
    /\ c.at = "path" => Len(c.args) = 2 /\ Len(c.done) < 2
                        /\ \A i \in DOMAIN c.args : c.args[i] \in Args
    /\ c.at \in {"plain", "lock", "chdir", "fork"} => Len(c.args) = 1
    /\ c.at = "plain" => c.fd = "fdcwd"
    /\ c.at \in {"lock", "chdir"} => c.fd \in Targets
    /\ c.at \in {"fork", "restore"} => c.fd \in Dirs
    /\ c.at \in {"chdir", "fork", "restore"} => c.saved \in Dirs
    /\ c.at \in {"path", "plain"} \cup Spawning => c.op = "other"

\* The thread's own directory during a call: the one it came with, none while it
\* is between that and another, or the other.
Came(c, mine) ==
    /\ c.at \in {"path", "leave", "plain"} \cup Spawning => mine = c.had
    /\ c.at = "enter" => mine = None
    /\ c.at = "do" => mine = IF Relative(c.fd) THEN c.fd ELSE c.had
    /\ c.at = "back" /\ ~Relative(c.fd) => mine = c.had

Sound(c, mine) == Formed(c) /\ Came(c, mine)

\* One thread at most is between the lock and the unlock of g_spawn_cwd_mu.
Locked == \A t \in Threads : holder = t <=> call[t].at \in {"chdir", "fork", "restore"}

CallsInv == TypeOK /\ Locked /\ \A t \in Threads : Sound(call[t], own[t])
-----------------------------------------------------------------------------
(***************************************************************************)
(* Data                                                                    *)
(***************************************************************************)
LEMMA Distinct ==
    /\ CHDIR_TABLE_SIZE \in Nat \ {0}
    /\ None \notin Threads \cup Dirs \cup Acts \cup {"fdcwd", "abs", "bad", "gone"}
    /\ {"fdcwd", "abs", "bad", "gone"} \cap Dirs = {}
  BY DirConstants

\* One argument and two, and no result yet.
LEMMA Argument ==
  ASSUME NEW S, NEW x \in S
  PROVE  /\ <<x>> \in Seq(S)
         /\ Len(<<x>>) = 1 /\ <<x>>[1] = x
         /\ \A i \in DOMAIN <<x>> : <<x>>[i] = x
  OBVIOUS

LEMMA Arguments ==
  ASSUME NEW S, NEW x \in S, NEW y \in S
  PROVE  /\ <<x, y>> \in Seq(S)
         /\ Len(<<x, y>>) = 2
         /\ \A i \in DOMAIN <<x, y>> : <<x, y>>[i] \in {x, y}
  OBVIOUS

LEMMA NoArgument ==
  ASSUME NEW S
  PROVE  /\ <<>> \in Seq(S)
         /\ Len(<<>>) = 0
         /\ DOMAIN <<>> = {}
  OBVIOUS

\* A result for each argument.
LEMMA Results ==
  ASSUME NEW S, NEW R, NEW s \in Seq(S), NEW f \in [DOMAIN s -> R]
  PROVE  f \in Seq(R) /\ DOMAIN f = DOMAIN s
<1>1. DOMAIN s = 1..Len(s) /\ Len(s) \in Nat
  OBVIOUS
<1> QED
  BY <1>1 DEF Seq

\* One more result.
LEMMA Added ==
  ASSUME NEW R, NEW s \in Seq(R), NEW r
  PROVE  /\ r \in R => Append(s, r) \in Seq(R)
         /\ Len(Append(s, r)) = Len(s) + 1
         /\ \A i \in DOMAIN Append(s, r) :
               (i \in DOMAIN s /\ Append(s, r)[i] = s[i]) \/ Append(s, r)[i] = r
  OBVIOUS

LEMMA ReadAt ==
  ASSUME NEW S, NEW s \in Seq(S), NEW n \in 1..Len(s)
  PROVE  n \in DOMAIN s /\ s[n] \in S
  OBVIOUS

LEMMA StartIsIdle ==
    /\ Idle \in Calls
    /\ \A mine : Sound(Idle, mine)
  BY NoArgument DEF Idle, Calls, Stages, Spawning, Sound, Formed, Came

\* A step of one thread.
LEMMA OneCall ==
  ASSUME TypeOK, \A u \in Threads : Sound(call[u], own[u]),
         NEW t \in Threads, NEW c \in Calls, NEW mine \in Dirs \cup {None},
         Sound(c, mine),
         call' = [call EXCEPT ![t] = c], own' = [own EXCEPT ![t] = mine]
  PROVE  /\ call' \in [Threads -> Calls]
         /\ own' \in [Threads -> Dirs \cup {None}]
         /\ \A u \in Threads : Sound(call'[u], own'[u])
<1> USE DEF TypeOK
<1>1. \A u \in Threads : u # t => call'[u] = call[u] /\ own'[u] = own[u]
  OBVIOUS
<1>2. call'[t] = c /\ own'[t] = mine
  OBVIOUS
<1> QED
  BY <1>1, <1>2

LEMMA SameDirectory ==
  ASSUME TypeOK, NEW t \in Threads
  PROVE  own = [own EXCEPT ![t] = own[t]] /\ own[t] \in Dirs \cup {None}
         /\ call[t] \in Calls
  BY DEF TypeOK

\* A step away from the lock.
LEMMA LockedStays ==
  ASSUME Locked, call \in [Threads -> Calls], NEW t \in Threads, NEW c \in Calls,
         call' = [call EXCEPT ![t] = c], holder' = holder,
         c.at \in {"chdir", "fork", "restore"}
            <=> call[t].at \in {"chdir", "fork", "restore"}
  PROVE  Locked'
<1>1. \A u \in Threads : u # t => call'[u] = call[u]
  OBVIOUS
<1>2. call'[t] = c
  OBVIOUS
<1> QED
  BY <1>1, <1>2 DEF Locked

-----------------------------------------------------------------------------
(***************************************************************************)
(* What the calls keep                                                     *)
(***************************************************************************)
LEMMA StartCalls ==
  ASSUME CallsInv, NEW t \in Threads, At(t, "idle"),
         NEW op \in {"other", "access"}, NEW args \in Seq(Args), NEW fd \in Args,
         \A i \in DOMAIN args : args[i] \in {"abs", fd},
         Start(t, op, args, fd),
         swapped' \in BOOLEAN, UNCHANGED <<cwd, own, spawns>>
  PROVE  CallsInv'
<1> DEFINE c == [Idle EXCEPT !.at = IF Relative(fd) THEN "leave" ELSE "do",
                             !.op = op, !.fd = fd, !.args = args, !.had = own[t]]
<1>1. /\ c.at = IF Relative(fd) THEN "leave" ELSE "do"
      /\ c.op = op /\ c.fd = fd /\ c.args = args /\ c.had = own[t]
      /\ call' = [call EXCEPT ![t] = c]
  BY DEF Idle, Start
<1>2. c \in Calls
  <2>1. args \in Seq(Places)
    BY DEF Places
  <2>2. own[t] \in Dirs \cup {None}
    BY DEF CallsInv, TypeOK
  <2> QED
    BY <2>1, <2>2, NoArgument DEF Idle, Calls, Stages, Spawning, Places
<1>3. Sound(c, own[t])
  <2> HIDE DEF c
  <2> QED
    BY <1>1, Distinct DEF Sound, Formed, Came, Relative, Args, Spawning
<1>4. call[t].at = "idle" /\ c.at \in {"leave", "do"}
  BY <1>1 DEF At
<1> HIDE DEF c
<1>5. /\ call' \in [Threads -> Calls] /\ own' \in [Threads -> Dirs \cup {None}]
      /\ \A u \in Threads : Sound(call'[u], own'[u])
  BY <1>1, <1>2, <1>3, OneCall, SameDirectory DEF CallsInv
<1>6. Locked'
  BY <1>1, <1>2, <1>4, LockedStays DEF CallsInv, TypeOK, spawns
<1> QED
  BY <1>5, <1>6 DEF CallsInv, TypeOK, spawns

LEMMA AtCallCalls ==
  ASSUME CallsInv, NEW t \in Threads, NEW op \in {"other", "access"}, NEW fd \in Args,
         AtCall(t, op, fd)
  PROVE  CallsInv'
<1>1. swapped' \in BOOLEAN
  BY DEF AtCall
<1>2. <<fd>> \in Seq(Args) /\ \A i \in DOMAIN <<fd>> : <<fd>>[i] \in {"abs", fd}
  BY Argument
<1> QED
  BY <1>1, <1>2, StartCalls DEF AtCall

LEMMA FdOpenDirCalls ==
  ASSUME CallsInv, NEW t \in Threads, NEW d \in Dirs, FdOpenDir(t, d)
  PROVE  CallsInv'
<1>1. swapped' \in BOOLEAN /\ d \in Args
  BY DEF FdOpenDir, CallsInv, TypeOK, Args
<1>2. <<d>> \in Seq(Args) /\ \A i \in DOMAIN <<d>> : <<d>>[i] \in {"abs", d}
  BY <1>1, Argument
<1> QED
  BY <1>1, <1>2, StartCalls DEF FdOpenDir

LEMMA AtCallOfTwoCalls ==
  ASSUME CallsInv, NEW t \in Threads, NEW old \in Args, NEW new \in Args,
         AtCallOfTwo(t, old, new)
  PROVE  CallsInv'
<1>1. swapped' \in BOOLEAN
  BY DEF AtCallOfTwo, CallsInv, TypeOK
<1>2. CASE old = "abs"
  <2>1. \A i \in DOMAIN <<old, new>> : <<old, new>>[i] \in {"abs", new}
    BY <1>2, Arguments
  <2> QED
    BY <1>1, <1>2, <2>1, StartCalls, Arguments DEF AtCallOfTwo
<1>3. CASE old # "abs" /\ (new = "abs" \/ old = new)
  <2>1. \A i \in DOMAIN <<old, new>> : <<old, new>>[i] \in {"abs", old}
    BY <1>3, Arguments
  <2> QED
    BY <1>1, <1>3, <2>1, StartCalls, Arguments DEF AtCallOfTwo
<1>4. CASE old # "abs" /\ new # "abs" /\ old # new
  <2> DEFINE c == [Idle EXCEPT !.at = "path", !.args = <<old, new>>, !.had = own[t]]
  <2>1. /\ c.at = "path" /\ c.op = "other" /\ c.args = <<old, new>> /\ c.had = own[t]
        /\ c.done = <<>> /\ call' = [call EXCEPT ![t] = c]
    BY <1>4 DEF Idle, AtCallOfTwo, Set
  <2>2. c \in Calls
    <3>1. <<old, new>> \in Seq(Places)
      BY Arguments DEF Places
    <3>2. own[t] \in Dirs \cup {None}
      BY DEF CallsInv, TypeOK
    <3> QED
      BY <3>1, <3>2, NoArgument DEF Idle, Calls, Stages, Spawning, Places
  <2> HIDE DEF c
  <2>3. Sound(c, own[t])
    BY <2>1, Arguments, NoArgument DEF Sound, Formed, Came, Spawning
  <2>4. call[t].at = "idle"
    BY DEF At, AtCallOfTwo
  <2>5. /\ call' \in [Threads -> Calls] /\ own' \in [Threads -> Dirs \cup {None}]
        /\ \A u \in Threads : Sound(call'[u], own'[u])
    BY <2>1, <2>2, <2>3, OneCall, SameDirectory DEF CallsInv, AtCallOfTwo
  <2>6. Locked'
    BY <2>1, <2>2, <2>4, LockedStays DEF CallsInv, TypeOK, spawns, AtCallOfTwo
  <2> QED
    BY <2>5, <2>6 DEF CallsInv, TypeOK, spawns, AtCallOfTwo
<1> QED
  BY <1>2, <1>3, <1>4

LEMMA ChdirCalls ==
  ASSUME CallsInv, NEW t \in Threads, NEW d \in Dirs, Chdir(t, d)
  PROVE  CallsInv'
  BY DEF CallsInv, TypeOK, Locked, Chdir

LEMMA PthreadFchdirCalls ==
  ASSUME CallsInv, NEW t \in Threads, NEW d \in Dirs \cup {None}, PthreadFchdir(t, d)
  PROVE  CallsInv'
<1>1. call[t] \in Calls /\ call' = [call EXCEPT ![t] = call[t]]
  BY DEF CallsInv, TypeOK, PthreadFchdir
<1>2. Sound(call[t], d)
  BY DEF PthreadFchdir, At, Sound, CallsInv, Formed, Came, Spawning
<1>3. /\ call' \in [Threads -> Calls] /\ own' \in [Threads -> Dirs \cup {None}]
      /\ \A u \in Threads : Sound(call'[u], own'[u])
  BY <1>1, <1>2, OneCall DEF CallsInv, PthreadFchdir
<1> QED
  BY <1>3 DEF CallsInv, TypeOK, Locked, spawns, PthreadFchdir

LEMMA FullPathAtCalls ==
  ASSUME CallsInv, NEW t \in Threads, FullPathAt(t)
  PROVE  CallsInv'
<1> DEFINE c == call[t]
           n == Len(c.done) + 1
           from == IF c.args[n] = "fdcwd" THEN Where(t) ELSE c.args[n]
           result == [at |-> from, want |-> Wanted(t, c.args[n])]
           on == [c EXCEPT !.done = Append(c.done, result),
                           !.at = IF n = 2 THEN "back" ELSE "path",
                           !.args = IF n = 2 THEN <<>> ELSE c.args, !.fd = "abs"]
<1>1. /\ c \in Calls /\ c.at = "path" /\ Len(c.args) = 2 /\ Len(c.done) < 2
      /\ c.op = "other" /\ own[t] = c.had /\ own[t] \in Dirs \cup {None}
      /\ \A i \in DOMAIN c.args : c.args[i] \in Args
  BY DEF FullPathAt, At, CallsInv, TypeOK, Sound, Formed, Came, Spawning
<1>2. c.done \in Seq([at : Places, want : Places]) /\ Len(c.done) \in Nat
  BY <1>1 DEF Calls
<1>3. n \in 1..2 /\ c.args \in Seq(Places) /\ n \in DOMAIN c.args /\ c.args[n] \in Args
  <2>1. n \in 1..2 /\ c.args \in Seq(Places)
    BY <1>1, <1>2 DEF Calls
  <2>2. n \in DOMAIN c.args
    BY <2>1, <1>1, ReadAt
  <2> QED
    BY <2>1, <2>2, <1>1
<1>4. result \in [at : Places, want : Places]
  BY <1>1, <1>3 DEF Where, Wanted, Meant, Places, Args, Calls, CallsInv, TypeOK
<1>5. /\ Append(c.done, result) \in Seq([at : Places, want : Places])
      /\ Len(Append(c.done, result)) = n
  BY <1>2, <1>4, Added
<1>6. on \in Calls
  <2>1. (IF n = 2 THEN <<>> ELSE c.args) \in Seq(Places)
    BY <1>3, NoArgument
  <2>2. (IF n = 2 THEN "back" ELSE "path") \in Stages /\ "abs" \in Places \cup {None}
    BY DEF Stages, Places, Args
  <2>3. c \in Calls /\ Append(c.done, result) \in Seq([at : Places, want : Places])
    BY <1>1, <1>5
  <2> HIDE DEF from, result, n, c
  <2> QED
    BY <2>1, <2>2, <2>3 DEF Calls
<1>7. /\ on.at = IF n = 2 THEN "back" ELSE "path"
      /\ on.args = IF n = 2 THEN <<>> ELSE c.args
      /\ on.fd = "abs" /\ on.op = c.op /\ on.had = c.had
      /\ on.done = Append(c.done, result)
  BY <1>1 DEF Calls
<1>8. Sound(on, own[t])
  <2> HIDE DEF from, result, on
  <2> QED
    BY <1>1, <1>3, <1>5, <1>7 DEF Sound, Formed, Came, Relative, Spawning
<1>9. call' = [call EXCEPT ![t] = Idle] \/ call' = [call EXCEPT ![t] = on]
  BY DEF FullPathAt, Set, CallsInv, TypeOK
<1> HIDE DEF on, from, result, n, c
<1>10. PICK d \in {Idle, on} : call' = [call EXCEPT ![t] = d]
  BY <1>9
<1>11. /\ d \in Calls /\ Sound(d, own[t])
       /\ d.at \notin {"chdir", "fork", "restore"}
       /\ call[t].at = "path"
  BY <1>6, <1>7, <1>8, <1>10, <1>1, StartIsIdle DEF c, Idle
<1>12. /\ call' \in [Threads -> Calls] /\ own' \in [Threads -> Dirs \cup {None}]
       /\ \A u \in Threads : Sound(call'[u], own'[u])
  BY <1>10, <1>11, OneCall, SameDirectory DEF CallsInv, FullPathAt
<1>13. Locked'
  BY <1>10, <1>11, LockedStays DEF CallsInv, TypeOK, spawns, FullPathAt
<1> QED
  BY <1>12, <1>13 DEF CallsInv, TypeOK, spawns, FullPathAt

\* A call that goes on with another directory to come back to.
OnTo(d, c, stage, left) == d = [c EXCEPT !.at = stage, !.saved = left]

LEMMA OnWith ==
  ASSUME NEW c \in Calls, NEW stage \in Stages, NEW left \in Dirs \cup {None},
         NEW d, OnTo(d, c, stage, left)
  PROVE  d \in Calls /\ d.at = stage /\ d.args = c.args /\ d.fd = c.fd
  BY DEF Calls, OnTo

LEMMA LeaveCalls ==
  ASSUME CallsInv, NEW t \in Threads, Leave(t)
  PROVE  CallsInv'
<1>1. PICK failed \in Fails("emfile") :
         call' = [call EXCEPT ![t].at = "enter",
                              ![t].saved = IF failed THEN None ELSE own[t]]
  BY DEF Leave
<1> DEFINE c == call[t]
           d == [c EXCEPT !.at = "enter", !.saved = IF failed THEN None ELSE own[t]]
<1>2. /\ c \in Calls /\ own[t] \in Dirs \cup {None} /\ c.at = "leave"
      /\ Sound(c, own[t])
  BY DEF CallsInv, TypeOK, Leave, At
<1>3. call' = [call EXCEPT ![t] = d]
  BY <1>1 DEF CallsInv, TypeOK
<1>4. d \in Calls /\ d.at = "enter" /\ d.args = c.args /\ d.fd = c.fd
  <2> DEFINE left == IF failed THEN None ELSE own[t]
  <2>1. left \in Dirs \cup {None} /\ c \in Calls /\ "enter" \in Stages
    BY <1>2 DEF Stages
  <2>2. OnTo(d, c, "enter", left)
    BY DEF OnTo
  <2> HIDE DEF d, c, left
  <2> QED
    BY <2>1, <2>2, OnWith
<1> HIDE DEF d, c
<1>5. Sound(d, None)
  BY <1>2, <1>4 DEF Sound, Formed, Came, Spawning
<1>6. /\ call' \in [Threads -> Calls] /\ own' \in [Threads -> Dirs \cup {None}]
      /\ \A u \in Threads : Sound(call'[u], own'[u])
  BY <1>3, <1>4, <1>5, OneCall DEF CallsInv, Leave
<1>7. Locked'
  BY <1>2, <1>3, <1>4, LockedStays DEF CallsInv, TypeOK, spawns, Leave, c
<1> QED
  BY <1>6, <1>7 DEF CallsInv, TypeOK, spawns, Leave

LEMMA EnterCalls ==
  ASSUME CallsInv, NEW t \in Threads, Enter(t)
  PROVE  CallsInv'
<1> DEFINE c == call[t]
           on == [c EXCEPT !.at = "do"]
           mine == IF c.fd \in Dirs THEN c.fd ELSE c.saved
           d == IF c.fd \in Dirs THEN on ELSE Idle
<1>2. /\ c \in Calls /\ own[t] \in Dirs \cup {None} /\ c.at = "enter"
      /\ Sound(c, own[t])
  BY DEF CallsInv, TypeOK, Enter, At
<1>3. call' = [call EXCEPT ![t] = d] /\ own' = [own EXCEPT ![t] = mine]
  BY DEF Enter, Goto, Set, CallsInv, TypeOK
<1>4. on \in Calls /\ on.at = "do" /\ on.args = c.args /\ on.fd = c.fd
  BY <1>2 DEF Calls, Stages
<1>5. mine \in Dirs \cup {None}
  BY <1>2 DEF Calls
<1> HIDE DEF on, c
<1>6. d \in Calls /\ Sound(d, mine)
  <2>1. CASE c.fd \in Dirs
    BY <2>1, <1>2, <1>4, Distinct DEF Sound, Formed, Came, Spawning, Relative
  <2>2. CASE c.fd \notin Dirs
    BY <2>2, StartIsIdle
  <2> QED
    BY <2>1, <2>2
<1>7. d.at \in {"do", "idle"}
  BY <1>4 DEF Idle
<1> HIDE DEF d, mine
<1>8. /\ call' \in [Threads -> Calls] /\ own' \in [Threads -> Dirs \cup {None}]
      /\ \A u \in Threads : Sound(call'[u], own'[u])
  BY <1>3, <1>5, <1>6, OneCall DEF CallsInv, Enter
<1>9. Locked'
  BY <1>2, <1>3, <1>6, <1>7, LockedStays DEF CallsInv, TypeOK, spawns, Enter, c
<1> QED
  BY <1>8, <1>9 DEF CallsInv, TypeOK, spawns, Enter

\* Where a call is followed from, and where it should be.
LEMMA ResultsOfDo ==
  ASSUME TypeOK, NEW t \in Threads,
         \A i \in DOMAIN call[t].args : call[t].args[i] \in Args
  PROVE  [i \in DOMAIN call[t].args |->
             [at |-> IF call[t].args[i] = "abs" THEN "abs" ELSE Where(t),
              want |-> Wanted(t, call[t].args[i])]]
         \in Seq([at : Places, want : Places])
<1>1. /\ call[t].args \in Seq(Places) /\ call[t].had \in Dirs \cup {None}
      /\ own[t] \in Dirs \cup {None} /\ cwd \in Dirs /\ home \in Dirs
  BY DEF TypeOK, Calls
<1>2. ASSUME NEW i \in DOMAIN call[t].args
      PROVE  [at |-> IF call[t].args[i] = "abs" THEN "abs" ELSE Where(t),
              want |-> Wanted(t, call[t].args[i])] \in [at : Places, want : Places]
  BY <1>1, <1>2 DEF Where, Wanted, Meant, Places, Args
<1> DEFINE f == [i \in DOMAIN call[t].args |->
                   [at |-> IF call[t].args[i] = "abs" THEN "abs" ELSE Where(t),
                    want |-> Wanted(t, call[t].args[i])]]
           R == [at : Places, want : Places]
           s == call[t].args
<1>3. f \in [DOMAIN s -> R] /\ s \in Seq(Places)
  BY <1>1, <1>2
<1> HIDE DEF f, R, s
<1>4. f \in Seq(R)
  BY <1>3, Results
<1> QED
  BY <1>4 DEF f, R, s

LEMMA DoCalls ==
  ASSUME CallsInv, NEW t \in Threads, Do(t)
  PROVE  CallsInv'
<1> DEFINE c == call[t]
           results == [i \in DOMAIN c.args |->
                         [at |-> IF c.args[i] = "abs" THEN "abs" ELSE Where(t),
                          want |-> Wanted(t, c.args[i])]]
           d == [c EXCEPT !.at = "back", !.args = <<>>, !.done = results]
<1>1. /\ c \in Calls /\ own[t] \in Dirs \cup {None} /\ c.at = "do"
      /\ Sound(c, own[t])
  BY DEF CallsInv, TypeOK, Do, At
<1>2. call' = [call EXCEPT ![t] = d]
  BY DEF Do, CallsInv, TypeOK
<1>3. results \in Seq([at : Places, want : Places])
  <2>1. \A i \in DOMAIN c.args : c.args[i] \in Args
    BY <1>1 DEF Sound, Formed, Args
  <2> QED
    BY <2>1, ResultsOfDo DEF CallsInv
<1> HIDE DEF results
<1>4. d \in Calls /\ d.at = "back" /\ d.args = <<>> /\ d.fd = c.fd /\ d.had = c.had
  BY <1>1, <1>3, NoArgument DEF Calls, Stages
<1> HIDE DEF d, c
<1>5. Sound(d, own[t])
  BY <1>1, <1>4 DEF Sound, Formed, Came, Spawning
<1>6. /\ call' \in [Threads -> Calls] /\ own' \in [Threads -> Dirs \cup {None}]
      /\ \A u \in Threads : Sound(call'[u], own'[u])
  BY <1>2, <1>4, <1>5, OneCall, SameDirectory DEF CallsInv, Do
<1>7. Locked'
  BY <1>1, <1>2, <1>4, LockedStays DEF CallsInv, TypeOK, spawns, Do, c
<1> QED
  BY <1>6, <1>7 DEF CallsInv, TypeOK, spawns, Do

LEMMA BackCalls ==
  ASSUME CallsInv, NEW t \in Threads, Back(t)
  PROVE  CallsInv'
<1> DEFINE c == call[t]
           mine == IF Relative(c.fd) THEN c.saved ELSE own[t]
<1>1. /\ c \in Calls /\ own[t] \in Dirs \cup {None} /\ c.at = "back"
      /\ mine \in Dirs \cup {None}
  BY DEF CallsInv, TypeOK, Back, At, Calls
<1>2. call' = [call EXCEPT ![t] = Idle] /\ own' = [own EXCEPT ![t] = mine]
  BY <1>1 DEF Back, Set, CallsInv, TypeOK
<1> HIDE DEF mine
<1>3. Idle.at = "idle" /\ Idle \in Calls /\ Sound(Idle, mine)
  BY StartIsIdle DEF Idle
<1>4. /\ call' \in [Threads -> Calls] /\ own' \in [Threads -> Dirs \cup {None}]
      /\ \A u \in Threads : Sound(call'[u], own'[u])
  BY <1>1, <1>2, <1>3, OneCall DEF CallsInv
<1>5. Locked'
  BY <1>1, <1>2, <1>3, LockedStays DEF CallsInv, TypeOK, spawns, Back
<1>6. swapped' \in BOOLEAN
  BY DEF Back
<1> QED
  BY <1>4, <1>5, <1>6 DEF CallsInv, TypeOK, spawns, Back

(***************************************************************************)
(* The table of the spawns                                                 *)
(***************************************************************************)
LEMMA TableIsSeq ==
  ASSUME TypeOK
  PROVE  Len(table) = CHDIR_TABLE_SIZE /\ 1..Len(table) = 1..CHDIR_TABLE_SIZE
<1>1. CHDIR_TABLE_SIZE \in Nat /\ DOMAIN table = 1..CHDIR_TABLE_SIZE
  BY Distinct DEF TypeOK
<1> QED
  BY <1>1

\* A scan stops at the first entry of which a test is true.
LEMMA ScanStops ==
  ASSUME NEW n \in Nat, NEW I \in SUBSET (1..n), I # {}
  PROVE  Min(I) \in I
<1>1. PICK i \in I : \A j \in I : i <= j
  BY LeastExists
<1> QED
  BY <1>1 DEF Min

LEMMA FoundIs ==
  ASSUME TypeOK, NEW a \in Acts
  PROVE  /\ Found(a) # 0 => /\ Found(a) \in 1..CHDIR_TABLE_SIZE
                            /\ table[Found(a)].acts = a
         /\ Found(a) = 0 => \A i \in 1..CHDIR_TABLE_SIZE : table[i].acts # a
<1> DEFINE I == {i \in 1..Len(table) : table[i].acts = a}
<1>1. I \subseteq 1..CHDIR_TABLE_SIZE /\ CHDIR_TABLE_SIZE \in Nat
  BY TableIsSeq, Distinct
<1>2. Found(a) = IF I # {} THEN Min(I) ELSE 0
  BY DEF Found, SelectInSeq
<1>3. I # {} => Min(I) \in I
  <2> HIDE DEF I
  <2> QED
    BY <1>1, ScanStops
<1>4. I = {} => \A i \in 1..CHDIR_TABLE_SIZE : table[i].acts # a
  BY TableIsSeq
<1> QED
  BY <1>1, <1>2, <1>3, <1>4

\* chdir_set puts one entry in the table, in place of a vacant one or of one of
\* the same actions, or leaves the table as it is if there is neither.
LEMMA SetIs ==
  ASSUME TypeOK, NEW a \in Acts, NEW d \in Targets, ChdirSet(a, d)
  PROVE  \/ /\ table' = table
            /\ \A i \in 1..CHDIR_TABLE_SIZE : table[i].acts \notin {None, a}
         \/ \E i \in 1..CHDIR_TABLE_SIZE :
               /\ table[i].acts \in {None, a}
               /\ table' = [table EXCEPT ![i] = Entry(a, d)]
<1> DEFINE I == {i \in 1..Len(table) : table[i].acts \in {None, a}}
           first == SelectInSeq(table, LAMBDA e : e.acts \in {None, a})
<1>1. I \subseteq 1..CHDIR_TABLE_SIZE /\ CHDIR_TABLE_SIZE \in Nat
  BY TableIsSeq, Distinct
<1>2. first = IF I # {} THEN Min(I) ELSE 0
  BY DEF SelectInSeq
<1>3. I # {} => Min(I) \in I
  <2> HIDE DEF I
  <2> QED
    BY <1>1, ScanStops
<1>4. I = {} => \A i \in 1..CHDIR_TABLE_SIZE : table[i].acts \notin {None, a}
  BY TableIsSeq
<1>5. table' = IF first = 0 THEN table ELSE [table EXCEPT ![first] = Entry(a, d)]
  BY DEF ChdirSet
<1> HIDE DEF first
<1>6. CASE I = {}
  BY <1>2, <1>4, <1>5, <1>6
<1>7. CASE I # {}
  <2>1. first \in I /\ first \in 1..CHDIR_TABLE_SIZE /\ first # 0
    BY <1>1, <1>2, <1>3, <1>7
  <2>2. table[first].acts \in {None, a}
    BY <2>1
  <2> HIDE DEF I
  <2> QED
    BY <1>5, <2>1, <2>2
<1> QED
  BY <1>6, <1>7

LEMMA GetIs ==
  ASSUME TypeOK, NEW a \in Acts, ChdirGet(a)
  PROVE  \/ table' = table /\ \A i \in 1..CHDIR_TABLE_SIZE : table[i].acts # a
         \/ \E i \in 1..CHDIR_TABLE_SIZE :
               /\ i = Found(a) /\ table[i].acts = a
               /\ table' = [table EXCEPT ![i] = Vacant]
  BY FoundIs DEF ChdirGet, Vacant

\* An entry of actions has a directory.
LEMMA RowsAre ==
    /\ Vacant \in Rows /\ Vacant.acts = None
    /\ \A a \in Acts, d \in Targets :
          Entry(a, d) \in Rows /\ Entry(a, d).acts = a /\ Entry(a, d).dir = d
    /\ \A r \in Rows : \/ r = Vacant
                       \/ r.acts \in Acts /\ r.acts # None /\ r.dir \in Targets
  BY Distinct DEF Vacant, Rows, Entry

LEMMA InitActionsCalls ==
  ASSUME CallsInv, NEW t \in Threads, NEW a \in Acts, InitActions(t, a)
  PROVE  CallsInv'
  BY DEF CallsInv, TypeOK, Locked, InitActions

LEMMA DestroyActionsCalls ==
  ASSUME CallsInv, NEW t \in Threads, NEW a \in Acts, DestroyActions(t, a)
  PROVE  CallsInv'
  BY DEF CallsInv, TypeOK, Locked, DestroyActions, Absent

LEMMA AddChdirCalls ==
  ASSUME CallsInv, NEW t \in Threads, NEW a \in Acts, NEW d \in Targets,
         AddChdir(t, a, d)
  PROVE  CallsInv'
<1>1. table' \in [1..CHDIR_TABLE_SIZE -> Rows]
  <2>1. ChdirSet(a, d) /\ table \in [1..CHDIR_TABLE_SIZE -> Rows]
    BY DEF AddChdir, CallsInv, TypeOK
  <2>2. Entry(a, d) \in Rows
    BY RowsAre
  <2> QED
    BY <2>1, <2>2, SetIs DEF CallsInv
<1>2. acts' \in [Acts -> [live : BOOLEAN, dir : Targets \cup {None}, spent : BOOLEAN]]
  BY DEF AddChdir, CallsInv, TypeOK
<1> QED
  BY <1>1, <1>2 DEF CallsInv, TypeOK, Locked, AddChdir

LEMMA SpawnCalls ==
  ASSUME CallsInv, NEW t \in Threads, NEW a \in Acts, Spawn(t, a)
  PROVE  CallsInv'
<1> DEFINE arg == IF acts[a].dir = None THEN "fdcwd" ELSE acts[a].dir
           fd == IF Found(a) = 0 THEN "fdcwd" ELSE table[Found(a)].dir
           c == [Idle EXCEPT !.actions = a, !.had = own[t],
                             !.at = IF Found(a) = 0 THEN "plain" ELSE "lock",
                             !.fd = fd, !.args = <<arg>>]
<1>1. /\ call' = [call EXCEPT ![t] = c]
      /\ c.at = IF Found(a) = 0 THEN "plain" ELSE "lock"
      /\ c.op = "other" /\ c.fd = fd /\ c.args = <<arg>> /\ c.had = own[t]
  BY DEF Idle, Spawn, Set
<1>2. arg \in Places
  BY DEF CallsInv, TypeOK, Places, Args, Targets
<1>3. fd \in Places /\ IF Found(a) = 0 THEN fd = "fdcwd" ELSE fd \in Targets
  <2>1. CASE Found(a) = 0
    BY <2>1 DEF Places, Args
  <2>2. CASE Found(a) # 0
    <3>1. table[Found(a)] \in Rows /\ table[Found(a)].acts = a
      BY <2>2, FoundIs DEF CallsInv, TypeOK
    <3> QED
      BY <3>1, <2>2, RowsAre, Distinct DEF Places, Args, Targets
  <2> QED
    BY <2>1, <2>2
<1> HIDE DEF arg, fd
<1>4. c \in Calls
  <2>1. <<arg>> \in Seq(Places) /\ own[t] \in Dirs \cup {None}
    BY <1>2, Argument DEF CallsInv, TypeOK
  <2> QED
    BY <2>1, <1>3, NoArgument DEF Idle, Calls, Stages, Spawning
<1> HIDE DEF c
<1>5. Sound(c, own[t]) /\ c.at \in {"plain", "lock"}
  BY <1>1, <1>2, <1>3, Argument DEF Sound, Formed, Came, Spawning
<1>6. call[t].at = "idle"
  BY DEF At, Spawn
<1>7. /\ call' \in [Threads -> Calls] /\ own' \in [Threads -> Dirs \cup {None}]
      /\ \A u \in Threads : Sound(call'[u], own'[u])
  BY <1>1, <1>4, <1>5, OneCall, SameDirectory DEF CallsInv, Spawn
<1>8. Locked'
  BY <1>1, <1>4, <1>5, <1>6, LockedStays DEF CallsInv, TypeOK, Spawn
<1>9. table' \in [1..CHDIR_TABLE_SIZE -> Rows]
  <2>1. ChdirGet(a) /\ table \in [1..CHDIR_TABLE_SIZE -> Rows]
    BY DEF Spawn, CallsInv, TypeOK
  <2> QED
    BY <2>1, GetIs, RowsAre DEF CallsInv
<1>10. acts' \in [Acts -> [live : BOOLEAN, dir : Targets \cup {None}, spent : BOOLEAN]]
  BY DEF Spawn, CallsInv, TypeOK
<1> QED
  BY <1>7, <1>8, <1>9, <1>10 DEF CallsInv, TypeOK, Spawn

LEMMA LockCalls ==
  ASSUME CallsInv, NEW t \in Threads, Lock(t)
  PROVE  CallsInv'
<1> DEFINE c == call[t]
           on == [c EXCEPT !.at = "chdir", !.saved = Where(t)]
<1>1. /\ c \in Calls /\ own[t] \in Dirs \cup {None} /\ c.at = "lock"
      /\ Sound(c, own[t]) /\ holder = None
  BY DEF CallsInv, TypeOK, Lock, At
<1>2. Where(t) \in Dirs
  BY DEF Where, CallsInv, TypeOK
<1>3. PICK d \in {Idle, on} :
         /\ call' = [call EXCEPT ![t] = d]
         /\ holder' = IF d = Idle THEN None ELSE t
  <2>1. \/ call' = [call EXCEPT ![t] = Idle] /\ holder' = holder
        \/ call' = [call EXCEPT ![t] = on] /\ holder' = t
    BY DEF Lock, Set, CallsInv, TypeOK
  <2>2. on # Idle
    BY <1>1 DEF Idle, Calls
  <2> HIDE DEF on
  <2> QED
    BY <1>1, <2>1, <2>2
<1>4. /\ on \in Calls /\ on.at = "chdir" /\ on.args = c.args /\ on.fd = c.fd
      /\ on.had = c.had /\ on.op = c.op /\ on.saved \in Dirs
  BY <1>1, <1>2 DEF Calls, Stages, Spawning
<1>5. Idle.at = "idle"
  BY DEF Idle
<1> HIDE DEF on, c
<1>6. Sound(on, own[t])
  BY <1>1, <1>4 DEF Sound, Formed, Came, Spawning
<1>7. d \in Calls /\ Sound(d, own[t]) /\ d.at = IF d = Idle THEN "idle" ELSE "chdir"
  BY <1>3, <1>4, <1>5, <1>6, StartIsIdle
<1>8. /\ call' \in [Threads -> Calls] /\ own' \in [Threads -> Dirs \cup {None}]
      /\ \A u \in Threads : Sound(call'[u], own'[u])
  BY <1>3, <1>7, OneCall, SameDirectory DEF CallsInv, Lock
<1>9. Locked'
  <2>1. call'[t] = d /\ \A u \in Threads : u # t => call'[u] = call[u]
    BY <1>3 DEF CallsInv, TypeOK
  <2> QED
    BY <2>1, <1>1, <1>3, <1>7, Distinct DEF Locked, CallsInv, c
<1> QED
  BY <1>3, <1>8, <1>9 DEF CallsInv, TypeOK, Lock

LEMMA EntersCalls ==
  ASSUME CallsInv, NEW t \in Threads, Enters(t)
  PROVE  CallsInv'
<1> DEFINE c == call[t]
           on == [c EXCEPT !.at = "fork"]
           d == IF c.fd = "gone" THEN Idle ELSE on
<1>1. /\ c \in Calls /\ own[t] \in Dirs \cup {None} /\ c.at = "chdir"
      /\ Sound(c, own[t]) /\ holder = t
  BY DEF CallsInv, TypeOK, Enters, At, Locked
<1>2. c.fd \in Targets
  BY <1>1 DEF Sound, Formed
<1>3. /\ call' = [call EXCEPT ![t] = d]
      /\ holder' = IF c.fd = "gone" THEN None ELSE t
      /\ cwd' \in Dirs
  BY <1>1, <1>2 DEF Enters, Set, Goto, CallsInv, TypeOK, Targets
<1>4. /\ on \in Calls /\ on.at = "fork" /\ on.args = c.args /\ on.fd = c.fd
      /\ on.had = c.had /\ on.op = c.op /\ on.saved = c.saved
  BY <1>1 DEF Calls, Stages, Spawning
<1>5. Idle.at = "idle"
  BY DEF Idle
<1> HIDE DEF on, c
<1>6. c.fd # "gone" => Sound(on, own[t])
  BY <1>1, <1>2, <1>4 DEF Sound, Formed, Came, Spawning, Targets
<1>7. /\ d \in Calls /\ Sound(d, own[t])
      /\ d.at = IF c.fd = "gone" THEN "idle" ELSE "fork"
  BY <1>4, <1>5, <1>6, StartIsIdle
<1> HIDE DEF d
<1>8. /\ call' \in [Threads -> Calls] /\ own' \in [Threads -> Dirs \cup {None}]
      /\ \A u \in Threads : Sound(call'[u], own'[u])
  BY <1>3, <1>7, OneCall, SameDirectory DEF CallsInv, Enters
<1>9. Locked'
  <2>1. call'[t] = d /\ \A u \in Threads : u # t => call'[u] = call[u]
    BY <1>3 DEF CallsInv, TypeOK
  <2> QED
    BY <2>1, <1>1, <1>3, <1>7, Distinct DEF Locked, CallsInv, c
<1> QED
  BY <1>3, <1>8, <1>9 DEF CallsInv, TypeOK, Enters

LEMMA RealSpawnCalls ==
  ASSUME CallsInv, NEW t \in Threads, RealSpawn(t)
  PROVE  CallsInv'
<1> DEFINE c == call[t]
           result == [at |-> Where(t), want |-> Wanted(t, c.args[1])]
           d == [c EXCEPT !.at = IF c.at = "plain" THEN "back" ELSE "restore",
                          !.args = <<>>, !.done = <<result>>]
<1>1. /\ c \in Calls /\ own[t] \in Dirs \cup {None} /\ c.at \in {"plain", "fork"}
      /\ Sound(c, own[t])
  BY DEF CallsInv, TypeOK, RealSpawn, At
<1>2. call' = [call EXCEPT ![t] = d]
  BY DEF RealSpawn, CallsInv, TypeOK, At
<1>3. result \in [at : Places, want : Places]
  <2> HIDE DEF c
  <2>1. Len(c.args) = 1 /\ c.args \in Seq(Places)
    BY <1>1 DEF Sound, Formed, Calls
  <2>2. c.args[1] \in Places
    BY <2>1, ReadAt
  <2> USE DEF c
  <2> QED
    BY <1>1, <2>2 DEF Where, Wanted, Meant, Places, Args, Calls, CallsInv, TypeOK
<1> HIDE DEF result
<1>4. <<result>> \in Seq([at : Places, want : Places])
  BY <1>3, Argument
<1>5. /\ d \in Calls /\ d.at = (IF c.at = "plain" THEN "back" ELSE "restore")
      /\ d.fd = c.fd /\ d.had = c.had /\ d.op = c.op /\ d.saved = c.saved
  BY <1>1, <1>4, NoArgument, ZenonT(60) DEF Calls, Stages, Spawning
<1> HIDE DEF d, c
<1>6. Sound(d, own[t])
  BY <1>1, <1>5 DEF Sound, Formed, Came, Spawning, Relative
<1>7. /\ call' \in [Threads -> Calls] /\ own' \in [Threads -> Dirs \cup {None}]
      /\ \A u \in Threads : Sound(call'[u], own'[u])
  BY <1>2, <1>5, <1>6, OneCall, SameDirectory DEF CallsInv, RealSpawn
<1>8. Locked'
  BY <1>1, <1>2, <1>5, LockedStays, ZenonT(60) DEF CallsInv, TypeOK, spawns, RealSpawn, c
<1> QED
  BY <1>7, <1>8 DEF CallsInv, TypeOK, spawns, RealSpawn

LEMMA RestoreCalls ==
  ASSUME CallsInv, NEW t \in Threads, Restore(t)
  PROVE  CallsInv'
<1>1. /\ call[t] \in Calls /\ own[t] \in Dirs \cup {None}
      /\ call[t].at = "restore" /\ holder = t
  BY DEF CallsInv, TypeOK, Restore, At, Locked
<1>2. Idle.at = "idle" /\ Idle \in Calls /\ Sound(Idle, own[t])
  BY StartIsIdle DEF Idle
<1>3. call' = [call EXCEPT ![t] = Idle] /\ holder' = None /\ own' = own
  BY DEF Restore, Set
<1>4. /\ call' \in [Threads -> Calls] /\ own' \in [Threads -> Dirs \cup {None}]
      /\ \A u \in Threads : Sound(call'[u], own'[u])
  BY <1>2, <1>3, OneCall, SameDirectory DEF CallsInv
<1>5. Locked'
  <2>1. call'[t] = Idle /\ \A u \in Threads : u # t => call'[u] = call[u]
    BY <1>3 DEF CallsInv, TypeOK
  <2> QED
    BY <2>1, <1>1, <1>2, <1>3, Distinct DEF Locked, CallsInv
<1>6. cwd' \in Dirs
  BY <1>1 DEF Restore, CallsInv, Sound, Formed
<1> QED
  BY <1>3, <1>4, <1>5, <1>6 DEF CallsInv, TypeOK, Restore

LEMMA CallsInit == Init => CallsInv
<1> SUFFICES ASSUME Init PROVE CallsInv
  OBVIOUS
<1>1. call \in [Threads -> Calls] /\ \A t \in Threads : call[t] = Idle
  BY StartIsIdle DEF Init
<1>2. TypeOK
  BY <1>1, RowsAre DEF Init, TypeOK, Vacant, Absent
<1>3. Locked
  BY <1>1, Distinct DEF Init, Locked, Idle
<1> QED
  BY <1>1, <1>2, <1>3, StartIsIdle DEF CallsInv

LEMMA CallsStep == CallsInv /\ [Next]_vars => CallsInv'
<1> SUFFICES ASSUME CallsInv, [Next]_vars PROVE CallsInv'
  OBVIOUS
<1>1. CASE UNCHANGED vars
  BY <1>1 DEF CallsInv, TypeOK, Locked, vars
<1>2. CASE Next
  <2> SUFFICES ASSUME NEW t \in Threads,
                      \/ \E d \in Dirs : Chdir(t, d)
                      \/ \E d \in Dirs \cup {None} : PthreadFchdir(t, d)
                      \/ \E op \in {"other", "access"}, fd \in Args : AtCall(t, op, fd)
                      \/ \E d \in Dirs : FdOpenDir(t, d)
                      \/ \E old, new \in Args : AtCallOfTwo(t, old, new)
                      \/ FullPathAt(t) \/ Leave(t) \/ Enter(t) \/ Do(t) \/ Back(t)
                      \/ \E a \in Acts : \/ InitActions(t, a) \/ DestroyActions(t, a)
                                          \/ Spawn(t, a)
                      \/ \E a \in Acts, d \in Targets : AddChdir(t, a, d)
                      \/ Lock(t) \/ Enters(t) \/ RealSpawn(t) \/ Restore(t)
               PROVE  CallsInv'
    BY <1>2 DEF Next, Targets
  <2> QED
    BY ChdirCalls, PthreadFchdirCalls, AtCallCalls, FdOpenDirCalls, AtCallOfTwoCalls,
       FullPathAtCalls, LeaveCalls, EnterCalls, DoCalls, BackCalls, InitActionsCalls,
       DestroyActionsCalls, SpawnCalls, AddChdirCalls, LockCalls, EntersCalls,
       RealSpawnCalls, RestoreCalls
<1> QED
  BY <1>1, <1>2

\* Every variable keeps its type, in particular every thread's call its stage, and
\* a thread without a directory of its own the process's (atcalls.h,
\* posix_spawn_chdir.c).
THEOREM TypeCorrect == Spec => []TypeOK
<1>1. CallsInv => TypeOK
  BY DEF CallsInv
<1> QED
  BY <1>1, CallsInit, CallsStep, PTL DEF Spec

-----------------------------------------------------------------------------
(***************************************************************************)
(* The process's directory                                                 *)
(***************************************************************************)
\* The table holds what the actions ask, each once, as long as the program spawns
\* the actions it asks something of, once, and asks it once.
Recorded == \A i \in 1..CHDIR_TABLE_SIZE :
    table[i].acts # None => /\ acts[table[i].acts].dir = table[i].dir
                            /\ ~acts[table[i].acts].spent
OneRow == \A i, j \in 1..CHDIR_TABLE_SIZE :
    table[i].acts = table[j].acts /\ table[i].acts # None => i = j
TableInv == Recorded /\ OneRow

\* What a spawn that changes directory knows of the process's, and no other thread
\* undoes.
Spawner(c) ==
    /\ c.at \in Spawning => c.had = None
    /\ c.at \in {"chdir", "fork", "restore"} => c.saved = home
    /\ c.at = "chdir" => cwd = home
    /\ c.at = "fork" => cwd = c.fd
Spawners == \A t \in Threads : Spawner(call[t])

RestoredInv == CallsInv /\ TableInv /\ Spawners /\ DirectoryRestored

\* The steps of calls that are not spawns.
AtStep(t) ==
    \/ \E d \in Dirs \cup {None} : PthreadFchdir(t, d)
    \/ \E op \in {"other", "access"}, fd \in Args : AtCall(t, op, fd)
    \/ \E d \in Dirs : FdOpenDir(t, d)
    \/ \E old, new \in Args : AtCallOfTwo(t, old, new)
    \/ FullPathAt(t) \/ Leave(t) \/ Enter(t) \/ Do(t) \/ Back(t)

ActionsStep(t) ==
    \/ \E a \in Acts : InitActions(t, a) \/ DestroyActions(t, a)
    \/ \E a \in Acts, d \in Targets : AddChdir(t, a, d)

LEMMA StepIs ==
  ASSUME NEW P,
         \A t \in Threads : (\E d \in Dirs : Chdir(t, d)) => P,
         \A t \in Threads : AtStep(t) => P,
         \A t \in Threads : ActionsStep(t) => P,
         \A t \in Threads, a \in Acts : Spawn(t, a) => P,
         \A t \in Threads : Lock(t) \/ Enters(t) \/ RealSpawn(t) \/ Restore(t) => P,
         Next
  PROVE  P
  BY DEF Next, AtStep, ActionsStep, Targets

\* None of those that are not spawns touches what spawns work with.
LEMMA AtSteps ==
  ASSUME TypeOK, NEW t \in Threads, AtStep(t)
  PROVE  /\ UNCHANGED <<cwd, spawns>>
         /\ call'[t].at \notin Spawning \cup {"plain"}
         /\ call[t].at \notin Spawning \cup {"plain"}
         /\ \A u \in Threads : u # t => call'[u] = call[u] /\ own'[u] = own[u]
<1> USE DEF TypeOK, spawns, Spawning, At
<1>1. CASE \E d \in Dirs \cup {None} : PthreadFchdir(t, d)
  BY <1>1 DEF PthreadFchdir
<1>2. ASSUME NEW op, NEW args, NEW fd, Start(t, op, args, fd)
      PROVE  /\ call'[t].at \notin Spawning \cup {"plain"}
             /\ \A u \in Threads : u # t => call'[u] = call[u]
  BY <1>2 DEF Start, Idle
<1>3. CASE \E op \in {"other", "access"}, fd \in Args : AtCall(t, op, fd)
  BY <1>2, <1>3 DEF AtCall
<1>4. CASE \E d \in Dirs : FdOpenDir(t, d)
  BY <1>2, <1>4 DEF FdOpenDir
<1>5. CASE \E old, new \in Args : AtCallOfTwo(t, old, new)
  <2>1. PICK old \in Args, new \in Args : AtCallOfTwo(t, old, new)
    BY <1>5
  <2>2. CASE old = "abs" \/ new = "abs" \/ old = new
    BY <1>2, <2>1, <2>2 DEF AtCallOfTwo
  <2>3. CASE old # "abs" /\ new # "abs" /\ old # new
    BY <2>1, <2>3, ZenonT(60) DEF AtCallOfTwo, Set, Idle
  <2> QED
    BY <2>2, <2>3
<1>6. CASE FullPathAt(t)
  BY <1>6, SMTT(60) DEF FullPathAt, Set, Idle, Calls
<1>7. CASE Leave(t)
  BY <1>7 DEF Leave, Calls
<1>8. CASE Enter(t)
  BY <1>8 DEF Enter, Goto, Set, Idle, Calls
<1>9. CASE Do(t)
  BY <1>9 DEF Do, Calls
<1>10. CASE Back(t)
  BY <1>10 DEF Back, Set, Idle
<1> QED
  BY <1>1, <1>3, <1>4, <1>5, <1>6, <1>7, <1>8, <1>9, <1>10 DEF AtStep

\* A step on the actions or the table keeps what the table holds.
LEMMA RecordedNot ==
  ASSUME TypeOK, TableInv, NEW a \in Acts, acts[a].dir = None \/ acts[a].spent
  PROVE  \A i \in 1..CHDIR_TABLE_SIZE : table[i].acts # a
<1> SUFFICES ASSUME NEW i \in 1..CHDIR_TABLE_SIZE, table[i].acts = a PROVE FALSE
  OBVIOUS
<1>1. table[i] \in Rows /\ a # None
  BY Distinct DEF TypeOK
<1>2. table[i].dir # None
  BY <1>1, RowsAre, Distinct DEF Targets
<1> QED
  BY <1>1, <1>2 DEF TableInv, Recorded

LEMMA ActionsTable ==
  ASSUME TypeOK, TableInv, NEW t \in Threads, ActionsStep(t),
         "twice" \notin Uses, "reuse" \notin Uses
  PROVE  TableInv'
<1> USE DEF TypeOK, TableInv
<1>1. CASE \E a \in Acts : InitActions(t, a)
  <2>1. table' = table /\ \A b \in Acts : acts'[b].dir = acts[b].dir
                                         /\ acts'[b].spent = acts[b].spent
    BY <1>1 DEF InitActions
  <2>2. \A i \in 1..CHDIR_TABLE_SIZE : table[i].acts # None => table[i].acts \in Acts
    BY RowsAre
  <2> QED
    BY <2>1, <2>2 DEF Recorded, OneRow
<1>2. ASSUME NEW a \in Acts, DestroyActions(t, a) PROVE TableInv'
  <2>1. \A i \in 1..CHDIR_TABLE_SIZE : table[i].acts # a
    BY <1>2, RecordedNot DEF DestroyActions
  <2>2. table' = table /\ \A b \in Acts : b # a => acts'[b] = acts[b]
    BY <1>2 DEF DestroyActions
  <2>3. \A i \in 1..CHDIR_TABLE_SIZE : table[i].acts # None => table[i].acts \in Acts
    BY RowsAre
  <2> QED
    BY <2>1, <2>2, <2>3 DEF Recorded, OneRow
<1>3. ASSUME NEW a \in Acts, NEW d \in Targets, AddChdir(t, a, d) PROVE TableInv'
  <2>1. \A i \in 1..CHDIR_TABLE_SIZE : table[i].acts # a
    BY <1>3, RecordedNot DEF AddChdir
  <2>2. /\ acts'[a].dir = d /\ ~acts'[a].spent
        /\ \A b \in Acts : b # a => acts'[b] = acts[b]
    BY <1>3 DEF AddChdir
  <2>3. \A i \in 1..CHDIR_TABLE_SIZE : table[i].acts # None => table[i].acts \in Acts
    BY RowsAre
  <2>4. ChdirSet(a, d)
    BY <1>3 DEF AddChdir
  <2>5. CASE table' = table
    BY <2>1, <2>2, <2>3, <2>5 DEF Recorded, OneRow
  <2>6. CASE table' # table
    <3>1. PICK i \in 1..CHDIR_TABLE_SIZE : table' = [table EXCEPT ![i] = Entry(a, d)]
      BY <2>4, <2>6, SetIs
    <3>2. /\ table'[i].acts = a /\ table'[i].dir = d
          /\ \A j \in 1..CHDIR_TABLE_SIZE : j # i => table'[j] = table[j]
      BY <3>1, RowsAre
    <3> QED
      BY <2>1, <2>2, <2>3, <3>2 DEF Recorded, OneRow
  <2> QED
    BY <2>5, <2>6
<1> QED
  BY <1>1, <1>2, <1>3 DEF ActionsStep

LEMMA SpawnTable ==
  ASSUME TypeOK, TableInv, NEW t \in Threads, NEW a \in Acts, Spawn(t, a)
  PROVE  TableInv' /\ \A i \in 1..CHDIR_TABLE_SIZE : table'[i].acts # a
<1> USE DEF TypeOK, TableInv
<1>1. \A i \in 1..CHDIR_TABLE_SIZE : table[i].acts # None => table[i].acts \in Acts
  BY RowsAre
<1>2. \A b \in Acts : b # a => acts'[b] = acts[b]
  BY DEF Spawn
<1>3. ChdirGet(a) /\ a # None
  BY Distinct DEF Spawn
<1>4. CASE table' = table /\ \A i \in 1..CHDIR_TABLE_SIZE : table[i].acts # a
  BY <1>1, <1>2, <1>4 DEF Recorded, OneRow
<1>5. ASSUME NEW i \in 1..CHDIR_TABLE_SIZE, table[i].acts = a,
             table' = [table EXCEPT ![i] = Vacant]
      PROVE  TableInv' /\ \A j \in 1..CHDIR_TABLE_SIZE : table'[j].acts # a
  <2>1. /\ table'[i].acts = None
        /\ \A j \in 1..CHDIR_TABLE_SIZE : j # i => table'[j] = table[j]
    BY <1>5, RowsAre
  <2>2. \A j \in 1..CHDIR_TABLE_SIZE : j # i => table[j].acts # a
    BY <1>3, <1>5 DEF OneRow
  <2> QED
    BY <1>1, <1>2, <1>3, <2>1, <2>2 DEF Recorded, OneRow
<1> QED
  BY <1>3, <1>4, <1>5, GetIs

\* A step of one thread that leaves the directories alone.
LEMMA OneSpawner ==
  ASSUME Spawners, NEW t \in Threads, UNCHANGED <<cwd, home>>,
         \A u \in Threads : u # t => call'[u] = call[u],
         Spawner(call'[t])
  PROVE  Spawners'
<1> SUFFICES ASSUME NEW u \in Threads PROVE Spawner(call[u])'
  BY DEF Spawners
<1>1. CASE u = t
  BY <1>1 DEF Spawner
<1>2. CASE u # t
  BY <1>2 DEF Spawner, Spawners
<1> QED
  BY <1>1, <1>2

LEMMA ChdirRestored ==
  ASSUME RestoredInv, NEW t \in Threads, NEW d \in Dirs, Chdir(t, d),
         "window" \notin Uses
  PROVE  TableInv' /\ Spawners' /\ DirectoryRestored'
<1>1. holder = None /\ cwd' = d /\ home' = d /\ UNCHANGED <<call, table, acts, holder>>
  BY DEF Chdir, Steady
<1>2. \A u \in Threads : call[u].at \notin {"chdir", "fork", "restore"}
  BY <1>1, Distinct DEF RestoredInv, CallsInv, Locked
<1> QED
  BY <1>1, <1>2 DEF RestoredInv, TableInv, Recorded, OneRow, Spawners, Spawner,
                    DirectoryRestored

LEMMA SpawnRestored ==
  ASSUME RestoredInv, NEW t \in Threads, NEW a \in Acts, Spawn(t, a), "own" \notin Uses
  PROVE  Spawners' /\ DirectoryRestored'
<1>1. TypeOK /\ TableInv
  BY DEF RestoredInv, CallsInv
<1>2. /\ call'[t].at = (IF Found(a) = 0 THEN "plain" ELSE "lock")
      /\ call'[t].had = own[t]
      /\ \A u \in Threads : u # t => call'[u] = call[u]
      /\ UNCHANGED <<cwd, home, holder>>
  BY <1>1 DEF Spawn, Set, Idle, TypeOK
<1>3. ASSUME Found(a) # 0 PROVE own[t] = None
  <2>1. /\ Found(a) \in 1..CHDIR_TABLE_SIZE /\ table[Found(a)].acts = a
        /\ a # None
    BY <1>1, <1>3, FoundIs, Distinct
  <2>2. acts[a].dir # None
    <3>1. table[Found(a)].dir # None
      BY <1>1, <2>1, RowsAre, Distinct DEF TypeOK, Targets
    <3> QED
      BY <1>1, <2>1, <3>1 DEF TableInv, Recorded
  <2> QED
    BY <2>2 DEF Spawn
<1>4. Spawner(call'[t])
  BY <1>2, <1>3 DEF Spawner, Spawning
<1> QED
  BY <1>2, <1>4, OneSpawner DEF RestoredInv, DirectoryRestored

LEMMA LockRestored ==
  ASSUME RestoredInv, NEW t \in Threads, Lock(t)
  PROVE  Spawners' /\ DirectoryRestored'
<1>1. /\ call[t] \in Calls /\ call[t].at = "lock" /\ own[t] = None /\ holder = None
      /\ cwd = home
  BY DEF RestoredInv, CallsInv, TypeOK, Sound, Came, Spawners, Spawner, Spawning,
         Lock, At, DirectoryRestored
<1>2. Where(t) = home
  BY <1>1 DEF Where
<1>3. /\ UNCHANGED <<cwd, home>>
      /\ \A u \in Threads : u # t => call'[u] = call[u]
      /\ \/ call'[t] = Idle
         \/ /\ call'[t].at = "chdir" /\ call'[t].saved = Where(t)
            /\ call'[t].had = call[t].had
  BY <1>1 DEF RestoredInv, CallsInv, TypeOK, Lock, Set, Calls
<1>4. Spawner(call'[t])
  BY <1>1, <1>2, <1>3 DEF Spawner, Spawning, Idle, RestoredInv, Spawners
<1> QED
  BY <1>1, <1>3, <1>4, OneSpawner DEF RestoredInv, DirectoryRestored

LEMMA EntersRestored ==
  ASSUME RestoredInv, NEW t \in Threads, Enters(t)
  PROVE  Spawners' /\ DirectoryRestored'
<1>1. /\ call[t] \in Calls /\ call[t].at = "chdir" /\ holder = t
      /\ cwd = home /\ Spawner(call[t]) /\ home' = home
      /\ \A u \in Threads : u # t => call[u].at \notin {"chdir", "fork", "restore"}
  BY DEF RestoredInv, CallsInv, TypeOK, Spawners, Spawner, Enters, At, Locked
<1>2. \A u \in Threads : u # t => call'[u] = call[u]
  BY DEF RestoredInv, CallsInv, TypeOK, Enters, Set, Goto
<1>3. CASE call[t].fd = "gone"
  <2>1. call'[t] = Idle /\ cwd' = cwd
    BY <1>3 DEF RestoredInv, CallsInv, TypeOK, Enters, Set
  <2>2. Spawner(call'[t])
    BY <2>1 DEF Spawner, Spawning, Idle
  <2> QED
    BY <1>1, <1>2, <2>1, <2>2, OneSpawner DEF RestoredInv, DirectoryRestored
<1>4. CASE call[t].fd # "gone"
  <2>1. /\ call'[t].at = "fork" /\ call'[t].had = call[t].had
        /\ call'[t].saved = call[t].saved /\ call'[t].fd = call[t].fd
        /\ cwd' = call[t].fd /\ holder' = t
    BY <1>1, <1>4 DEF RestoredInv, CallsInv, TypeOK, Enters, Goto, Calls
  <2>2. Spawners'
    BY <1>1, <1>2, <2>1 DEF RestoredInv, Spawners, Spawner, Spawning
  <2> QED
    BY <2>1, <2>2, Distinct DEF DirectoryRestored
<1> QED
  BY <1>3, <1>4

LEMMA RealSpawnRestored ==
  ASSUME RestoredInv, NEW t \in Threads, RealSpawn(t)
  PROVE  Spawners' /\ DirectoryRestored'
<1>1. /\ call[t] \in Calls /\ call[t].at \in {"plain", "fork"} /\ Spawner(call[t])
      /\ UNCHANGED <<cwd, home, holder>>
  BY DEF RestoredInv, CallsInv, TypeOK, Spawners, RealSpawn, spawns
<1>2. /\ \A u \in Threads : u # t => call'[u] = call[u]
      /\ call'[t].at = IF call[t].at = "plain" THEN "back" ELSE "restore"
      /\ call'[t].had = call[t].had /\ call'[t].saved = call[t].saved
  BY <1>1 DEF RestoredInv, CallsInv, TypeOK, RealSpawn, At, Calls
<1>3. Spawner(call'[t])
  BY <1>1, <1>2 DEF Spawner, Spawning
<1> QED
  BY <1>1, <1>2, <1>3, OneSpawner DEF RestoredInv, DirectoryRestored

LEMMA RestoreRestored ==
  ASSUME RestoredInv, NEW t \in Threads, Restore(t)
  PROVE  Spawners' /\ DirectoryRestored'
<1>1. /\ call[t].at = "restore" /\ call[t].saved = home /\ home' = home /\ cwd' = home
      /\ \A u \in Threads : u # t => call[u].at \notin {"chdir", "fork", "restore"}
  BY DEF RestoredInv, CallsInv, TypeOK, Spawners, Spawner, Restore, At, Locked
<1>2. call'[t] = Idle /\ \A u \in Threads : u # t => call'[u] = call[u]
  BY DEF RestoredInv, CallsInv, TypeOK, Restore, Set
<1> QED
  BY <1>1, <1>2 DEF RestoredInv, Spawners, Spawner, Spawning, Idle, DirectoryRestored

LEMMA RestoredStep ==
  ASSUME Uses \subseteq {"emfile", "ids", "again", "full"}
  PROVE  RestoredInv /\ [Next]_vars => RestoredInv'
<1> SUFFICES ASSUME RestoredInv, [Next]_vars
             PROVE  TableInv' /\ Spawners' /\ DirectoryRestored'
  BY CallsStep DEF RestoredInv
<1>1. /\ "window" \notin Uses /\ "own" \notin Uses
      /\ "twice" \notin Uses /\ "reuse" \notin Uses
  OBVIOUS
<1>2. TypeOK /\ TableInv /\ Spawners /\ DirectoryRestored
  BY DEF RestoredInv, CallsInv
<1>3. CASE UNCHANGED vars
  BY <1>2, <1>3 DEF TableInv, Recorded, OneRow, Spawners, Spawner, DirectoryRestored,
                    vars
<1>4. ASSUME UNCHANGED <<table, acts>> PROVE TableInv'
  BY <1>2, <1>4 DEF TableInv, Recorded, OneRow
<1>5. ASSUME NEW t \in Threads, NEW d \in Dirs, Chdir(t, d)
      PROVE  TableInv' /\ Spawners' /\ DirectoryRestored'
  BY <1>1, <1>5, ChdirRestored
<1>6. ASSUME NEW t \in Threads, AtStep(t)
      PROVE  TableInv' /\ Spawners' /\ DirectoryRestored'
  <2>1. /\ UNCHANGED <<cwd, home, holder, table, acts>>
        /\ call'[t].at \notin Spawning
        /\ \A u \in Threads : u # t => call'[u] = call[u]
    BY <1>2, <1>6, AtSteps DEF spawns
  <2>2. Spawner(call'[t])
    BY <2>1 DEF Spawner, Spawning
  <2> QED
    BY <1>2, <1>4, <2>1, <2>2, OneSpawner DEF DirectoryRestored
<1>7. ASSUME NEW t \in Threads, ActionsStep(t)
      PROVE  TableInv' /\ Spawners' /\ DirectoryRestored'
  <2>1. UNCHANGED <<cwd, home, holder, call>>
    BY <1>7 DEF ActionsStep, InitActions, DestroyActions, AddChdir
  <2> QED
    BY <1>1, <1>2, <1>7, <2>1, ActionsTable DEF Spawners, Spawner, DirectoryRestored
<1>8. ASSUME NEW t \in Threads, NEW a \in Acts, Spawn(t, a)
      PROVE  TableInv' /\ Spawners' /\ DirectoryRestored'
  BY <1>1, <1>2, <1>8, SpawnTable, SpawnRestored
<1>9. ASSUME NEW t \in Threads, Lock(t) \/ Enters(t) \/ RealSpawn(t) \/ Restore(t)
      PROVE  TableInv' /\ Spawners' /\ DirectoryRestored'
  <2>1. UNCHANGED <<table, acts>>
    BY <1>9 DEF Lock, Enters, RealSpawn, Restore, spawns
  <2> QED
    BY <1>4, <1>9, <2>1, LockRestored, EntersRestored, RealSpawnRestored,
       RestoreRestored
<1> QED
  BY <1>3, <1>5, <1>6, <1>7, <1>8, <1>9, StepIs

LEMMA RestoredInit == Init => RestoredInv
<1> SUFFICES ASSUME Init PROVE RestoredInv
  OBVIOUS
<1>1. TableInv
  BY DEF Init, TableInv, Recorded, OneRow, Entry
<1>2. Spawners
  BY DEF Init, Spawners, Spawner, Spawning, Idle
<1> QED
  BY <1>1, <1>2, CallsInit DEF Init, RestoredInv, DirectoryRestored

\* Out of the spawns, the process's directory is the program's (spawn_common), for
\* programs that leave relative paths and chdir alone while a spawn has changed it,
\* have no directory of the thread's own for such a spawn, and give spawn actions
\* one change of directory and spawn them before they destroy them.
THEOREM ProcessDirectoryRestored ==
  ASSUME Uses \subseteq {"emfile", "ids", "again", "full"}
  PROVE  Spec => []DirectoryRestored
<1>1. RestoredInv => DirectoryRestored
  BY DEF RestoredInv
<1> QED
  BY <1>1, RestoredInit, RestoredStep, PTL DEF Spec

-----------------------------------------------------------------------------
(***************************************************************************)
(* Where paths are followed from                                           *)
(***************************************************************************)
\* What actions ask is in the table until they are spawned.
Listed == \A a \in Pending : \E i \in 1..CHDIR_TABLE_SIZE : table[i].acts = a

\* A spawn has the directory its actions ask, if they ask one.
Asker(c) ==
    /\ c.at = "plain" => c.args[1] = "fdcwd"
    /\ c.at \in {"lock", "chdir", "fork"} => c.args[1] = c.fd
Askers == \A t \in Threads : Asker(call[t])

Right(c) == \A i \in DOMAIN c.done : c.done[i].at = c.done[i].want

AskedInv == RestoredInv /\ Listed /\ Askers /\ WhereAsked

\* With less pending than the table holds, an entry is vacant.
LEMMA Room ==
  ASSUME TypeOK, TableInv, Listed, Cardinality(Pending) < CHDIR_TABLE_SIZE
  PROVE  \E i \in 1..CHDIR_TABLE_SIZE : table[i].acts = None
<1> SUFFICES ASSUME \A i \in 1..CHDIR_TABLE_SIZE : table[i].acts # None PROVE FALSE
  OBVIOUS
<1> DEFINE S == 1..CHDIR_TABLE_SIZE
           f == [i \in S |-> table[i].acts]
<1>1. \A i \in S : f[i] \in Pending
  <2> SUFFICES ASSUME NEW i \in S PROVE f[i] \in Pending
    OBVIOUS
  <2>1. table[i] \in Rows /\ table[i].acts # None
    BY DEF TypeOK
  <2>2. table[i].acts \in Acts /\ table[i].dir # None
    BY <2>1, RowsAre, Distinct DEF Targets
  <2> QED
    BY <2>2 DEF TableInv, Recorded, Pending
<1>2. \A i, j \in S : f[i] = f[j] => i = j
  BY DEF TableInv, OneRow
<1>3. \A a \in Pending : \E i \in S : f[i] = a
  BY DEF Listed
<1>4. f \in [S -> Pending]
  BY <1>1
<1> HIDE DEF f
<1>5. f \in Surjection(S, Pending) /\ f \in Injection(S, Pending)
  BY <1>2, <1>3, <1>4 DEF Surjection, Injection, IsInjective
<1>6. IsFiniteSet(S) /\ Cardinality(S) = CHDIR_TABLE_SIZE
  BY Distinct, Counted
<1> HIDE DEF S
<1>7. Cardinality(Pending) = Cardinality(S)
  BY <1>5, <1>6, FS_Surjection
<1> QED
  BY <1>6, <1>7, Distinct

LEMMA ActionsListed ==
  ASSUME TypeOK, TableInv, Listed, NEW t \in Threads, ActionsStep(t),
         Uses \subseteq {"emfile", "ids"}
  PROVE  Listed'
<1>1. CASE \E a \in Acts : InitActions(t, a)
  BY <1>1 DEF InitActions, TypeOK, Listed, Pending
<1>2. CASE \E a \in Acts : DestroyActions(t, a)
  BY <1>2 DEF DestroyActions, TypeOK, Listed, Pending, Absent
<1>3. ASSUME NEW a \in Acts, NEW d \in Targets, AddChdir(t, a, d) PROVE Listed'
  <2>1. PICK i \in 1..CHDIR_TABLE_SIZE :
           table[i].acts \in {None, a} /\ table' = [table EXCEPT ![i] = Entry(a, d)]
    <3>1. "full" \notin Uses
      OBVIOUS
    <3>2. ChdirSet(a, d) /\ Cardinality(Pending) < CHDIR_TABLE_SIZE
      BY <1>3, <3>1 DEF AddChdir
    <3> QED
      BY <3>2, Room, SetIs
  <2>2. /\ table'[i].acts = a
        /\ \A j \in 1..CHDIR_TABLE_SIZE : j # i => table'[j] = table[j]
    BY <2>1, RowsAre DEF TypeOK
  <2>3. \A b \in Acts : b # a => acts'[b] = acts[b]
    BY <1>3 DEF AddChdir, TypeOK
  <2> SUFFICES ASSUME NEW b \in Pending'
               PROVE  \E j \in 1..CHDIR_TABLE_SIZE : table'[j].acts = b
    BY DEF Listed
  <2>4. CASE b = a
    BY <2>2, <2>4
  <2>5. CASE b # a
    <3>1. b \in Pending /\ b # None
      BY <2>3, <2>5, Distinct DEF Pending
    <3>2. PICK j \in 1..CHDIR_TABLE_SIZE : table[j].acts = b
      BY <3>1 DEF Listed
    <3> QED
      BY <2>1, <2>2, <2>5, <3>1, <3>2
  <2> QED
    BY <2>4, <2>5
<1> QED
  BY <1>1, <1>2, <1>3 DEF ActionsStep

LEMMA SpawnAsked ==
  ASSUME AskedInv, NEW t \in Threads, NEW a \in Acts, Spawn(t, a), "again" \notin Uses
  PROVE  Listed' /\ Asker(call'[t]) /\ Right(call'[t])
<1>1. TypeOK /\ TableInv /\ Listed
  BY DEF AskedInv, RestoredInv, CallsInv
<1>2. Listed'
  <2>1. /\ acts'[a].spent = (acts[a].dir # None) /\ acts'[a].dir = acts[a].dir
        /\ \A b \in Acts : b # a => acts'[b] = acts[b]
    BY <1>1 DEF Spawn, TypeOK
  <2>2. \/ table' = table
        \/ \E i \in 1..CHDIR_TABLE_SIZE :
              /\ table[i].acts = a
              /\ \A j \in 1..CHDIR_TABLE_SIZE : j # i => table'[j] = table[j]
    <3>1. ChdirGet(a)
      BY DEF Spawn
    <3>2. CASE \E i \in 1..CHDIR_TABLE_SIZE :
                  /\ i = Found(a) /\ table[i].acts = a
                  /\ table' = [table EXCEPT ![i] = Vacant]
      <4>1. PICK i \in 1..CHDIR_TABLE_SIZE :
               table[i].acts = a /\ table' = [table EXCEPT ![i] = Vacant]
        BY <3>2
      <4>2. \A j \in 1..CHDIR_TABLE_SIZE : j # i => table'[j] = table[j]
        BY <1>1, <4>1 DEF TypeOK
      <4> QED
        BY <4>1, <4>2
    <3> QED
      BY <1>1, <3>1, <3>2, GetIs
  <2> SUFFICES ASSUME NEW b \in Pending'
               PROVE  \E j \in 1..CHDIR_TABLE_SIZE : table'[j].acts = b
    BY DEF Listed
  <2>3. b # a /\ b \in Pending
    BY <2>1 DEF Pending
  <2>4. PICK j \in 1..CHDIR_TABLE_SIZE : table[j].acts = b
    BY <1>1, <2>3 DEF Listed
  <2> QED
    BY <2>2, <2>3, <2>4
<1> DEFINE arg == IF acts[a].dir = None THEN "fdcwd" ELSE acts[a].dir
<1>3. /\ call'[t].at = (IF Found(a) = 0 THEN "plain" ELSE "lock")
      /\ call'[t].fd = (IF Found(a) = 0 THEN "fdcwd" ELSE table[Found(a)].dir)
      /\ call'[t].args = <<arg>>
      /\ call'[t].done = <<>>
  BY <1>1 DEF Spawn, Set, Idle, TypeOK
<1>4. call'[t].args[1] = arg
  <2> HIDE DEF arg
  <2> QED
    BY <1>3, Argument
<1>5. Asker(call'[t])
  <2>1. CASE Found(a) = 0
    <3>1. a \notin Pending
      BY <1>1, <2>1, FoundIs DEF Listed
    <3>2. ~acts[a].spent
      BY DEF Spawn
    <3>3. acts[a].dir = None
      BY <3>1, <3>2 DEF Pending
    <3> QED
      BY <1>3, <1>4, <2>1, <3>3 DEF Asker
  <2>2. CASE Found(a) # 0
    <3>1. /\ Found(a) \in 1..CHDIR_TABLE_SIZE /\ table[Found(a)].acts = a /\ a # None
          /\ table[Found(a)] \in Rows
      BY <1>1, <2>2, FoundIs, Distinct DEF TypeOK
    <3>2. table[Found(a)].dir # None
      BY <3>1, RowsAre, Distinct DEF Targets
    <3>3. acts[a].dir = table[Found(a)].dir
      BY <1>1, <3>1 DEF TableInv, Recorded
    <3> QED
      BY <1>3, <1>4, <2>2, <3>2, <3>3 DEF Asker
  <2> QED
    BY <2>1, <2>2
<1>6. Right(call'[t])
  BY <1>3, NoArgument DEF Right
<1> QED
  BY <1>2, <1>5, <1>6

\* A thread's path starts where its caller means, while no spawn has changed the
\* process's directory.
LEMMA AsMeant ==
  ASSUME DirectoryRestored, holder = None, NEW t \in Threads, own[t] = call[t].had
  PROVE  Where(t) = Meant(t)
  BY DEF Where, Meant, DirectoryRestored

LEMMA FullPathRight ==
  ASSUME AskedInv, NEW t \in Threads, FullPathAt(t), "window" \notin Uses
  PROVE  Right(call'[t])
<1> DEFINE c == call[t]
           n == Len(c.done) + 1
           from == IF c.args[n] = "fdcwd" THEN Where(t) ELSE c.args[n]
           result == [at |-> from, want |-> Wanted(t, c.args[n])]
<1>1. /\ c \in Calls /\ c.at = "path" /\ own[t] = c.had /\ Right(c)
      /\ call \in [Threads -> Calls]
  BY DEF AskedInv, RestoredInv, CallsInv, TypeOK, Sound, Came, FullPathAt, At,
         WhereAsked, Right
<1>2. result.at = result.want
  <2>1. CASE c.args[n] = "fdcwd"
    <3>1. holder = None
      BY <2>1 DEF FullPathAt, Steady
    <3> QED
      BY <1>1, <2>1, <3>1, AsMeant DEF Wanted, AskedInv, RestoredInv
  <2>2. CASE c.args[n] # "fdcwd"
    BY <2>2 DEF Wanted
  <2> QED
    BY <2>1, <2>2
<1>3. call'[t] = Idle \/ call'[t].done = Append(c.done, result)
  BY <1>1, SMTT(60) DEF FullPathAt, Set, Calls
<1> HIDE DEF result
<1>4. CASE call'[t] = Idle
  BY <1>4, NoArgument DEF Idle, Right
<1>5. CASE call'[t].done = Append(c.done, result)
  <2>1. c.done \in Seq([at : Places, want : Places])
    BY <1>1 DEF Calls
  <2> QED
    BY <1>1, <1>2, <1>5, <2>1, Added DEF Right
<1> QED
  BY <1>3, <1>4, <1>5

LEMMA DoRight ==
  ASSUME AskedInv, NEW t \in Threads, Do(t), "window" \notin Uses
  PROVE  Right(call'[t])
<1> DEFINE c == call[t]
<1>1. /\ c \in Calls /\ c.at = "do" /\ call \in [Threads -> Calls]
      /\ own[t] = IF Relative(c.fd) THEN c.fd ELSE c.had
      /\ \A i \in DOMAIN c.args : c.args[i] \in {"abs", c.fd}
      /\ c.fd \in Dirs \cup {"fdcwd", "abs"}
  BY DEF AskedInv, RestoredInv, CallsInv, TypeOK, Sound, Formed, Came, Do, At
<1>2. \A i \in DOMAIN c.args : c.args[i] = "fdcwd" => Where(t) = Meant(t)
  <2> SUFFICES ASSUME NEW i \in DOMAIN c.args, c.args[i] = "fdcwd"
               PROVE  Where(t) = Meant(t)
    OBVIOUS
  <2>1. c.fd = "fdcwd" /\ own[t] = c.had
    BY <1>1 DEF Relative
  <2>2. "fdcwd" \in Range(c.args)
    BY DEF Range
  <2>3. holder = None
    BY <2>2 DEF Do, Steady
  <2> QED
    BY <2>1, <2>3, AsMeant DEF AskedInv, RestoredInv
<1>3. ASSUME NEW i \in DOMAIN c.args
      PROVE  (IF c.args[i] = "abs" THEN "abs" ELSE Where(t)) = Wanted(t, c.args[i])
  <2>1. CASE c.args[i] \in {"abs", "fdcwd"}
    BY <1>2, <2>1 DEF Wanted
  <2>2. CASE c.args[i] \notin {"abs", "fdcwd"}
    <3>1. c.args[i] = c.fd /\ c.fd \in Dirs
      BY <1>1, <2>2
    <3>2. own[t] = c.fd /\ c.fd # None
      BY <1>1, <3>1, <2>2, Distinct DEF Relative
    <3> QED
      BY <2>2, <3>1, <3>2 DEF Where, Wanted
  <2> QED
    BY <2>1, <2>2
<1>4. call'[t].done = [i \in DOMAIN c.args |->
               [at |-> IF c.args[i] = "abs" THEN "abs" ELSE Where(t),
                want |-> Wanted(t, c.args[i])]]
  BY <1>1 DEF Do, Calls
<1> QED
  BY <1>3, <1>4 DEF Right

LEMMA AtRight ==
  ASSUME AskedInv, NEW t \in Threads, AtStep(t), "window" \notin Uses
  PROVE  Right(call'[t])
<1>1. call \in [Threads -> Calls] /\ call[t] \in Calls /\ Right(call[t])
  BY DEF AskedInv, RestoredInv, CallsInv, TypeOK, WhereAsked, Right
<1>2. Right(Idle)
  BY NoArgument DEF Right, Idle
<1>3. ASSUME NEW op, NEW args, NEW fd, Start(t, op, args, fd) PROVE Right(call'[t])
  <2>1. call'[t].done = <<>>
    BY <1>1, <1>3 DEF Start, Idle
  <2> QED
    BY <2>1, NoArgument DEF Right
<1>4. CASE \E d \in Dirs \cup {None} : PthreadFchdir(t, d)
  BY <1>1, <1>4 DEF PthreadFchdir
<1>5. CASE \E op \in {"other", "access"}, fd \in Args : AtCall(t, op, fd)
  BY <1>3, <1>5 DEF AtCall
<1>6. CASE \E d \in Dirs : FdOpenDir(t, d)
  BY <1>3, <1>6 DEF FdOpenDir
<1>7. CASE \E old, new \in Args : AtCallOfTwo(t, old, new)
  <2>1. PICK old \in Args, new \in Args : AtCallOfTwo(t, old, new)
    BY <1>7
  <2>2. CASE old = "abs" \/ new = "abs" \/ old = new
    BY <1>3, <2>1, <2>2 DEF AtCallOfTwo
  <2>3. CASE old # "abs" /\ new # "abs" /\ old # new
    <3>1. call'[t].done = <<>>
      BY <1>1, <2>1, <2>3 DEF AtCallOfTwo, Set, Idle
    <3> QED
      BY <3>1, NoArgument DEF Right
  <2> QED
    BY <2>2, <2>3
<1>8. CASE FullPathAt(t)
  BY <1>8, FullPathRight
<1>9. CASE Leave(t)
  <2>1. call'[t].done = call[t].done
    BY <1>1, <1>9 DEF Leave, Calls
  <2> QED
    BY <1>1, <2>1 DEF Right
<1>10. CASE Enter(t)
  <2>1. call'[t] = Idle \/ call'[t].done = call[t].done
    BY <1>1, <1>10 DEF Enter, Set, Goto, Calls
  <2> QED
    BY <1>1, <1>2, <2>1 DEF Right
<1>11. CASE Do(t)
  BY <1>11, DoRight
<1>12. CASE Back(t)
  BY <1>1, <1>2, <1>12 DEF Back, Set
<1> QED
  BY <1>4, <1>5, <1>6, <1>7, <1>8, <1>9, <1>10, <1>11, <1>12 DEF AtStep

LEMMA RealSpawnRight ==
  ASSUME AskedInv, NEW t \in Threads, RealSpawn(t), "window" \notin Uses
  PROVE  Asker(call'[t]) /\ Right(call'[t])
<1> DEFINE c == call[t]
           result == [at |-> Where(t), want |-> Wanted(t, c.args[1])]
<1>1. /\ c \in Calls /\ call \in [Threads -> Calls] /\ c.at \in {"plain", "fork"}
      /\ own[t] = c.had /\ Asker(c) /\ Spawner(c)
      /\ c.at = "fork" => c.fd \in Dirs
  BY DEF AskedInv, Askers, RestoredInv, Spawners, CallsInv, TypeOK, Sound, Formed, Came,
         Spawning, RealSpawn
<1>2. result.at = result.want
  <2>1. CASE c.at = "plain"
    <3>1. holder = None
      BY <2>1 DEF RealSpawn, At, Steady
    <3> QED
      BY <1>1, <2>1, <3>1, AsMeant DEF Wanted, Asker, AskedInv, RestoredInv
  <2>2. CASE c.at = "fork"
    <3>1. own[t] = None /\ cwd = c.fd /\ c.args[1] = c.fd /\ c.fd # "fdcwd"
      BY <1>1, <2>2, Distinct DEF Spawner, Spawning, Asker
    <3> QED
      BY <3>1 DEF Where, Wanted
  <2> QED
    BY <1>1, <2>1, <2>2
<1>3. call'[t].at \in {"back", "restore"} /\ call'[t].done = <<result>>
  BY <1>1 DEF RealSpawn, At, Calls
<1> HIDE DEF result
<1>4. Right(call'[t])
  BY <1>2, <1>3, Argument DEF Right
<1> QED
  BY <1>3, <1>4 DEF Asker

LEMMA SpawningRight ==
  ASSUME AskedInv, NEW t \in Threads, Lock(t) \/ Enters(t) \/ Restore(t)
  PROVE  Asker(call'[t]) /\ Right(call'[t])
<1>1. /\ call \in [Threads -> Calls] /\ call[t] \in Calls
      /\ Right(call[t]) /\ Asker(call[t])
  BY DEF AskedInv, RestoredInv, CallsInv, TypeOK, WhereAsked, Right, Askers
<1>2. Right(Idle) /\ Asker(Idle)
  BY NoArgument DEF Right, Asker, Idle
<1>3. \/ call'[t] = Idle
      \/ /\ call[t].at \in {"lock", "chdir"} /\ call'[t].at \in {"chdir", "fork"}
         /\ call'[t].args = call[t].args /\ call'[t].fd = call[t].fd
         /\ call'[t].done = call[t].done
  BY <1>1 DEF Lock, Enters, Restore, Set, Goto, At, Calls
<1> QED
  BY <1>1, <1>2, <1>3 DEF Right, Asker

LEMMA AskedStep ==
  ASSUME Uses \subseteq {"emfile", "ids"}
  PROVE  AskedInv /\ [Next]_vars => AskedInv'
<1> SUFFICES ASSUME AskedInv, [Next]_vars
             PROVE  Listed' /\ Askers' /\ WhereAsked'
  BY RestoredStep DEF AskedInv
<1>1. "window" \notin Uses /\ "again" \notin Uses
  OBVIOUS
<1>2. TypeOK /\ TableInv /\ Listed /\ Askers /\ WhereAsked
  BY DEF AskedInv, RestoredInv, CallsInv
<1>3. ASSUME UNCHANGED <<table, acts>> PROVE Listed'
  BY <1>2, <1>3 DEF Listed, Pending
<1>4. ASSUME UNCHANGED call PROVE Askers' /\ WhereAsked'
  BY <1>2, <1>4 DEF Askers, Asker, WhereAsked
<1>5. ASSUME NEW t \in Threads, \A u \in Threads : u # t => call'[u] = call[u],
             Asker(call'[t]), Right(call'[t])
      PROVE  Askers' /\ WhereAsked'
  <2>1. \A u \in Threads : Asker(call'[u]) /\ Right(call'[u])
    BY <1>2, <1>5 DEF Askers, WhereAsked, Right
  <2> QED
    BY <2>1 DEF Askers, Asker, WhereAsked, Right
<1>6. CASE UNCHANGED vars
  BY <1>3, <1>4, <1>6 DEF vars
<1>7. ASSUME NEW t \in Threads, NEW d \in Dirs, Chdir(t, d)
      PROVE  Listed' /\ Askers' /\ WhereAsked'
  BY <1>3, <1>4, <1>7 DEF Chdir
<1>8. ASSUME NEW t \in Threads, AtStep(t)
      PROVE  Listed' /\ Askers' /\ WhereAsked'
  <2>1. /\ UNCHANGED <<table, acts>>
        /\ call'[t].at \notin Spawning \cup {"plain"}
        /\ \A u \in Threads : u # t => call'[u] = call[u]
    BY <1>2, <1>8, AtSteps DEF spawns
  <2>2. Asker(call'[t]) /\ Right(call'[t])
    BY <1>1, <1>8, <2>1, AtRight DEF Asker, Spawning
  <2> QED
    BY <1>3, <1>5, <2>1, <2>2
<1>9. ASSUME NEW t \in Threads, ActionsStep(t)
      PROVE  Listed' /\ Askers' /\ WhereAsked'
  <2>1. UNCHANGED call
    BY <1>9 DEF ActionsStep, InitActions, DestroyActions, AddChdir
  <2> QED
    BY <1>2, <1>4, <1>9, <2>1, ActionsListed
<1>10. ASSUME NEW t \in Threads, NEW a \in Acts, Spawn(t, a)
       PROVE  Listed' /\ Askers' /\ WhereAsked'
  <2>1. \A u \in Threads : u # t => call'[u] = call[u]
    BY <1>2, <1>10 DEF Spawn, Set, TypeOK
  <2> QED
    BY <1>1, <1>5, <1>10, <2>1, SpawnAsked
<1>11. ASSUME NEW t \in Threads, Lock(t) \/ Enters(t) \/ RealSpawn(t) \/ Restore(t)
       PROVE  Listed' /\ Askers' /\ WhereAsked'
  <2>1. UNCHANGED <<table, acts>> /\ \A u \in Threads : u # t => call'[u] = call[u]
    BY <1>2, <1>11 DEF Lock, Enters, RealSpawn, Restore, Set, Goto, TypeOK, spawns
  <2> QED
    BY <1>1, <1>3, <1>5, <1>11, <2>1, SpawningRight, RealSpawnRight
<1> QED
  BY <1>6, <1>7, <1>8, <1>9, <1>10, <1>11, StepIs

LEMMA AskedInit == Init => AskedInv
<1> SUFFICES ASSUME Init PROVE AskedInv
  OBVIOUS
<1>1. Listed
  BY DEF Init, Listed, Pending, Absent
<1>2. \A t \in Threads : call[t] = Idle
  BY DEF Init
<1>3. Askers /\ WhereAsked
  BY <1>2, NoArgument DEF Askers, Asker, WhereAsked, Idle
<1> QED
  BY <1>1, <1>3, RestoredInit DEF AskedInv

\* Every path is followed from the directory its caller named, and every child
\* starts where its actions ask (ATCALL, _fullpathat, spawn_common), whatever the
\* other threads are at and however short of descriptors the process is, as long as
\* the program keeps to what the restored directory asks, spawns actions once and
\* has no more pending than the table holds.
THEOREM PathsFollowedWhereAsked ==
  ASSUME Uses \subseteq {"emfile", "ids"}
  PROVE  Spec => []WhereAsked
<1>1. AskedInv => WhereAsked
  BY DEF AskedInv
<1> QED
  BY <1>1, AskedInit, AskedStep, PTL DEF Spec

-----------------------------------------------------------------------------
(***************************************************************************)
(* What a call leaves behind                                               *)
(***************************************************************************)
\* The directory a call comes back to is the one it came in.
Kept(c) ==
    c.at = "enter" \/ (c.at \in {"do", "back"} /\ Relative(c.fd)) => c.saved = c.had

\* The ids are exchanged while faccessat is under way, of a descriptor that is good.
Exchanged(c) == c.op = "access" => swapped /\ c.fd # "bad"
OneExchange == \A t, u \in Threads :
    call[t].op = "access" /\ call[u].op = "access" => t = u

Returning(c) == Kept(c) /\ Exchanged(c)
ReturnInv == CallsInv /\ OneExchange /\ \A t \in Threads : Returning(call[t])

\* A step of a thread that exchanges no ids, and is not in faccessat unless it was.
LEMMA OneReturning ==
  ASSUME ReturnInv, NEW t \in Threads, swapped' = swapped,
         \A u \in Threads : u # t => call'[u] = call[u],
         Kept(call'[t]),
         call'[t].op = "access" => call[t].op = "access" /\ call'[t].fd = call[t].fd
  PROVE  OneExchange' /\ \A u \in Threads : Returning(call[u])'
<1>1. OneExchange'
  <2>1. ASSUME NEW u \in Threads, call'[u].op = "access" PROVE call[u].op = "access"
    BY <2>1
  <2> QED
    BY <2>1 DEF ReturnInv, OneExchange
<1>2. \A u \in Threads : Kept(call'[u]) /\ Exchanged(call[u])'
  BY DEF ReturnInv, Returning, Exchanged
<1> QED
  BY <1>1, <1>2 DEF Returning, Kept

LEMMA IdleReturning == Kept(Idle) /\ Idle.op = "other" /\ Idle.at = "idle"
  BY DEF Kept, Idle

LEMMA StartIs ==
  ASSUME TypeOK, NEW t \in Threads, NEW op, NEW args, NEW fd, Start(t, op, args, fd)
  PROVE  /\ call'[t].op = op /\ call'[t].fd = fd
         /\ call'[t].at \in {"leave", "do"}
         /\ Relative(fd) => call'[t].at = "leave"
         /\ \A u \in Threads : u # t => call'[u] = call[u]
  BY DEF Start, Idle, TypeOK

LEMMA StartReturning ==
  ASSUME ReturnInv, NEW t \in Threads, NEW op, NEW args, NEW fd,
         Start(t, op, args, fd), op # "access", swapped' = swapped
  PROVE  OneExchange' /\ \A u \in Threads : Returning(call[u])'
<1>1. TypeOK
  BY DEF ReturnInv, CallsInv
<1>2. Kept(call'[t]) /\ call'[t].op # "access"
  BY <1>1, StartIs DEF Kept
<1> QED
  BY <1>1, <1>2, StartIs, OneReturning

LEMMA AtCallReturning ==
  ASSUME ReturnInv, NEW t \in Threads, NEW op \in {"other", "access"}, NEW fd \in Args,
         AtCall(t, op, fd), "ids" \notin Uses
  PROVE  OneExchange' /\ \A u \in Threads : Returning(call[u])'
<1>1. TypeOK /\ Start(t, op, <<fd>>, fd)
  BY DEF ReturnInv, CallsInv, AtCall
<1>2. CASE op = "other"
  <2>1. swapped' = swapped
    BY <1>1, <1>2 DEF AtCall, TypeOK
  <2> QED
    BY <1>1, <1>2, <2>1, StartReturning
<1>3. CASE op = "access"
  <2>1. swapped = FALSE /\ swapped' = TRUE /\ fd # "bad"
    BY <1>1, <1>3 DEF AtCall, TypeOK
  <2>2. \A u \in Threads : call[u].op # "access"
    BY <2>1 DEF ReturnInv, Returning, Exchanged
  <2>3. /\ \A u \in Threads : u # t => call'[u] = call[u]
        /\ Kept(call'[t]) /\ call'[t].fd = fd
    BY <1>1, StartIs DEF Kept
  <2>4. OneExchange'
    BY <2>2, <2>3 DEF OneExchange
  <2>5. \A u \in Threads : Kept(call'[u]) /\ Exchanged(call[u])'
    BY <2>1, <2>2, <2>3 DEF ReturnInv, Returning, Exchanged
  <2> QED
    BY <2>4, <2>5 DEF Returning, Kept
<1> QED
  BY <1>2, <1>3

LEMMA AtCallOfTwoReturning ==
  ASSUME ReturnInv, NEW t \in Threads, NEW old, NEW new, AtCallOfTwo(t, old, new)
  PROVE  OneExchange' /\ \A u \in Threads : Returning(call[u])'
<1>1. TypeOK /\ swapped' = swapped
  BY DEF ReturnInv, CallsInv, AtCallOfTwo
<1>2. CASE old = "abs" \/ new = "abs" \/ old = new
  BY <1>1, <1>2, StartReturning DEF AtCallOfTwo
<1>3. CASE old # "abs" /\ new # "abs" /\ old # new
  <2>1. /\ call'[t].at = "path" /\ call'[t].op = "other"
        /\ \A u \in Threads : u # t => call'[u] = call[u]
    <3> DEFINE c == [Idle EXCEPT !.at = "path", !.args = <<old, new>>, !.had = own[t]]
    <3>1. call' = [call EXCEPT ![t] = c]
      BY <1>3 DEF AtCallOfTwo, Set
    <3>2. c.at = "path" /\ c.op = "other"
      BY DEF Idle
    <3> HIDE DEF c
    <3> QED
      BY <1>1, <3>1, <3>2 DEF TypeOK
  <2>2. Kept(call'[t])
    BY <2>1 DEF Kept
  <2> QED
    BY <1>1, <2>1, <2>2, OneReturning
<1> QED
  BY <1>2, <1>3

LEMMA FullPathReturning ==
  ASSUME ReturnInv, NEW t \in Threads, FullPathAt(t)
  PROVE  OneExchange' /\ \A u \in Threads : Returning(call[u])'
<1>1. /\ call \in [Threads -> Calls] /\ call[t] \in Calls /\ swapped' = swapped
      /\ call[t].op = "other"
  BY DEF ReturnInv, CallsInv, TypeOK, Sound, Formed, FullPathAt, At
<1>2. /\ \A u \in Threads : u # t => call'[u] = call[u]
      /\ \/ call'[t] = Idle
         \/ call'[t].fd = "abs" /\ call'[t].op = "other"
  <2>1. CASE Set(t, Idle)
    BY <1>1, <2>1 DEF Set
  <2>2. CASE ~ Set(t, Idle)
    BY <1>1, <2>2, SMTT(60) DEF FullPathAt, Calls
  <2> QED
    BY <2>1, <2>2
<1>3. Kept(call'[t]) /\ call'[t].op = "other"
  <2>1. call'[t].at # "enter"
    BY <1>1 DEF FullPathAt, Set, Idle, Calls
  <2> QED
    BY <1>2, <2>1, IdleReturning DEF Kept, Relative
<1> QED
  BY <1>1, <1>2, <1>3, OneReturning

LEMMA LeaveReturning ==
  ASSUME ReturnInv, NEW t \in Threads, Leave(t), "emfile" \notin Uses
  PROVE  OneExchange' /\ \A u \in Threads : Returning(call[u])'
<1>1. /\ call \in [Threads -> Calls] /\ call[t] \in Calls /\ swapped' = swapped
      /\ own[t] = call[t].had
  BY DEF ReturnInv, CallsInv, TypeOK, Sound, Came, Leave, At
<1>2. Fails("emfile") = {FALSE}
  BY DEF Fails
<1>3. call' = [call EXCEPT ![t].at = "enter", ![t].saved = own[t]]
  BY <1>2 DEF Leave
<1>4. /\ \A u \in Threads : u # t => call'[u] = call[u]
      /\ call'[t].saved = own[t] /\ call'[t].had = call[t].had
      /\ call'[t].op = call[t].op /\ call'[t].fd = call[t].fd
  BY <1>1, <1>3 DEF Calls
<1>5. Kept(call'[t])
  BY <1>1, <1>4 DEF Kept
<1> QED
  BY <1>1, <1>4, <1>5, OneReturning

LEMMA EnterReturning ==
  ASSUME ReturnInv, NEW t \in Threads, Enter(t)
  PROVE  /\ OneExchange' /\ \A u \in Threads : Returning(call[u])'
         /\ call'[t].at = "idle" => own'[t] = call[t].had /\ call[t].op # "access"
<1>1. /\ call \in [Threads -> Calls] /\ call[t] \in Calls /\ swapped' = swapped
      /\ own \in [Threads -> Dirs \cup {None}]
      /\ call[t].at = "enter" /\ call[t].saved = call[t].had
      /\ call[t].fd \in Dirs \cup {"bad"}
      /\ call[t].op = "access" => call[t].fd # "bad"
  BY DEF ReturnInv, Returning, Kept, Exchanged, CallsInv, TypeOK, Sound, Formed,
         Enter, At
<1>2. CASE call[t].fd \in Dirs
  <2>1. /\ \A u \in Threads : u # t => call'[u] = call[u]
        /\ call'[t].at = "do"
        /\ call'[t].saved = call[t].saved /\ call'[t].had = call[t].had
        /\ call'[t].op = call[t].op /\ call'[t].fd = call[t].fd
    BY <1>1, <1>2 DEF Enter, Goto, Calls
  <2>2. Kept(call'[t])
    BY <1>1, <2>1 DEF Kept
  <2> QED
    BY <1>1, <2>1, <2>2, OneReturning
<1>3. CASE call[t].fd \notin Dirs
  <2>1. /\ \A u \in Threads : u # t => call'[u] = call[u]
        /\ call'[t] = Idle /\ own'[t] = call[t].had
    BY <1>1, <1>3 DEF Enter, Set
  <2> QED
    BY <1>1, <1>3, <2>1, OneReturning, IdleReturning
<1> QED
  BY <1>2, <1>3

LEMMA DoReturning ==
  ASSUME ReturnInv, NEW t \in Threads, Do(t)
  PROVE  OneExchange' /\ \A u \in Threads : Returning(call[u])'
<1>1. /\ call \in [Threads -> Calls] /\ call[t] \in Calls /\ swapped' = swapped
      /\ call[t].at = "do" /\ Kept(call[t])
  BY DEF ReturnInv, Returning, CallsInv, TypeOK, Do, At
<1>2. /\ \A u \in Threads : u # t => call'[u] = call[u]
      /\ call'[t].at = "back"
      /\ call'[t].saved = call[t].saved /\ call'[t].had = call[t].had
      /\ call'[t].op = call[t].op /\ call'[t].fd = call[t].fd
  BY <1>1 DEF Do, Calls
<1>3. Kept(call'[t])
  BY <1>1, <1>2 DEF Kept
<1> QED
  BY <1>1, <1>2, <1>3, OneReturning

LEMMA BackReturning ==
  ASSUME ReturnInv, NEW t \in Threads, Back(t)
  PROVE  /\ OneExchange' /\ \A u \in Threads : Returning(call[u])'
         /\ own'[t] = call[t].had /\ (call[t].op = "access" => ~swapped')
<1>1. /\ call \in [Threads -> Calls] /\ call[t] \in Calls /\ swapped \in BOOLEAN
      /\ own \in [Threads -> Dirs \cup {None}]
      /\ call[t].at = "back" /\ Kept(call[t]) /\ Exchanged(call[t])
      /\ ~Relative(call[t].fd) => own[t] = call[t].had
  BY DEF ReturnInv, Returning, CallsInv, TypeOK, Sound, Came, Back, At
<1>2. call'[t] = Idle /\ \A u \in Threads : u # t => call'[u] = call[u]
  BY <1>1 DEF Back, Set
<1>3. own'[t] = call[t].had
  BY <1>1 DEF Back, Kept
<1>4. CASE call[t].op = "access"
  <2>1. swapped = TRUE /\ swapped' = FALSE
    BY <1>1, <1>4 DEF Back, Exchanged
  <2>2. \A u \in Threads : call'[u].op # "access"
    BY <1>2, <1>4, IdleReturning DEF ReturnInv, OneExchange
  <2>3. \A u \in Threads : Kept(call'[u])
    BY <1>2, IdleReturning DEF ReturnInv, Returning
  <2>4. \A u \in Threads : Exchanged(call[u])'
    BY <2>2 DEF Exchanged
  <2>5. OneExchange'
    BY <2>2 DEF OneExchange
  <2> QED
    BY <1>3, <2>1, <2>3, <2>4, <2>5 DEF Returning, Kept
<1>5. CASE call[t].op # "access"
  <2>1. swapped' = swapped
    BY <1>1, <1>5 DEF Back
  <2> QED
    BY <1>2, <1>3, <1>5, <2>1, OneReturning, IdleReturning
<1> QED
  BY <1>4, <1>5

LEMMA ReturnStep ==
  ASSUME Uses \subseteq {"window", "own", "again", "twice", "full", "reuse"}
  PROVE  ReturnInv /\ [Next]_vars => ReturnInv'
<1> SUFFICES ASSUME ReturnInv, [Next]_vars
             PROVE  OneExchange' /\ \A u \in Threads : Returning(call[u])'
  BY CallsStep DEF ReturnInv
<1>1. "emfile" \notin Uses /\ "ids" \notin Uses
  OBVIOUS
<1>2. TypeOK
  BY DEF ReturnInv, CallsInv
<1>3. ASSUME UNCHANGED <<call, swapped>>
      PROVE  OneExchange' /\ \A u \in Threads : Returning(call[u])'
  BY <1>3 DEF ReturnInv, OneExchange, Returning, Kept, Exchanged
<1>4. CASE UNCHANGED vars
  BY <1>3, <1>4 DEF vars
<1>5. ASSUME NEW t \in Threads, NEW d \in Dirs, Chdir(t, d)
      PROVE  OneExchange' /\ \A u \in Threads : Returning(call[u])'
  BY <1>3, <1>5 DEF Chdir
<1>6. ASSUME NEW t \in Threads, AtStep(t)
      PROVE  OneExchange' /\ \A u \in Threads : Returning(call[u])'
  <2>1. CASE \E d \in Dirs \cup {None} : PthreadFchdir(t, d)
    BY <1>3, <2>1 DEF PthreadFchdir
  <2>2. CASE \E d \in Dirs : FdOpenDir(t, d)
    BY <2>2, StartReturning DEF FdOpenDir
  <2> QED
    BY <1>1, <1>6, <2>1, <2>2, AtCallReturning, AtCallOfTwoReturning,
       FullPathReturning, LeaveReturning, EnterReturning, DoReturning, BackReturning
    DEF AtStep
<1>7. ASSUME NEW t \in Threads, ActionsStep(t)
      PROVE  OneExchange' /\ \A u \in Threads : Returning(call[u])'
  <2>1. UNCHANGED <<call, swapped>>
    BY <1>7 DEF ActionsStep, InitActions, DestroyActions, AddChdir
  <2> QED
    BY <1>3, <2>1
<1>8. ASSUME NEW t \in Threads, \A u \in Threads : u # t => call'[u] = call[u],
             UNCHANGED swapped, call'[t].op = "other",
             call'[t].at = "back" => call'[t].fd = "fdcwd",
             call'[t].at \notin {"enter", "do"}
      PROVE  OneExchange' /\ \A u \in Threads : Returning(call[u])'
  <2>1. Kept(call'[t])
    BY <1>8 DEF Kept, Relative
  <2> QED
    BY <1>8, <2>1, OneReturning
<1>9. ASSUME NEW t \in Threads, NEW a \in Acts, Spawn(t, a)
      PROVE  OneExchange' /\ \A u \in Threads : Returning(call[u])'
  <2>1. /\ UNCHANGED swapped /\ call'[t].op = "other"
        /\ call'[t].at \in {"plain", "lock"}
        /\ \A u \in Threads : u # t => call'[u] = call[u]
    BY <1>2, <1>9 DEF Spawn, Set, Idle, TypeOK
  <2> QED
    BY <1>8, <2>1
<1>10. ASSUME NEW t \in Threads, Lock(t) \/ Enters(t) \/ RealSpawn(t) \/ Restore(t)
       PROVE  OneExchange' /\ \A u \in Threads : Returning(call[u])'
  <2>1. /\ call \in [Threads -> Calls] /\ call[t] \in Calls
        /\ call[t].op = "other" /\ (call[t].at = "plain" => call[t].fd = "fdcwd")
    BY <1>2, <1>10 DEF ReturnInv, CallsInv, TypeOK, Sound, Formed, Spawning,
                       Lock, Enters, RealSpawn, Restore, At
  <2>2. UNCHANGED swapped /\ \A u \in Threads : u # t => call'[u] = call[u]
    BY <1>10, <2>1 DEF Lock, Enters, RealSpawn, Restore, Set, Goto
  <2>3. \/ call'[t] = Idle
        \/ /\ call'[t].op = "other" /\ call'[t].fd = call[t].fd
           /\ call'[t].at \in {"chdir", "fork", "restore"}
        \/ /\ call[t].at = "plain" /\ call'[t].at = "back"
           /\ call'[t].op = "other" /\ call'[t].fd = call[t].fd
    BY <1>10, <2>1 DEF Lock, Enters, RealSpawn, Restore, Set, Goto, At, Calls
  <2> QED
    BY <1>8, <2>1, <2>2, <2>3, IdleReturning
<1> QED
  BY <1>4, <1>5, <1>6, <1>7, <1>8, <1>9, <1>10, StepIs

LEMMA ReturnInit == Init => ReturnInv
<1> SUFFICES ASSUME Init PROVE ReturnInv
  OBVIOUS
<1>1. \A t \in Threads : call[t] = Idle
  BY DEF Init
<1>2. OneExchange /\ \A t \in Threads : Returning(call[t])
  BY <1>1, IdleReturning DEF OneExchange, Returning, Exchanged
<1> QED
  BY <1>2, CallsInit DEF ReturnInv

Returns ==
    \A t \in Threads : call[t].at # "idle" /\ call'[t].at = "idle" =>
        own'[t] = call[t].had /\ (call[t].op = "access" => ~swapped')

LEMMA ReturnsHere ==
  ASSUME NEW t \in Threads, \A u \in Threads : u # t => call'[u] = call[u],
         call[t].at # "idle" /\ call'[t].at = "idle" =>
            own'[t] = call[t].had /\ (call[t].op = "access" => ~swapped')
  PROVE  Returns
  BY DEF Returns

LEMMA ReturnsStep == ReturnInv /\ [Next]_vars => [Returns]_vars
<1> SUFFICES ASSUME ReturnInv, Next PROVE Returns
  BY DEF vars, Returns
<1>1. /\ TypeOK /\ call \in [Threads -> Calls]
      /\ \A t \in Threads : Sound(call[t], own[t]) /\ call[t] \in Calls
  BY DEF ReturnInv, CallsInv, TypeOK
<1>2. ASSUME NEW t \in Threads, NEW d \in Dirs, Chdir(t, d) PROVE Returns
  BY <1>2 DEF Chdir, Returns
<1>3. ASSUME NEW t \in Threads, AtStep(t) PROVE Returns
  <2>1. \A u \in Threads : u # t => call'[u] = call[u]
    BY <1>1, <1>3, AtSteps
  <2>2. ASSUME call[t].at = "idle" PROVE Returns
    BY <2>1, <2>2, ReturnsHere
  <2>3. ASSUME \/ \E d \in Dirs \cup {None} : PthreadFchdir(t, d)
               \/ \E op \in {"other", "access"}, fd \in Args : AtCall(t, op, fd)
               \/ \E d \in Dirs : FdOpenDir(t, d)
               \/ \E old, new \in Args : AtCallOfTwo(t, old, new)
        PROVE  Returns
    BY <2>2, <2>3 DEF PthreadFchdir, AtCall, FdOpenDir, AtCallOfTwo, At
  <2>4. CASE FullPathAt(t)
    <3>1. own'[t] = call[t].had /\ call[t].op = "other"
      BY <1>1, <2>4 DEF FullPathAt, At, Sound, Formed, Came
    <3> QED
      BY <2>1, <3>1, ReturnsHere
  <2>5. CASE Leave(t)
    <3>1. call'[t].at = "enter"
      BY <1>1, <2>5 DEF Leave, Calls
    <3> QED
      BY <2>1, <3>1, ReturnsHere
  <2>6. CASE Enter(t)
    BY <2>1, <2>6, EnterReturning, ReturnsHere
  <2>7. CASE Do(t)
    <3>1. call'[t].at = "back"
      BY <1>1, <2>7 DEF Do, Calls
    <3> QED
      BY <2>1, <3>1, ReturnsHere
  <2>8. CASE Back(t)
    BY <2>1, <2>8, BackReturning, ReturnsHere
  <2> QED
    BY <1>3, <2>3, <2>4, <2>5, <2>6, <2>7, <2>8 DEF AtStep
<1>4. ASSUME NEW t \in Threads, ActionsStep(t) PROVE Returns
  BY <1>4 DEF ActionsStep, InitActions, DestroyActions, AddChdir, Returns
<1>5. ASSUME NEW t \in Threads, NEW a \in Acts, Spawn(t, a) PROVE Returns
  <2>1. call[t].at = "idle" /\ \A u \in Threads : u # t => call'[u] = call[u]
    BY <1>1, <1>5 DEF Spawn, Set, At
  <2> QED
    BY <2>1, ReturnsHere
<1>6. ASSUME NEW t \in Threads, Lock(t) \/ Enters(t) \/ RealSpawn(t) \/ Restore(t)
      PROVE  Returns
  <2>1. \A u \in Threads : u # t => call'[u] = call[u]
    BY <1>1, <1>6 DEF Lock, Enters, RealSpawn, Restore, Set, Goto
  <2>2. own'[t] = call[t].had /\ call[t].op = "other"
    BY <1>1, <1>6 DEF Lock, Enters, RealSpawn, Restore, At, Sound, Formed, Came,
                      Spawning, spawns
  <2> QED
    BY <2>1, <2>2, ReturnsHere
<1> QED
  BY <1>2, <1>3, <1>4, <1>5, <1>6, StepIs

\* A call leaves its thread in the directory it came in, with its ids as they were,
\* on its error paths too (ATCALL, faccessat), whatever other threads and spawns are
\* at, as long as open(".") finds a descriptor and faccessat keeps to one thread of
\* a set-uid program and to good descriptors.
THEOREM CallersDirectoryKept ==
  ASSUME Uses \subseteq {"window", "own", "again", "twice", "full", "reuse"}
  PROVE  Spec => CallerUnchanged
<1> USE DEF Returns
<1> QED
  BY ReturnInit, ReturnStep, ReturnsStep, PTL DEF Spec, CallerUnchanged

-----------------------------------------------------------------------------
(***************************************************************************)
(* Words                                                                   *)
(***************************************************************************)
LEMMA Quotient == \A n, d \in Int : d > 0 => n = d * (n \div d) + (n % d)
  OBVIOUS

Divides(n, d, q, r) == /\ q \in Int /\ r \in 0..(d - 1) /\ n = d * q + r
                       /\ n \in Nat => q \in Nat
LEMMA Divided ==
  ASSUME NEW n \in Int, NEW d \in Nat \ {0}
  PROVE  Divides(n, d, n \div d, n % d)
<1>1. n \div d \in Int /\ n % d \in 0..(d - 1)
  OBVIOUS
<1>2. d \in Int /\ d > 0
  OBVIOUS
<1>3. n = d * (n \div d) + (n % d)
  BY <1>2, Quotient, Zenon
<1>4. n \in Nat => n \div d \in Nat
  OBVIOUS
<1> QED
  BY <1>1, <1>3, <1>4 DEF Divides

LEMMA AtLeast ==
  ASSUME NEW k \in Int, NEW d \in Nat, k >= 1
  PROVE  k * d >= d
  OBVIOUS

LEMMA Multiplied ==
  ASSUME NEW x \in Int, NEW y \in Int, NEW z \in Int
  PROVE  /\ x * y \in Int /\ x * y = y * x /\ (x * y) * z = x * (y * z)
         /\ (x + y) * z = x * z + y * z /\ (x - y) * z = x * z - y * z
         /\ x * (y + z) = x * y + x * z /\ x * (y - z) = x * y - x * z
  OBVIOUS

LEMMA InOrder ==
  ASSUME NEW x \in Int, NEW y \in Int, NEW d \in Nat, x <= y
  PROVE  x * d <= y * d
  OBVIOUS

LEMMA Product ==
  ASSUME NEW m \in Nat, NEW n \in Nat, NEW x \in 0..m, NEW y \in 0..n
  PROVE  x * y <= m * n
<1>1. x * y <= m * y
  BY InOrder
<1>2. y * m <= n * m
  BY InOrder
<1>3. m * y = y * m /\ n * m = m * n /\ {x * y, y * m, n * m} \subseteq Int
  BY Multiplied
<1> QED
  BY <1>1, <1>2, <1>3

\* A quotient and a remainder are what they are called.
LEMMA DividesAs ==
  ASSUME NEW n \in Int, NEW d \in Nat \ {0}, NEW q \in Int, NEW r \in 0..(d - 1),
         n = q * d + r
  PROVE  n \div d = q /\ n % d = r
<1> DEFINE p == n \div d
           s == n % d
<1>1. p \in Int /\ s \in 0..(d - 1) /\ n = d * p + s
  <2>1. Divides(n, d, p, s)
    BY Divided, Zenon
  <2> QED
    BY <2>1 DEF Divides
<1> HIDE DEF p, s
<1>2. d * p = p * d /\ (q - p) * d = q * d - p * d /\ (p - q) * d = p * d - q * d
  BY <1>1, Multiplied
<1>3. CASE q > p
  <2>1. (q - p) * d >= d
    BY <1>1, <1>3, AtLeast
  <2> QED
    BY <1>1, <1>2, <2>1
<1>4. CASE p > q
  <2>1. (p - q) * d >= d
    BY <1>1, <1>4, AtLeast
  <2> QED
    BY <1>1, <1>2, <2>1
<1>5. CASE p = q
  BY <1>1, <1>2, <1>5 DEF p, s
<1> QED
  BY <1>1, <1>3, <1>4, <1>5

\* Words that differ by a multiple of the word's size are one.
Differ(x, y, d) == \E k \in Int : x = y + k * d
LEMMA SameWord ==
  ASSUME NEW x \in Int, NEW y \in Int, NEW d \in Nat \ {0}, Differ(x, y, d)
  PROVE  x % d = y % d
<1>0. PICK k \in Int : x = y + k * d
  BY DEF Differ
<1> DEFINE q == y \div d
           r == y % d
<1>1. q \in Int /\ r \in 0..(d - 1) /\ y = d * q + r
  <2>1. Divides(y, d, q, r)
    BY Divided, Zenon
  <2> QED
    BY <2>1 DEF Divides
<1> HIDE DEF q, r
<1>2. x = (q + k) * d + r
  <2>1. (q + k) * d = q * d + k * d /\ d * q = q * d /\ q * d \in Int /\ k * d \in Int
    BY <1>1, Multiplied
  <2> QED
    BY <1>0, <1>1, <2>1
<1>3. x % d = r
  BY <1>1, <1>2, DividesAs
<1> QED
  BY <1>3 DEF r

\* The middle word of a product is the product cut off, of any two words.
LEMMA MiddleWord ==
  ASSUME NEW H \in Nat \ {0}, NEW x \in 0..(H * H - 1), NEW y \in 0..(H * H - 1)
  PROVE  LET xh == x \div H
             xl == x % H
             yh == y \div H
             yl == y % H
             mid == (xl * yh + ((xh * yl) % H) + ((xl * yl) \div H)) % (H * H)
             high == (xh * yh + (mid \div H) + ((xh * yl) \div H)) % (H * H)
         IN  (high * H + (mid % H)) % (H * H) = ((x * y) \div H) % (H * H)
<1> DEFINE W == H * H
           xh == x \div H
           xl == x % H
           yh == y \div H
           yl == y % H
           cq == (xh * yl) \div H
           cr == (xh * yl) % H
           lq == (xl * yl) \div H
           lr == (xl * yl) % H
           sum == xl * yh + cr + lq
           mid == sum % W
           mq == mid \div H
           mr == mid % H
           all == xh * yh + mq + cq
           high == all % W
<1>1. W \in Nat \ {0} /\ x \in Nat /\ y \in Nat /\ x <= W - 1 /\ y <= W - 1
  <2>1. H * H >= H
    BY AtLeast
  <2> QED
    BY <2>1
<1>2. /\ xh \in Nat /\ xl \in 0..(H - 1) /\ x = H * xh + xl
      /\ yh \in Nat /\ yl \in 0..(H - 1) /\ y = H * yh + yl
  <2>1. x \in Int /\ y \in Int
    BY <1>1
  <2>2. Divides(x, H, xh, xl) /\ Divides(y, H, yh, yl)
    BY <2>1, Divided, Zenon
  <2> HIDE DEF xh, xl, yh, yl
  <2> QED
    BY <1>1, <2>2 DEF Divides
<1> HIDE DEF W, xh, xl, yh, yl
<1>3. xh * yl \in Nat /\ xl * yl \in Nat /\ xh * yh \in Nat /\ xl * yh \in Nat
  BY <1>2
<1>4. /\ cq \in Nat /\ cr \in 0..(H - 1) /\ xh * yl = H * cq + cr
      /\ lq \in Nat /\ lr \in 0..(H - 1) /\ xl * yl = H * lq + lr
  <2> DEFINE u == xh * yl
             v == xl * yl
  <2>1. u \in Nat /\ v \in Nat /\ u \in Int /\ v \in Int
    BY <1>3
  <2>2. Divides(u, H, cq, cr) /\ Divides(v, H, lq, lr)
    BY <2>1, Divided, Zenon
  <2> HIDE DEF u, v, cq, cr, lq, lr
  <2>3. /\ cq \in Nat /\ cr \in 0..(H - 1) /\ u = H * cq + cr
        /\ lq \in Nat /\ lr \in 0..(H - 1) /\ v = H * lq + lr
    BY <2>1, <2>2 DEF Divides
  <2> QED
    BY <2>3, Zenon DEF u, v
<1> HIDE DEF cq, cr, lq, lr
<1>5. yh <= H - 1
  <2>1. SUFFICES ASSUME yh >= H PROVE FALSE
    BY <1>2
  <2>2. yh * H >= H * H /\ H * yh = yh * H
    BY <1>2, <2>1, InOrder, Multiplied
  <2> QED
    BY <1>1, <1>2, <2>2 DEF W
<1>6. lq <= H - 1
  <2>1. SUFFICES ASSUME lq >= H PROVE FALSE
    BY <1>4
  <2>2. lq * H >= H * H /\ H * lq = lq * H
    BY <1>4, <2>1, InOrder, Multiplied
  <2>3. xl * yl <= (H - 1) * (H - 1)
    BY <1>2, Product
  <2>4. (H - 1) * (H - 1) = W - 2 * H + 1
    BY DEF W
  <2> DEFINE u == H * lq
             v == xl * yl
  <2>5. u >= W /\ v <= W - 2 * H + 1 /\ v = u + lr /\ u \in Int
    BY <1>4, <2>2, <2>3, <2>4 DEF W
  <2> HIDE DEF u, v
  <2> QED
    BY <1>1, <1>4, <2>5
<1>7. sum \in 0..(W - 1)
  <2>1. xl * yh <= (H - 1) * (H - 1)
    BY <1>2, <1>5, Product
  <2>2. (H - 1) * (H - 1) = W - 2 * H + 1
    BY DEF W
  <2> DEFINE v == xl * yh
  <2>3. v \in Nat /\ v <= W - 2 * H + 1 /\ sum = v + cr + lq
    BY <1>3, <2>1, <2>2
  <2> HIDE DEF v, sum
  <2> QED
    BY <1>1, <1>4, <1>6, <2>3
<1> HIDE DEF sum
<1>8. mid = sum
  <2>1. sum = 0 * W + sum
    BY <1>1, <1>7
  <2> QED
    BY <1>1, <1>7, <2>1, DividesAs
<1> HIDE DEF mid
<1>9. mq \in Nat /\ mr \in 0..(H - 1) /\ sum = H * mq + mr
  <2>1. sum \in Nat /\ sum \in Int
    BY <1>1, <1>7
  <2>2. Divides(sum, H, mq, mr)
    BY <1>8, <2>1, Divided, Zenon
  <2> HIDE DEF mq, mr
  <2> QED
    BY <2>1, <2>2 DEF Divides
<1> HIDE DEF mq, mr
<1>10. all \in Nat
  BY <1>3, <1>4, <1>9
<1> DEFINE p == H * all + mr
<1>11. (x * y) \div H = p
  <2>1. x * y = H * (H * (xh * yh)) + H * (xh * yl) + H * (xl * yh) + xl * yl
    <3>1. /\ (H * xh + xl) * (H * yh + yl) = (H * xh + xl) * (H * yh) + (H * xh + xl) * yl
          /\ (H * xh + xl) * (H * yh) = (H * xh) * (H * yh) + xl * (H * yh)
          /\ (H * xh + xl) * yl = (H * xh) * yl + xl * yl
      BY <1>2, Multiplied
    <3>2. /\ (H * xh) * (H * yh) = H * (xh * (H * yh)) /\ xh * (H * yh) = (H * yh) * xh
          /\ (H * yh) * xh = H * (yh * xh) /\ yh * xh = xh * yh
          /\ xl * (H * yh) = (H * yh) * xl /\ (H * yh) * xl = H * (yh * xl)
          /\ yh * xl = xl * yh
          /\ (H * xh) * yl = H * (xh * yl)
      BY <1>2, Multiplied
    <3> QED
      BY <1>2, <3>1, <3>2
  <2>2. p = H * (xh * yh) + H * mq + H * cq + mr
    BY <1>3, <1>4, <1>9
  <2>3. H * (xh * yh) + H * cq + sum = p
    BY <1>3, <1>4, <1>9, <2>2
  <2>4. H * (xh * yh) + xh * yl + xl * yh + lq = p
    BY <1>3, <1>4, <2>3 DEF sum
  <2>5. x * y = H * p + lr
    <3> DEFINE u == xh * yh
               v == xh * yl
               w == xl * yh
    <3>1. x * y = H * (H * u) + H * v + H * w + (H * lq + lr)
      BY <1>4, <2>1
    <3>2. p = H * u + v + w + lq
      BY <2>4
    <3>3. u \in Nat /\ v \in Nat /\ w \in Nat
      BY <1>3
    <3> HIDE DEF u, v, w, p
    <3>4. H * (H * u + v + w + lq) = H * (H * u) + H * v + H * w + H * lq
      BY <1>4, <3>3
    <3>5. /\ H * (H * u) \in Nat /\ H * v \in Nat /\ H * w \in Nat /\ H * lq \in Nat
      BY <1>4, <3>3
    <3> QED
      BY <1>4, <3>1, <3>2, <3>4, <3>5
  <2>6. p \in Int
    BY <1>9, <1>10
  <2>7. x * y = p * H + lr /\ x * y \in Int
    <3> HIDE DEF p
    <3> QED
      BY <1>1, <2>5, <2>6, Multiplied
  <2> QED
    BY <1>4, <2>6, <2>7, DividesAs
<1>12. (high * H + mr) % W = p % W
  <2> DEFINE aq == all \div W
  <2>1. aq \in Int /\ high \in 0..(W - 1) /\ all = W * aq + high
    <3>1. all \in Int /\ W \in Nat \ {0}
      BY <1>1, <1>10
    <3>2. Divides(all, W, aq, high)
      BY <3>1, Divided, Zenon
    <3> HIDE DEF all, aq, high
    <3> QED
      BY <3>2 DEF Divides
  <2> HIDE DEF aq, high, all
  <2>2. p = H * (W * aq) + H * high + mr
    BY <1>1, <1>9, <2>1, Multiplied
  <2>3. H * (W * aq) = (aq * H) * W /\ H * high = high * H
    <3>1. /\ W * aq = aq * W /\ H * (aq * W) = (aq * W) * H
          /\ (aq * W) * H = aq * (W * H) /\ W * H = H * W /\ aq * (H * W) = (aq * H) * W
      BY <1>1, <2>1, Multiplied
    <3> QED
      BY <1>1, <2>1, <3>1, Multiplied
  <2>4. p = (high * H + mr) + (aq * H) * W
    BY <1>1, <1>9, <2>1, <2>2, <2>3
  <2>5. p \in Int /\ high * H + mr \in Int /\ aq * H \in Int
    BY <1>1, <1>9, <1>10, <2>1 DEF all
  <2> DEFINE k == aq * H
             y0 == high * H + mr
  <2>6. p = y0 + k * W /\ y0 \in Int /\ k \in Int /\ p \in Int
    BY <2>4, <2>5
  <2> HIDE DEF p, k, y0
  <2>7. p % W = y0 % W
    <3>1. W \in Nat \ {0}
      BY <1>1
    <3>2. Differ(p, y0, W)
      BY <2>6, Zenon DEF Differ
    <3> QED
      BY <2>6, <3>1, <3>2, SameWord
  <2> QED
    BY <2>7 DEF y0
<1>13. (high * H + mr) % W = ((x * y) \div H) % W
  BY <1>11, <1>12
<1> QED
  BY <1>13 DEF W, xh, xl, yh, yl, cq, cr, lq, lr, sum, mid, mq, mr

LEMMA Cancelled ==
  ASSUME NEW x \in Int, NEW y \in Int, NEW d \in Nat \ {0}, d * x <= d * y
  PROVE  x <= y
<1>1. SUFFICES ASSUME x > y PROVE FALSE
  OBVIOUS
<1>2. (x - y) * d >= d
  BY <1>1, AtLeast
<1>3. (x - y) * d = x * d - y * d /\ x * d = d * x /\ y * d = d * y
  BY Multiplied
<1> QED
  BY <1>2, <1>3

\* Nanoseconds of a second, computed in half words.
LEMMA HalfWords ==
  ASSUME NEW H \in Nat, NEW B \in Nat \ {0}, B < H, NEW n \in Nat
  PROVE  LET secs == n \div B
         IN  /\ ((n % H) - (secs % H) * B) % H \in 0..(B - 1)
             /\ secs * B + (((n % H) - (secs % H) * B) % H) = n
<1> DEFINE secs == n \div B
           r == n % B
           p == n \div H
           t == n % H
           s == secs \div H
           u == secs % H
<1>1. H \in Nat \ {0} /\ n \in Int
  OBVIOUS
<1>2. secs \in Nat /\ r \in 0..(B - 1) /\ n = B * secs + r
  <2>1. Divides(n, B, secs, r)
    BY <1>1, Divided, Zenon
  <2> HIDE DEF secs, r
  <2> QED
    BY <2>1 DEF Divides
<1> HIDE DEF secs, r
<1>3. p \in Int /\ t \in 0..(H - 1) /\ n = H * p + t
  <2>1. Divides(n, H, p, t)
    BY <1>1, Divided, Zenon
  <2> HIDE DEF p, t
  <2> QED
    BY <2>1 DEF Divides
<1>4. s \in Int /\ u \in 0..(H - 1) /\ secs = H * s + u
  <2>1. secs \in Int
    BY <1>2
  <2>2. Divides(secs, H, s, u)
    BY <1>1, <2>1, Divided, Zenon
  <2> HIDE DEF s, u
  <2> QED
    BY <2>2 DEF Divides
<1> HIDE DEF p, t, s, u
<1>5. t - u * B = r + (s * B - p) * H
  <2>1. /\ B * secs = (H * s + u) * B /\ (H * s + u) * B = (H * s) * B + u * B
        /\ (H * s) * B = (s * B) * H /\ (s * B - p) * H = (s * B) * H - p * H
        /\ p * H = H * p /\ {B * secs, u * B, (s * B) * H, p * H} \subseteq Int
    <3>1. H * s \in Int /\ s * B \in Int
      BY <1>4, Multiplied
    <3>2. B * secs = secs * B /\ (H * s + u) * B = (H * s) * B + u * B
          /\ (s * B - p) * H = (s * B) * H - p * H /\ p * H = H * p
      BY <1>2, <1>3, <1>4, <3>1, Multiplied
    <3>3. (H * s) * B = (s * B) * H
      <4>1. (H * s) * B = H * (s * B) /\ H * (s * B) = (s * B) * H
        BY <1>4, <3>1, Multiplied
      <4> QED
        BY <4>1
    <3>4. {B * secs, u * B, (s * B) * H, p * H} \subseteq Int
      BY <1>2, <1>3, <1>4, <3>1, Multiplied
    <3> QED
      BY <1>4, <3>2, <3>3, <3>4
  <2> DEFINE v == B * secs
             w == u * B
             x == (s * B) * H
             y == p * H
             z == (s * B - p) * H
  <2>2. v = x + w /\ z = x - y /\ n = v + r /\ n = y + t
    BY <1>2, <1>3, <2>1
  <2>4. {v, w, x, y, z, r, t} \subseteq Int
    BY <1>2, <1>3, <2>1
  <2>3. t - w = r + z
    <3> HIDE DEF v, w, x, y, z
    <3> QED
      BY <2>2, <2>4
  <2> QED
    BY <2>3
<1> DEFINE e == t - u * B
           k == s * B - p
<1>6. e \in Int /\ k \in Int /\ e = r + k * H /\ r \in Int
  BY <1>2, <1>3, <1>4, <1>5
<1> HIDE DEF e, k
<1>7. e % H = r
  <2>1. Differ(e, r, H)
    BY <1>6, Zenon DEF Differ
  <2>2. e % H = r % H
    BY <1>1, <1>6, <2>1, SameWord
  <2>3. r % H = r
    <3>1. r = 0 * H + r /\ r \in 0..(H - 1)
      BY <1>2
    <3> QED
      BY <1>1, <1>6, <3>1, DividesAs
  <2> QED
    BY <2>2, <2>3
<1>8. e % H \in 0..(B - 1) /\ secs * B + (e % H) = n
  BY <1>2, <1>7, Multiplied
<1> QED
  BY <1>8 DEF secs, t, u, e

\* Half is less than one and no more.
LEMMA HalfIs ==
  ASSUME NEW d \in Nat \ {0}
  PROVE  d \div 2 \in 0..(d - 1)
  OBVIOUS

\* A multiplier that is rounded, and time that is scaled by it.
LEMMA RoundedTwice ==
  ASSUME NEW H \in Nat \ {0}, NEW E \in Nat \ {0}, NEW n \in Nat, NEW d \in Nat \ {0},
         NEW a \in Nat
  PROVE  LET m == (n * (H * E) + (d \div 2)) \div d
             t == ((a * m) \div H) \div E
             c == (a + H * E - 1) \div (H * E)
         IN  /\ t * d - a * n <= d * (1 + c)
             /\ a * n - t * d <= d * (1 + c)
<1> DEFINE N == H * E
           h == d \div 2
           up == n * N + h
           m == up \div d
           am == a * m
           q == am \div H
           t == q \div E
           c == (a + N - 1) \div N
<1>1. N \in Nat \ {0} /\ N \in Int /\ H \in Int /\ h \in 0..(d - 1)
  <2>1. H * E >= E
    BY AtLeast
  <2> QED
    BY <2>1, HalfIs
<1> HIDE DEF N, h
<1>2. PICK r1 \in 0..(d - 1) : m \in Nat /\ up = d * m + r1
  <2>1. up \in Nat /\ up \in Int
    BY <1>1
  <2>2. Divides(up, d, m, up % d)
    BY <2>1, Divided, Zenon
  <2> HIDE DEF up, m
  <2> QED
    BY <2>1, <2>2 DEF Divides
<1> HIDE DEF m
<1>3. PICK r2 \in 0..(H - 1) : q \in Nat /\ am = H * q + r2
  <2>1. am \in Nat /\ am \in Int
    BY <1>2
  <2>2. Divides(am, H, q, am % H)
    BY <2>1, Divided, Zenon
  <2> HIDE DEF am, q
  <2> QED
    BY <2>1, <2>2 DEF Divides
<1> HIDE DEF q
<1>4. PICK r3 \in 0..(E - 1) : t \in Nat /\ q = E * t + r3
  <2>1. q \in Nat /\ q \in Int
    BY <1>3
  <2>2. Divides(q, E, t, q % E)
    BY <2>1, Divided, Zenon
  <2> HIDE DEF t
  <2> QED
    BY <2>1, <2>2 DEF Divides
<1> HIDE DEF t
<1>5. PICK r4 \in 0..(N - 1) : c \in Nat /\ a + N - 1 = N * c + r4
  <2>1. a + N - 1 \in Nat /\ a + N - 1 \in Int
    BY <1>1
  <2>2. Divides(a + N - 1, N, c, (a + N - 1) % N)
    BY <1>1, <2>1, Divided, Zenon
  <2> HIDE DEF c
  <2> QED
    BY <2>1, <2>2 DEF Divides
<1> HIDE DEF c
<1> DEFINE g == h - r1
           e == H * r3 + r2
<1>6. g \in Int /\ g <= d /\ -g <= d /\ d * m = n * N + g
  <2>1. n * N \in Int /\ d * m \in Int
    BY <1>1, <1>2
  <2> QED
    BY <1>1, <1>2, <2>1
<1>7. e \in 0..(N - 1) /\ am = N * t + e
  <2>1. r3 * H <= (E - 1) * H /\ (E - 1) * H = E * H - 1 * H /\ E * H = N /\ r3 * H = H * r3
    BY <1>4, InOrder, Multiplied DEF N
  <2>2. H * r3 \in Nat /\ H * r3 <= N - H
    BY <1>1, <1>4, <2>1
  <2>3. H * q = N * t + H * r3
    BY <1>3, <1>4, Multiplied DEF N
  <2>4. N * t \in Int
    BY <1>1, <1>4
  <2> QED
    BY <1>1, <1>3, <2>2, <2>3, <2>4
<1>8. N * c >= a
  <2>1. N * c \in Int
    BY <1>1, <1>5
  <2> QED
    BY <1>1, <1>5, <2>1
<1> HIDE DEF g, e, am
<1> DEFINE x == t * d - a * n
           y == d * (1 + c)
<1>9. N * x = a * g - d * e
  <2>1. d * am = a * (d * m)
    BY <1>2, Multiplied DEF am
  <2>2. a * (d * m) = N * (a * n) + a * g
    <3>1. a * (n * N + g) = a * (n * N) + a * g
      BY <1>1, <1>6, Multiplied
    <3>2. a * (n * N) = (a * n) * N /\ (a * n) * N = N * (a * n)
      BY <1>1, Multiplied
    <3> QED
      BY <1>6, <3>1, <3>2
  <2>3. d * am = N * (t * d) + d * e
    <3>1. d * (N * t + e) = d * (N * t) + d * e
      BY <1>1, <1>4, <1>7, Multiplied
    <3>2. d * (N * t) = (N * t) * d /\ (N * t) * d = N * (t * d)
      BY <1>1, <1>4, Multiplied
    <3> QED
      BY <1>7, <3>1, <3>2
  <2>4. N * x = N * (t * d) - N * (a * n)
    BY <1>1, <1>4, Multiplied
  <2> DEFINE X == N * x
             u == N * (t * d)
             v == N * (a * n)
             w == a * g
             z == d * e
  <2>5. X = u - v /\ v + w = u + z /\ {u, v, w, z} \subseteq Int
    BY <1>1, <1>4, <1>6, <1>7, <2>1, <2>2, <2>3, <2>4
  <2> HIDE DEF X, u, v, w, z
  <2>6. X = w - z
    BY <2>5
  <2> QED
    BY <2>6 DEF X, w, z
<1>10. N * y >= a * d + d * N
  <2>1. N * y = d * N + (N * c) * d
    BY <1>1, <1>5, Multiplied
  <2>2. a * d <= (N * c) * d
    BY <1>1, <1>5, <1>8, InOrder
  <2>3. {d * N, (N * c) * d, a * d} \subseteq Int
    BY <1>1, <1>5
  <2> QED
    BY <2>1, <2>2, <2>3
<1>11. /\ a * g <= a * d /\ -(a * g) <= a * d /\ d * e >= 0 /\ d * e <= d * N
       /\ {a * g, a * d, d * e, d * N} \subseteq Int
  <2>1. g * a <= d * a /\ (-g) * a <= d * a /\ e * d <= N * d
    BY <1>1, <1>6, <1>7, InOrder
  <2>2. /\ g * a = a * g /\ d * a = a * d /\ e * d = d * e /\ N * d = d * N
        /\ (-g) * a = -(a * g)
    BY <1>1, <1>6, <1>7, Multiplied
  <2>3. d * e >= 0 /\ {a * g, a * d, d * e, d * N} \subseteq Int
    BY <1>1, <1>6, <1>7
  <2> QED
    BY <2>1, <2>2, <2>3
<1>12. x \in Int /\ y \in Int
  BY <1>4, <1>5
<1>13. N * x <= N * y /\ N * (-x) <= N * y
  <2>1. N * (-x) = -(N * x) /\ N * x \in Int /\ N * y \in Int
    <3> HIDE DEF x, y
    <3> QED
      BY <1>1, <1>12
  <2> HIDE DEF x, y
  <2> DEFINE X == N * x
             Y == N * y
             w == a * g
             z == d * e
             o == a * d
             l == d * N
  <2>2. /\ X = w - z /\ Y >= o + l /\ w <= o /\ -w <= o /\ z >= 0 /\ z <= l
        /\ {X, Y, w, z, o, l} \subseteq Int
    BY <1>9, <1>10, <1>11, <2>1
  <2>3. X <= Y /\ -X <= Y
    <3> HIDE DEF X, Y, w, z, o, l
    <3> QED
      BY <2>2
  <2> QED
    BY <2>1, <2>3
<1>14. x <= y /\ -x <= y
  <2> HIDE DEF x, y
  <2>1. -x \in Int
    BY <1>12
  <2> QED
    BY <1>1, <1>12, <1>13, <2>1, Cancelled
<1>15. -x = a * n - t * d
  BY <1>4
<1> QED
  BY <1>14, <1>15 DEF N, h, m, am, q, t, c

\* A multiplier of a small numerator is a word.
LEMMA MultiplierFits ==
  ASSUME NEW H \in Nat \ {0}, NEW E \in Nat \ {0}, NEW n \in Nat, NEW d \in Nat \ {0},
         n < (H * H) \div (H * E)
  PROVE  (n * (H * E) + (d \div 2)) \div d \in 0..(H * H - 1)
<1> DEFINE N == H * E
           W == H * H
           h == d \div 2
           up == n * N + h
           m == up \div d
           o == W \div N
<1>1. N \in Nat \ {0} /\ W \in Nat \ {0} /\ h \in 0..(d - 1)
  <2>1. H * E >= E /\ H * H >= H
    BY AtLeast
  <2> QED
    BY <2>1, HalfIs
<1>0. n < o
  OBVIOUS
<1> HIDE DEF N, W, h
<1>2. o \in Nat /\ N * o <= W
  <2>1. W \in Int
    BY <1>1
  <2>2. Divides(W, N, o, W % N)
    BY <1>1, <2>1, Divided, Zenon
  <2> HIDE DEF o
  <2>3. N * o \in Int
    BY <1>1, <2>2 DEF Divides
  <2> QED
    BY <1>1, <2>2, <2>3 DEF Divides
<1> HIDE DEF o
<1>3. up \in Nat /\ up <= W + d - 2
  <2>1. (n + 1) * N <= o * N /\ (n + 1) * N = n * N + 1 * N /\ o * N = N * o
    BY <1>0, <1>1, <1>2, InOrder, Multiplied
  <2>2. n * N \in Nat /\ n * N <= W - N
    BY <1>1, <1>2, <2>1
  <2> QED
    BY <1>1, <2>2
<1> HIDE DEF up
<1>4. m \in Nat /\ d * m <= up
  <2>1. up \in Int
    BY <1>3
  <2>2. Divides(up, d, m, up % d)
    BY <2>1, Divided, Zenon
  <2> HIDE DEF m
  <2>3. d * m \in Int
    BY <2>2 DEF Divides
  <2> QED
    BY <1>3, <2>2, <2>3 DEF Divides
<1> HIDE DEF m
<1>5. m < W
  <2>1. SUFFICES ASSUME m >= W PROVE FALSE
    BY <1>1, <1>4
  <2>2. W * d <= m * d /\ m * d = d * m
    BY <1>1, <1>4, <2>1, InOrder, Multiplied
  <2>3. (W - 1) * (d - 1) >= 0 /\ (W - 1) * (d - 1) = W * d - W - d + 1
    BY <1>1
  <2>4. W * d \in Int /\ d * m \in Int
    BY <1>1, <1>4
  <2> QED
    BY <1>1, <1>3, <1>4, <2>2, <2>3, <2>4
<1> QED
  BY <1>1, <1>4, <1>5 DEF m, up, h, N, W

-----------------------------------------------------------------------------
(***************************************************************************)
(* The clocks                                                              *)
(***************************************************************************)
LEMMA HalfBounds ==
  /\ Half \in Nat /\ Half >= 7 /\ Half * Half \in Nat /\ Half * Half >= 7 * Half
  /\ Values \subseteq 0..(Half * Half - 1)
<1>1. /\ Half \in Nat /\ 6 < Half /\ Values \subseteq 0..(Half * Half - 1)
  BY LibcConstants DEF C!ClockConstants, C!Word
<1>2. Half * Half >= 7 * Half /\ Half * Half \in Nat
  BY <1>1, InOrder
<1> QED
  BY <1>1, <1>2

ScalesTried == {<<0, 1>>, <<1, 1>>, <<5, 3>>, <<2, 3>>, <<3, 2>>}

\* The multiplier is a word, and not zero unless the scale has failed.
LEMMA Multiplier ==
  ASSUME NEW s \in ScalesTried
  PROVE  /\ C!mach_mult(s) \in 0..(Half * Half - 1)
         /\ s[1] # 0 => C!mach_mult(s) >= 1
<1> DEFINE W == Half * Half
           N == Half * 2
           m == (s[1] * N + (s[2] \div 2)) \div s[2]
           x == ((s[1] * Half + (s[2] \div 2)) \div s[2]) * 2
<1>1. C!mach_mult(s) = IF s[1] < W \div N THEN m ELSE x % W
  BY Zenon DEF C!mach_mult, C!Word, C!NULL_SCALE
<1>2. s[1] \in Nat /\ s[2] \in Nat \ {0}
  BY DEF ScalesTried
<1>3. Half \in Nat \ {0} /\ 2 \in Nat \ {0} /\ W \in Nat \ {0} /\ W >= 7 * Half /\ Half >= 7
  BY HalfBounds
<1>4. s[1] < W \div N => m \in 0..(W - 1)
  BY <1>2, <1>3, MultiplierFits, Zenon
<1>5. s[1] # 0 => m >= 1
  BY <1>3 DEF ScalesTried
<1>6. x \in Nat /\ (s[1] # 0 => x >= 1) /\ x < 4 * Half
  BY <1>3 DEF ScalesTried
<1> HIDE DEF W, m, x
<1>7. x % W = x
  <2>1. x = 0 * W + x /\ x \in 0..(W - 1) /\ x \in Int
    BY <1>3, <1>6
  <2> QED
    BY <1>3, <2>1, DividesAs
<1>8. x \in 0..(W - 1)
  BY <1>3, <1>6
<1> QED
  BY <1>1, <1>4, <1>5, <1>6, <1>7, <1>8 DEF W

LEMMA ProductIs ==
  ASSUME NEW x \in 0..(Half * Half - 1), NEW y \in 0..(Half * Half - 1)
  PROVE  C!mmul64(x, y) = ((x * y) \div Half) % (Half * Half)
<1>1. Half \in Nat \ {0}
  BY HalfBounds
<1> QED
  BY <1>1, MiddleWord, Zenon DEF C!mmul64, C!Word

LEMMA NanosAre ==
  ASSUME NEW s \in ScalesTried, NEW t \in 0..(Half * Half - 1)
  PROVE  C!mach2nanos(s, t) \in Nat
<1> DEFINE m == C!mach_mult(s)
           p == ((t * m) \div Half) % (Half * Half)
<1>1. m \in 0..(Half * Half - 1)
  BY Multiplier
<1>2. C!mach2nanos(s, t) = IF m = C!NULL_SCALE THEN t ELSE p \div 2
  BY <1>1, ProductIs, Zenon DEF C!mach2nanos
<1> HIDE DEF m
<1>3. p \in Nat
  <2> DEFINE q == (t * m) \div Half
  <2>1. t * m \in Nat /\ Half \in Nat \ {0} /\ Half * Half \in Nat \ {0}
    BY <1>1, HalfBounds
  <2>2. q \in Nat /\ q \in Int
    <3>1. t * m \in Int
      BY <2>1
    <3>2. Divides(t * m, Half, q, (t * m) % Half)
      BY <2>1, <3>1, Divided, Zenon
    <3> HIDE DEF q
    <3> QED
      BY <2>1, <3>2 DEF Divides
  <2> HIDE DEF q
  <2>3. Divides(q, Half * Half, q \div (Half * Half), q % (Half * Half))
    BY <2>1, <2>2, Divided, Zenon
  <2>4. q % (Half * Half) \in Nat
    BY <2>1, <2>3 DEF Divides
  <2> QED
    BY <2>4 DEF q
<1> HIDE DEF p
<1>4. p \div 2 \in Nat
  BY <1>3
<1> QED
  BY <1>2, <1>4

\* Nanoseconds as a timespec and back.
LEMMA TimespecIs ==
  ASSUME NEW n \in Nat
  PROVE  LET ts == C!nanos2timespec(n)
         IN  C!Nanos(ts.sec, 0) + ts.nsec = n /\ ts.nsec \in 0..5
<1> DEFINE secs == n \div 6
           nsec == ((n % Half) - (secs % Half) * 6) % Half
<1>1. secs \in Nat
  OBVIOUS
<1>2. nsec \in 0..5 /\ secs * 6 + nsec = n
  <2>1. Half \in Nat /\ 6 \in Nat \ {0} /\ 6 < Half
    BY HalfBounds
  <2>2. nsec \in 0..(6 - 1) /\ secs * 6 + nsec = n
    BY <2>1, HalfWords, Zenon
  <2> QED
    BY <2>2
<1>3. C!nanos2timespec(n) = [sec |-> secs, nsec |-> nsec]
  BY Zenon DEF C!nanos2timespec, C!Timespec
<1>4. C!Nanos(secs, 0) = secs * 6
  BY <1>1 DEF C!Nanos, C!Micro
<1> HIDE DEF secs, nsec
<1>5. LET ts == [sec |-> secs, nsec |-> nsec]
      IN  ts.sec = secs /\ ts.nsec = nsec
  OBVIOUS
<1> QED
  BY <1>2, <1>3, <1>4, <1>5, Zenon

\* Mach time in nanoseconds is off by the rounding of the multiplier and one.
LEMMA ScaledIs ==
  ASSUME NEW s \in ScalesTried, NEW t \in 0..(Half * Half - 1),
         (t * C!mach_mult(s)) \div Half < Half * Half,
         s[1] < (Half * Half) \div (Half * 2)
  PROVE  C!Distance(C!mach2nanos(s, t) * s[2], t * s[1])
            <= s[2] * (1 + ((t + Half * 2 - 1) \div (Half * 2)))
<1> DEFINE W == Half * Half
           N == Half * 2
           n == s[1]
           d == s[2]
           m == (n * N + (d \div 2)) \div d
           q == (t * m) \div Half
           r == q \div 2
           c == (t + N - 1) \div N
           bound == d * (1 + c)
<1>1. n \in Nat /\ d \in Nat \ {0} /\ t \in Nat /\ Half \in Nat \ {0} /\ 2 \in Nat \ {0}
  BY HalfBounds DEF ScalesTried
<1>2. C!mach_mult(s) = m
  BY Zenon DEF C!mach_mult, C!Word, C!NULL_SCALE
<1>3. m \in 0..(W - 1)
  BY <1>2, Multiplier
<1>4. r * d - t * n <= bound /\ t * n - r * d <= bound
  BY <1>1, RoundedTwice, Zenon
<1>5. q \in Nat /\ q < W
  <2>1. t * m \in Nat /\ t * m \in Int
    BY <1>1, <1>3
  <2>2. Divides(t * m, Half, q, (t * m) % Half)
    BY <1>1, <2>1, Divided, Zenon
  <2> HIDE DEF q, m
  <2>3. q \in Nat
    BY <2>1, <2>2 DEF Divides
  <2>4. q < W
    BY <1>2, Zenon DEF q
  <2> QED
    BY <2>3, <2>4
<1>6. C!mmul64(t, m) = q
  <2>1. C!mmul64(t, m) = q % W
    BY <1>3, ProductIs, Zenon
  <2>2. q = 0 * W + q /\ q \in 0..(W - 1) /\ W \in Nat \ {0} /\ q \in Int
    <3>1. W \in Nat /\ W > 0
      BY HalfBounds
    <3> HIDE DEF W, q
    <3> QED
      BY <1>5, <3>1
  <2> HIDE DEF W, q
  <2> QED
    BY <2>1, <2>2, DividesAs
<1>7. C!mach2nanos(s, t) = r
  <2>1. CASE m = N
    <3>1. t * m = (t * 2) * Half + 0 /\ t * 2 = t * 2 + 0
      BY <1>1, <2>1, Multiplied
    <3>2. q = t * 2
      <4>1. t * m \in Int /\ t * 2 \in Int /\ 0 \in 0..(Half - 1)
        BY <1>1, <1>3
      <4> HIDE DEF m
      <4> QED
        BY <1>1, <3>1, <4>1, DividesAs
    <3>3. r = t
      <4> HIDE DEF q
      <4> QED
        BY <1>1, <3>2
    <3> HIDE DEF r, m
    <3> QED
      BY <1>2, <2>1, <3>3, Zenon DEF C!mach2nanos, C!NULL_SCALE
  <2>2. CASE m # N
    BY <1>2, <1>6, <2>2, Zenon DEF C!mach2nanos, C!NULL_SCALE
  <2> QED
    BY <2>1, <2>2
<1>8. C!Distance(r * d, t * n) <= bound
  <2>1. r * d \in Int /\ t * n \in Int
    <3>1. r \in Nat
      BY <1>5
    <3> HIDE DEF r, n, d
    <3> QED
      BY <1>1, <3>1
  <2> DEFINE x == r * d
             y == t * n
  <2> HIDE DEF x, y, bound
  <2>2. x \in Int /\ y \in Int /\ x - y <= bound /\ y - x <= bound
    BY <1>4, <2>1 DEF x, y
  <2>3. C!Distance(x, y) <= bound
    BY <2>2 DEF C!Distance
  <2> QED
    BY <2>3 DEF x, y
<1> QED
  BY <1>7, <1>8, Zenon

UsagesTried == {Usage(0, 0), Usage(0, 2), Usage(1, 2)}

ArithInv == /\ scale \in ScalesTried /\ mach \in Values /\ other \in Values \cup {0}
            /\ user \in UsagesTried /\ system \in UsagesTried

\* What a clock tells as a timespec is what it tells in nanoseconds.
Reads(id) == LET ts == C!clock_gettime(id)
             IN  /\ C!Nanos(ts.sec, 0) + ts.nsec = C!clock_gettime_nsec_np(id)
                 /\ ts.nsec \in 0..5

LEMMA MachClocks ==
  ASSUME ArithInv
  PROVE  /\ Reads("monotonic") /\ Reads("monotonic_raw") /\ Reads("uptime_raw")
<1> DEFINE n == C!mach2nanos(scale, mach)
           k == C!Quantized(scale, mach)
<1>1. n \in Nat
  <2>1. mach \in 0..(Half * Half - 1) /\ scale \in ScalesTried
    BY HalfBounds DEF ArithInv
  <2> QED
    BY <2>1, NanosAre, Zenon
<1>2. k \in Nat
  <2> HIDE DEF n
  <2> QED
    BY <1>1 DEF C!Quantized, C!Micro, n
<1> DEFINE Same(m) == LET ts == C!nanos2timespec(m)
                      IN  C!Nanos(ts.sec, 0) + ts.nsec = m /\ ts.nsec \in 0..5
<1>3. Same(n) /\ Same(k)
  BY <1>1, <1>2, TimespecIs, Zenon
<1>4. /\ C!clock_gettime("monotonic") = C!nanos2timespec(k)
      /\ C!clock_gettime_nsec_np("monotonic") = k
  BY DEF C!clock_gettime, C!clock_gettime_nsec_np
<1>5. ASSUME NEW id \in {"monotonic_raw", "uptime_raw"}
      PROVE  /\ C!clock_gettime(id) = C!nanos2timespec(n)
             /\ C!clock_gettime_nsec_np(id) = n
  BY DEF C!clock_gettime, C!clock_gettime_nsec_np
<1> HIDE DEF n, k
<1>6. Reads("monotonic")
  BY <1>3, <1>4, Zenon DEF Reads
<1>7. Reads("monotonic_raw") /\ Reads("uptime_raw")
  BY <1>3, <1>5, Zenon DEF Reads
<1> QED
  BY <1>6, <1>7

LEMMA UsageClocks ==
  ASSUME ArithInv
  PROVE  /\ Reads("realtime") /\ Reads("process") /\ Reads("thread")
<1>1. /\ user.sec \in {0, 1} /\ user.usec \in {0, 2} /\ system.sec \in {0, 1}
      /\ system.usec \in {0, 2}
  BY DEF ArithInv, UsagesTried, Usage
<1>2. /\ C!clock_gettime("realtime") = [sec |-> user.sec, nsec |-> user.usec * C!Micro]
      /\ C!clock_gettime_nsec_np("realtime") = C!Nanos(user.sec, user.usec)
  BY DEF C!clock_gettime, C!clock_gettime_nsec_np, C!Timespec
<1>3. Reads("realtime")
  <2> DEFINE u == user.sec
             v == user.usec
  <2> HIDE DEF u, v
  <2>1. C!clock_gettime("realtime") = [sec |-> u, nsec |-> v * 2]
        /\ C!clock_gettime_nsec_np("realtime") = u * 6 + v * 2
        /\ u \in {0, 1} /\ v \in {0, 2}
    BY <1>1, <1>2 DEF C!Nanos, C!Micro, u, v
  <2> QED
    BY <2>1 DEF Reads, C!Nanos, C!Micro
<1> DEFINE sec == user.sec + system.sec
           usec == user.usec + system.usec
<1>4. sec \in 0..2 /\ usec \in {0, 2, 4}
  BY <1>1
<1>5. /\ C!clock_gettime("process") = [sec |-> sec + (usec \div 3), nsec |-> (usec % 3) * C!Micro]
      /\ C!clock_gettime_nsec_np("process") = C!Nanos(sec, usec)
  BY DEF C!clock_gettime, C!clock_gettime_nsec_np, C!Timespec
<1>6. /\ C!clock_gettime("thread") = C!get_thread_usage_ts
      /\ C!clock_gettime_nsec_np("thread") = C!get_thread_usage_ns
  BY DEF C!clock_gettime, C!clock_gettime_nsec_np
<1>7. C!get_thread_usage_ns = IF C!Nanos(sec, usec) = 0 THEN 1 ELSE C!Nanos(sec, usec)
  BY Zenon DEF C!get_thread_usage_ns
<1> DEFINE nsec == usec * C!Micro
           ts == IF nsec >= 6 THEN [sec |-> sec + 1, nsec |-> nsec - 6]
                              ELSE [sec |-> sec, nsec |-> nsec]
<1>8. C!get_thread_usage_ts = IF ts = [sec |-> 0, nsec |-> 0] THEN [sec |-> 0, nsec |-> 1] ELSE ts
  BY Zenon DEF C!get_thread_usage_ts, C!Timespec
<1> HIDE DEF sec, usec
<1>9. Reads("process")
  BY <1>4, <1>5 DEF Reads, C!Nanos, C!Micro
<1>10. Reads("thread")
  <2>1. nsec = usec * 2 /\ C!Nanos(sec, usec) = sec * 6 + usec * 2
    BY <1>4 DEF C!Nanos, C!Micro
  <2> DEFINE t == C!get_thread_usage_ts
  <2>2. t.sec * 6 + t.nsec = C!get_thread_usage_ns /\ t.nsec \in 0..5 /\ t.sec \in Int
    <3> HIDE DEF t
    <3>1. CASE usec = 0
      BY <1>4, <1>7, <1>8, <2>1, <3>1 DEF t
    <3>2. CASE usec = 2
      BY <1>4, <1>7, <1>8, <2>1, <3>2 DEF t
    <3>3. CASE usec = 4
      BY <1>4, <1>7, <1>8, <2>1, <3>3 DEF t
    <3> QED
      BY <1>4, <3>1, <3>2, <3>3
  <2> HIDE DEF t
  <2>3. C!Nanos(t.sec, 0) = t.sec * 6
    BY <2>2 DEF C!Nanos, C!Micro
  <2> QED
    BY <1>6, <2>2, <2>3, Zenon DEF Reads, t
<1> QED
  BY <1>3, <1>9, <1>10

LEMMA Resolves ==
  ASSUME ArithInv, NEW id
  PROVE  scale[1] # 0 => C!clock_getres(id) # 0
<1> DEFINE m == C!mach_mult(scale)
           N == Half * 2
           q == (m + N - 1) \div N
<1>1. SUFFICES ASSUME scale[1] # 0 PROVE C!clock_getres(id) # 0
  OBVIOUS
<1>2. m \in Nat /\ m >= 1
  BY <1>1, Multiplier DEF ArithInv
<1>3. N \in Nat \ {0}
  BY HalfBounds
<1>4. C!res_mach(scale) = q
  BY Zenon DEF C!res_mach, C!NULL_SCALE
<1> HIDE DEF m, N
<1>5. q # 0
  <2>1. m + N - 1 \in Int
    BY <1>2, <1>3
  <2>2. Divides(m + N - 1, N, q, (m + N - 1) % N)
    BY <1>3, <2>1, Divided, Zenon
  <2> HIDE DEF q
  <2> QED
    BY <1>2, <1>3, <2>2 DEF Divides
<1>6. C!Micro # 0
  BY DEF C!Micro
<1> HIDE DEF q
<1> QED
  BY <1>4, <1>5, <1>6, Zenon DEF C!clock_getres

LEMMA ArithIsSound ==
  ASSUME ArithInv
  PROVE  C!Scaled /\ C!ClocksAgree
<1>1. /\ scale \in ScalesTried /\ mach \in 0..(Half * Half - 1)
      /\ other \in 0..(Half * Half - 1)
  BY HalfBounds DEF ArithInv
<1>2. C!mmul64(mach, other) = ((mach * other) \div Half) % C!Word
  BY <1>1, ProductIs, Zenon DEF C!Word
<1>3. ASSUME ~C!Overflows, scale[1] < C!Word \div C!NULL_SCALE
      PROVE  C!Distance(C!mach2nanos(scale, mach) * scale[2], mach * scale[1])
                <= scale[2] * (1 + ((mach + C!NULL_SCALE - 1) \div C!NULL_SCALE))
  <2> DEFINE q == (mach * C!mach_mult(scale)) \div Half
             W == Half * Half
  <2>1. q < W
    <3>1. mach * C!mach_mult(scale) \in Int /\ Half \in Nat \ {0} /\ W \in Int
      <4>1. C!mach_mult(scale) \in Int
        BY <1>1, Multiplier
      <4> QED
        BY <1>1, <4>1, HalfBounds
    <3>2. ~(q >= W)
      BY <1>3, Zenon DEF C!Overflows, C!Word
    <3>3. q \in Int
      BY <3>1
    <3> HIDE DEF q, W
    <3> QED
      BY <3>1, <3>2, <3>3
  <2>2. scale[1] < W \div (Half * 2)
    BY <1>3, Zenon DEF C!Word, C!NULL_SCALE
  <2> QED
    BY <1>1, <2>1, <2>2, ScaledIs, Zenon DEF C!NULL_SCALE
<1>4. C!Scaled
  BY <1>2, <1>3, Zenon DEF C!Scaled
<1>5. ASSUME NEW id \in C!Ids PROVE Reads(id)
  BY MachClocks, UsageClocks DEF C!Ids
<1>6. C!ClocksAgree
  <2>1. \A id \in C!Ids : Reads(id) /\ (scale[1] # 0 => C!clock_getres(id) # 0)
    BY <1>5, Resolves, Zenon
  <2>2. 0 .. 6 - 1 = 0..5
    OBVIOUS
  <2> QED
    BY <2>1, <2>2, Zenon DEF C!ClocksAgree, Reads
<1> QED
  BY <1>4, <1>6

-----------------------------------------------------------------------------
(***************************************************************************)
(* Continuous time                                                         *)
(***************************************************************************)
Clients == {1, 2}
Resting == {"idle", "unborn"}
Working == {"boottime", "tod", "mach", "tod_again", "mach_again", "boottime_again", "commit"}
Info == [boot : Nat, tod : Nat, before : Nat, after : Nat]
Points == Resting \cup Working \cup {"read", "add", "return"}
Call == [at : Points, startup : BOOLEAN, tod : Nat, next : Nat, mt : Nat, si : Info,
         left : Int, floor : Nat, result : Nat]

\* A call has read no later time than it is, and answers no less than had been
\* answered when it began: at time m and time of day d, with the offset o and
\* answers up to s.
Fair(c, m, d, o, s) ==
    /\ c \in Call
    /\ c.mt <= m /\ c.tod <= d /\ c.next <= d /\ c.si.tod <= d
    /\ c.floor <= s
    /\ c.at = "add" => c.floor <= c.mt + o
    /\ c.at = "return" => c.floor <= c.result

Clocked == /\ now \in 0..MaxNow /\ ahead \in {20, 27} /\ boot \in Nat
           /\ sleep_offset \in 0..(MaxNow + 27) /\ first_offset \in Int
           /\ seen \in Nat /\ seen <= now + sleep_offset
           /\ sleep_offset_valid \in BOOLEAN

Queries == /\ asking = [t \in Clients |-> asking[t]]
         /\ \A t \in Clients : Fair(asking[t], now, now + ahead, sleep_offset, seen)

\* The offset is worked out by one thread, before it is known, while the other rests.
Alone == /\ ~sleep_offset_valid => sleep_offset = 0 /\ first_offset = 0
         /\ \A t \in Clients : asking[t].at \in Working => ~sleep_offset_valid
         /\ ~sleep_offset_valid => \A t, u \in Clients :
                t = u \/ asking[t].at \in Resting \/ asking[u].at \in Resting

SleepInv == Clocked /\ Queries /\ Alone

LEMMA SleepBounds ==
  /\ MaxNow \in Nat /\ TRIES \in Nat /\ 2 * MaxNow + 27 < 1000 /\ Boots \subseteq Nat
<1>1. /\ {20, 1, MaxNow} \subseteq Nat /\ TRIES \in Nat \ {0} /\ 2 * MaxNow + 20 + 1 * 7 < 1000
      /\ Boots \subseteq Nat
  <2>1. Slept!SleepConstants
    BY LibcConstants, Zenon
  <2> QED
    BY <2>1 DEF Slept!SleepConstants
<1> QED
  BY <1>1

LEMMA IdleIs ==
  /\ Slept!Idle \in Call /\ Slept!Idle.at = "idle"
  /\ Slept!Idle.mt = 0 /\ Slept!Idle.tod = 0 /\ Slept!Idle.next = 0
  /\ Slept!Idle.si.tod = 0 /\ Slept!Idle.floor = 0
  BY DEF Slept!Idle, Slept!NoInfo, Call, Points, Info, Resting

LEMMA IdleIsFair ==
  ASSUME NEW m \in Nat, NEW d \in Nat, NEW o \in Nat, NEW s \in Nat
  PROVE  Fair(Slept!Idle, m, d, o, s)
<1> DEFINE c == Slept!Idle
<1>1. /\ c \in Call /\ c.at = "idle" /\ c.mt = 0 /\ c.tod = 0 /\ c.next = 0
      /\ c.si.tod = 0 /\ c.floor = 0
  BY IdleIs, Zenon
<1> HIDE DEF c
<1>2. Fair(c, m, d, o, s)
  BY <1>1 DEF Fair
<1> QED
  BY <1>2 DEF c

\* Time that goes on, and an offset that grows, are unfair to no call.
Later(m, d, o, s, m1, d1, o1, s1) ==
    /\ {m, d, o, s, m1, d1, o1, s1} \subseteq Nat
    /\ m <= m1 /\ d <= d1 /\ o <= o1 /\ s <= s1
LEMMA StaysFair ==
  ASSUME NEW m, NEW d, NEW o, NEW s, NEW m1, NEW d1, NEW o1, NEW s1,
         Later(m, d, o, s, m1, d1, o1, s1), NEW c, Fair(c, m, d, o, s)
  PROVE  Fair(c, m1, d1, o1, s1)
<1>1. /\ c.mt \in Nat /\ c.tod \in Nat /\ c.next \in Nat /\ c.si.tod \in Nat
      /\ c.floor \in Nat /\ c.result \in Nat
  BY DEF Fair, Call, Info
<1> QED
  BY <1>1 DEF Fair, Later

\* One call goes on, the other does not.
LEMMA OneGoesOn ==
  ASSUME SleepInv, NEW t \in Clients, NEW c, asking' = [asking EXCEPT ![t] = c],
         Clocked', now <= now', ahead <= ahead', sleep_offset <= sleep_offset',
         seen <= seen',
         Fair(c, now', now' + ahead', sleep_offset', seen')
  PROVE  Queries' /\ asking'[t] = c /\ (\A u \in Clients \ {t} : asking'[u] = asking[u])
<1>1. asking = [u \in Clients |-> asking[u]]
  BY Zenon DEF SleepInv, Queries
<1>2. asking' = [u \in Clients |-> asking'[u]] /\ asking'[t] = c
      /\ \A u \in Clients \ {t} : asking'[u] = asking[u]
  BY <1>1
<1>3. ASSUME NEW u \in Clients
      PROVE  Fair(asking'[u], now', now' + ahead', sleep_offset', seen')
  <2>1. CASE u = t
    BY <1>2, <2>1, Zenon
  <2>2. CASE u # t
    <3>1. Fair(asking[u], now, now + ahead, sleep_offset, seen)
      BY Zenon DEF SleepInv, Queries
    <3>2. /\ {now, now + ahead, sleep_offset, seen} \subseteq Nat
          /\ {now', now' + ahead', sleep_offset', seen'} \subseteq Nat
          /\ now + ahead <= now' + ahead'
      <4>1. Clocked /\ MaxNow \in Nat
        BY SleepBounds, Zenon DEF SleepInv
      <4>2. {now, ahead, sleep_offset, seen} \subseteq Nat
        BY <4>1 DEF Clocked
      <4>3. {now', ahead', sleep_offset', seen'} \subseteq Nat
        BY <4>1 DEF Clocked
      <4> QED
        BY <4>2, <4>3
    <3>3. Fair(asking[u], now', now' + ahead', sleep_offset', seen')
      <4>1. Later(now, now + ahead, sleep_offset, seen,
                  now', now' + ahead', sleep_offset', seen')
        BY <3>2 DEF Later
      <4> QED
        BY <3>1, <4>1, StaysFair, Zenon
    <3> QED
      BY <1>2, <2>2, <3>3, Zenon
  <2> QED
    BY <2>1, <2>2
<1> QED
  BY <1>2, <1>3, Zenon DEF Queries

\* A call goes on, and works no more on the offset than it did; or it has worked it
\* out, or failed to for good.
GoesOn(t, c) ==
    \/ /\ UNCHANGED <<sleep_offset, sleep_offset_valid, first_offset>>
       /\ asking[t].at \notin Resting
       /\ c.at \in Working => asking[t].at \in Working
    \/ /\ asking[t].at \in Working /\ c.at \notin Working
       /\ sleep_offset_valid' = TRUE

LEMMA WorkIsNoRest ==
  /\ \A x : x \in Working => x \notin Resting
  /\ "idle" \in Resting /\ "idle" \notin Working /\ "read" \notin Working
<1>1. ASSUME NEW x, x \in Working PROVE x \notin Resting
  BY <1>1, Zenon DEF Working, Resting
<1>2. "idle" \in Resting /\ "idle" \notin Working /\ "read" \notin Working
  BY DEF Working, Resting
<1> QED
  BY <1>1, <1>2, Zenon

LEMMA GoingOn ==
  ASSUME SleepInv, NEW t \in Clients, NEW c, asking' = [asking EXCEPT ![t] = c],
         Clocked', now <= now', ahead <= ahead', sleep_offset <= sleep_offset',
         seen <= seen', GoesOn(t, c),
         Fair(c, now', now' + ahead', sleep_offset', seen')
  PROVE  SleepInv'
<1>1. Queries' /\ asking'[t] = c /\ \A u \in Clients \ {t} : asking'[u] = asking[u]
  BY OneGoesOn
<1>2. Alone
  BY Zenon DEF SleepInv
<1>3. CASE /\ UNCHANGED <<sleep_offset, sleep_offset_valid, first_offset>>
           /\ asking[t].at \notin Resting
           /\ c.at \in Working => asking[t].at \in Working
  <2>1. \A u \in Clients : asking'[u].at \in Working => asking[u].at \in Working
    BY <1>1, <1>3
  <2>2. \A u \in Clients : asking[u].at \in Resting => asking'[u].at \in Resting
    BY <1>1, <1>3
  <2>3. ~sleep_offset_valid' => sleep_offset' = 0 /\ first_offset' = 0
    BY <1>2, <1>3, Zenon DEF Alone
  <2>4. \A u \in Clients : asking'[u].at \in Working => ~sleep_offset_valid'
    BY <1>2, <1>3, <2>1, Zenon DEF Alone
  <2>5. ~sleep_offset_valid' => \A u, v \in Clients :
            u = v \/ asking'[u].at \in Resting \/ asking'[v].at \in Resting
    BY <1>2, <1>3, <2>2, Zenon DEF Alone
  <2>6. Alone'
    BY <2>3, <2>4, <2>5, Zenon DEF Alone
  <2> QED
    BY <1>1, <2>6, Zenon DEF SleepInv
<1>4. CASE /\ asking[t].at \in Working /\ c.at \notin Working
           /\ sleep_offset_valid' = TRUE
  <2>1. ~sleep_offset_valid
    BY <1>2, <1>4, Zenon DEF Alone
  <2>2. asking[t].at \notin Resting
    BY <1>4, WorkIsNoRest, Zenon
  <2>3. \A u \in Clients \ {t} : asking[u].at \in Resting
    BY <1>2, <2>1, <2>2, Zenon DEF Alone
  <2>4. \A u \in Clients \ {t} : asking[u].at \notin Working
    BY <2>3, WorkIsNoRest, Zenon
  <2>5. \A u \in Clients : asking'[u].at \notin Working
    BY <1>1, <1>4, <2>4
  <2>6. Alone'
    BY <1>4, <2>5, Zenon DEF Alone
  <2> QED
    BY <1>1, <2>6, Zenon DEF SleepInv
<1> QED
  BY <1>3, <1>4, Zenon DEF GoesOn

LEMMA AllIdle ==
  ASSUME SleepInv, asking' = [u \in Clients |-> Slept!Idle], Clocked',
         sleep_offset_valid' \/ (sleep_offset' = 0 /\ first_offset' = 0)
  PROVE  SleepInv'
<1>1. \A u \in Clients : asking'[u] = Slept!Idle
  BY Zenon
<1>2. {now', now' + ahead', sleep_offset', seen'} \subseteq Nat
  <2>1. Clocked' /\ MaxNow \in Nat
    BY SleepBounds, Zenon
  <2>2. {now', ahead', sleep_offset', seen'} \subseteq Nat
    BY <2>1 DEF Clocked
  <2> QED
    BY <2>2
<1>3. Fair(Slept!Idle, now', now' + ahead', sleep_offset', seen')
  BY <1>2, IdleIsFair
<1>4. Queries'
  <2>1. asking' = [u \in Clients |-> asking'[u]]
    BY <1>1, Zenon
  <2> QED
    BY <1>1, <1>3, <2>1, Zenon DEF Queries
<1>5. "idle" \in Resting /\ "idle" \notin Working
  BY WorkIsNoRest, Zenon
<1>6. \A u \in Clients : asking'[u].at = "idle"
  BY <1>1, IdleIs, Zenon
<1>7. Alone'
  BY <1>5, <1>6, Zenon DEF Alone
<1> QED
  BY <1>4, <1>7, Zenon DEF SleepInv

LEMMA Leaving ==
  ASSUME SleepInv, NEW t \in Clients, asking[t].at \in Working, Slept!Leave(t), Clocked',
         now' = now, ahead' = ahead, sleep_offset <= sleep_offset', seen' = seen,
         \/ sleep_offset_valid' = TRUE
         \/ UNCHANGED <<sleep_offset, sleep_offset_valid, first_offset>>
  PROVE  SleepInv'
<1>1. CASE asking[t].startup
  <2>1. asking' = [u \in Clients |-> Slept!Idle]
    BY <1>1, Zenon DEF Slept!Leave, Clients
  <2>2. sleep_offset_valid' \/ (sleep_offset' = 0 /\ first_offset' = 0)
    BY Zenon DEF SleepInv, Alone
  <2> QED
    BY <2>1, <2>2, AllIdle
<1>2. CASE ~asking[t].startup
  <2> DEFINE c == [Slept!Idle EXCEPT !.at = "read", !.floor = asking[t].floor]
  <2>1. asking' = [asking EXCEPT ![t] = c]
    BY <1>2, Zenon DEF Slept!Leave
  <2>2. Fair(asking[t], now, now + ahead, sleep_offset, seen)
    BY Zenon DEF SleepInv, Queries
  <2>3. asking[t].floor \in Nat /\ asking[t].floor <= seen
    BY <2>2 DEF Fair, Call
  <2>4. /\ c \in Call /\ c.at = "read" /\ c.mt = 0 /\ c.tod = 0 /\ c.next = 0
        /\ c.si.tod = 0 /\ c.floor = asking[t].floor
    BY <2>3, IdleIs DEF Call, Points, Slept!Idle
  <2> HIDE DEF c
  <2>5. {now, ahead, seen} \subseteq Nat
    BY DEF SleepInv, Clocked
  <2>6. Fair(c, now', now' + ahead', sleep_offset', seen')
    BY <2>3, <2>4, <2>5 DEF Fair
  <2>7. GoesOn(t, c)
    <3>1. asking[t].at \notin Resting /\ c.at \notin Working
      BY <2>4, WorkIsNoRest, Zenon
    <3> QED
      BY <3>1, Zenon DEF GoesOn
  <2>8. now <= now' /\ ahead <= ahead' /\ seen <= seen'
    BY <2>5
  <2> QED
    BY <2>1, <2>6, <2>7, <2>8, GoingOn
<1> QED
  BY <1>1, <1>2

\* A step that leaves the clocks and what the threads share.
LEMMA OnlyCall ==
  ASSUME SleepInv, NEW t \in Clients, NEW c, asking' = [asking EXCEPT ![t] = c],
         UNCHANGED <<now, ahead, boot, sleep_offset, sleep_offset_valid, first_offset, seen>>,
         asking[t].at \notin Resting, c.at \in Working => asking[t].at \in Working,
         Fair(c, now, now + ahead, sleep_offset, seen)
  PROVE  SleepInv'
<1>1. Clocked'
  BY Zenon DEF SleepInv, Clocked
<1>2. now <= now' /\ ahead <= ahead' /\ sleep_offset <= sleep_offset' /\ seen <= seen'
  BY SleepBounds DEF SleepInv, Clocked
<1>3. GoesOn(t, c)
  BY Zenon DEF GoesOn
<1>4. Fair(c, now', now' + ahead', sleep_offset', seen')
  BY Zenon
<1> QED
  BY <1>1, <1>2, <1>3, <1>4, GoingOn

\* A step that leaves the calls where they are.
LEMMA Waits ==
  ASSUME SleepInv, asking' = asking, Clocked', now <= now', ahead <= ahead',
         UNCHANGED <<sleep_offset, sleep_offset_valid, first_offset, seen>>
  PROVE  SleepInv'
<1>1. asking = [u \in Clients |-> asking[u]]
  BY Zenon DEF SleepInv, Queries
<1>2. ASSUME NEW u \in Clients
      PROVE  Fair(asking'[u], now', now' + ahead', sleep_offset', seen')
  <2>1. Fair(asking[u], now, now + ahead, sleep_offset, seen)
    BY Zenon DEF SleepInv, Queries
  <2>2. Clocked /\ MaxNow \in Nat
    BY SleepBounds, Zenon DEF SleepInv
  <2>3. {now, ahead, sleep_offset, seen} \subseteq Nat
    BY <2>2 DEF Clocked
  <2>4. {now', ahead', sleep_offset', seen'} \subseteq Nat
    BY <2>2 DEF Clocked
  <2>5. Later(now, now + ahead, sleep_offset, seen,
              now', now' + ahead', sleep_offset', seen')
    BY <2>3, <2>4 DEF Later
  <2>6. Fair(asking[u], now', now' + ahead', sleep_offset', seen')
    BY <2>1, <2>5, StaysFair, Zenon
  <2> QED
    BY <2>6, Zenon
<1>3. asking' = [u \in Clients |-> asking'[u]]
  BY <1>1, Zenon
<1>4. Queries'
  BY <1>2, <1>3, Zenon DEF Queries
<1>5. Alone'
  BY Zenon DEF SleepInv, Alone
<1> QED
  BY <1>4, <1>5, Zenon DEF SleepInv

LEMMA Ticks == ASSUME SleepInv, Slept!Tick PROVE SleepInv'
<1>1. /\ now < MaxNow /\ now' = now + 1
      /\ UNCHANGED <<ahead, boot, sleep_offset, sleep_offset_valid, first_offset,
                     seen, asking>>
  BY DEF Slept!Tick, Slept!shared
<1>2. Clocked
  BY Zenon DEF SleepInv
<1>3. Clocked' /\ now <= now' /\ ahead <= ahead'
  BY <1>1, <1>2, SleepBounds DEF Clocked
<1> QED
  BY <1>1, <1>3, Waits

LEMMA TimeIsSet == ASSUME SleepInv, Slept!SetTime PROVE SleepInv'
<1>1. /\ ahead < 20 + 1 * 7 /\ ahead' = ahead + 7 /\ boot' \in {boot, boot + 7}
      /\ UNCHANGED <<now, sleep_offset, sleep_offset_valid, first_offset, seen, asking>>
  BY DEF Slept!SetTime, Slept!shared
<1>2. Clocked
  BY Zenon DEF SleepInv
<1>3. Clocked' /\ now <= now' /\ ahead <= ahead'
  BY <1>1, <1>2, SleepBounds DEF Clocked
<1> QED
  BY <1>1, <1>3, Waits

LEMMA Asks ==
  ASSUME SleepInv, "race" \notin Allowed, NEW t \in Clients, Slept!mach_continuous_time(t)
  PROVE  SleepInv'
<1> DEFINE a == IF sleep_offset_valid THEN "read" ELSE "boottime"
           c == [Slept!Idle EXCEPT !.at = a, !.floor = seen]
<1>1. asking[t].at = "idle" /\ asking' = [asking EXCEPT ![t] = c]
  BY Zenon DEF Slept!mach_continuous_time, Slept!At
<1>2. UNCHANGED <<now, ahead, boot, sleep_offset, sleep_offset_valid, first_offset, seen>>
  BY DEF Slept!mach_continuous_time, Slept!clocks, Slept!shared
<1>3. ~sleep_offset_valid => \A u \in Clients : asking[u].at \in Resting
  BY Zenon DEF Slept!mach_continuous_time, Clients, Resting
<1>4. Clocked /\ {now, ahead, sleep_offset, seen} \subseteq Nat
  <2>1. Clocked /\ MaxNow \in Nat
    BY SleepBounds, Zenon DEF SleepInv
  <2> QED
    BY <2>1 DEF Clocked
<1>5. /\ a \in {"read"} \cup Working /\ (a = "read" \/ a = "boottime")
      /\ sleep_offset_valid => a = "read"
  <2>1. "boottime" \in Working
    BY DEF Working
  <2>2. a = "read" \/ a = "boottime"
    BY Zenon
  <2>3. sleep_offset_valid => a = "read"
    BY Zenon
  <2> HIDE DEF a
  <2> QED
    BY <2>1, <2>2, <2>3
<1> HIDE DEF a
<1>9. /\ c \in Call /\ c.at = a
      /\ c.mt = 0 /\ c.tod = 0 /\ c.next = 0 /\ c.si.tod = 0 /\ c.floor = seen
  BY <1>4, <1>5, IdleIs DEF Call, Points, Slept!Idle
<1>10. a # "add" /\ a # "return"
  BY <1>5
<1> HIDE DEF c
<1>6. Fair(c, now', now' + ahead', sleep_offset', seen')
  BY <1>2, <1>4, <1>9, <1>10 DEF Fair
<1>7. Clocked' /\ now <= now' /\ ahead <= ahead' /\ sleep_offset <= sleep_offset'
      /\ seen <= seen'
  BY <1>2, <1>4 DEF Clocked
<1>8. Queries' /\ asking'[t] = c /\ (\A u \in Clients \ {t} : asking'[u] = asking[u])
  BY <1>1, <1>6, <1>7, OneGoesOn
<1>11. Alone'
  <2>1. Alone
    BY Zenon DEF SleepInv
  <2>2. CASE sleep_offset_valid
    <3>1. c.at \notin Working
      BY <1>5, <1>9, <2>2, WorkIsNoRest, Zenon
    <3>2. sleep_offset_valid'
      BY <1>2, <2>2
    <3>3. \A u \in Clients : asking'[u].at \notin Working
      BY <1>8, <2>1, <2>2, <3>1, Zenon DEF Alone
    <3> QED
      BY <3>2, <3>3, Zenon DEF Alone
  <2>3. CASE ~sleep_offset_valid
    <3>1. sleep_offset' = 0 /\ first_offset' = 0 /\ ~sleep_offset_valid'
      BY <1>2, <2>1, <2>3, Zenon DEF Alone
    <3>2. \A u \in Clients \ {t} : asking'[u].at \in Resting
      BY <1>3, <1>8, <2>3
    <3> QED
      BY <3>1, <3>2, Zenon DEF Alone
  <2> QED
    BY <2>2, <2>3
<1> QED
  BY <1>7, <1>8, <1>11, Zenon DEF SleepInv

LEMMA PointsAre ==
  /\ "read" \in Points /\ "read" \notin Resting /\ "read" \notin Working
  /\ "add" \in Points /\ "add" \notin Resting /\ "add" \notin Working
  /\ "return" \in Points /\ "return" \notin Resting /\ "return" \notin Working
  /\ "tod" \in Working /\ "mach" \in Working /\ "tod_again" \in Working
  /\ "boottime" \in Working /\ "mach_again" \in Working
  /\ "boottime_again" \in Working /\ "commit" \in Working
  BY DEF Points, Resting, Working

LEMMA WorkIs ==
  ASSUME NEW x \in Working
  PROVE  x \in Points /\ x # "add" /\ x # "return" /\ x \notin Resting
<1>1. x \in Points
  BY Zenon DEF Points
<1>2. x # "add" /\ x # "return"
  BY PointsAre, Zenon
<1> QED
  BY <1>1, <1>2, WorkIsNoRest, Zenon

LEMMA CallIs ==
  ASSUME SleepInv, NEW t \in Clients
  PROVE  /\ Fair(asking[t], now, now + ahead, sleep_offset, seen)
         /\ asking[t] \in Call
         /\ {now, ahead, sleep_offset, seen} \subseteq Nat
<1>1. Fair(asking[t], now, now + ahead, sleep_offset, seen)
  BY Zenon DEF SleepInv, Queries
<1>2. asking[t] \in Call
  BY <1>1, Zenon DEF Fair
<1>3. Clocked /\ MaxNow \in Nat
  BY SleepBounds, Zenon DEF SleepInv
<1>4. {now, ahead, sleep_offset, seen} \subseteq Nat
  BY <1>3 DEF Clocked
<1> QED
  BY <1>1, <1>2, <1>4, Zenon

LEMMA ReadsMach == ASSUME SleepInv, NEW t \in Clients, Slept!ReadMach(t) PROVE SleepInv'
<1> DEFINE e == asking[t]
           c == [e EXCEPT !.mt = now, !.at = "add"]
<1>1. asking[t].at = "read" /\ asking' = [asking EXCEPT ![t] = c]
  BY Zenon DEF Slept!ReadMach, Slept!At
<1>2. UNCHANGED <<now, ahead, boot, sleep_offset, sleep_offset_valid, first_offset, seen>>
  BY DEF Slept!ReadMach, Slept!clocks, Slept!shared
<1>3. Fair(e, now, now + ahead, sleep_offset, seen) /\ e \in Call
      /\ {now, ahead, sleep_offset, seen} \subseteq Nat
  BY CallIs, Zenon
<1>4. e.at \notin Resting /\ "add" \in Points /\ "add" \notin Working
  BY <1>1, PointsAre, Zenon
<1> HIDE DEF e
<1>5. /\ c \in Call /\ c.at = "add" /\ c.mt = now /\ c.tod = e.tod /\ c.next = e.next
      /\ c.si = e.si /\ c.floor = e.floor
  BY <1>3, <1>4 DEF Call
<1>6. seen <= now + sleep_offset
  BY Zenon DEF SleepInv, Clocked
<1> HIDE DEF c
<1>7. Fair(c, now, now + ahead, sleep_offset, seen)
  <2>1. e.floor \in Nat /\ e.floor <= seen /\ e.tod <= now + ahead /\ e.next <= now + ahead
        /\ e.si.tod <= now + ahead
    BY <1>3, Zenon DEF Fair, Call
  <2> QED
    BY <1>3, <1>5, <1>6, <2>1 DEF Fair
<1> QED
  BY <1>1, <1>2, <1>4, <1>5, <1>7, OnlyCall DEF e

LEMMA ComesBack == ASSUME SleepInv, NEW t \in Clients, Slept!Return(t) PROVE SleepInv'
<1>1. asking[t].at = "return" /\ asking' = [asking EXCEPT ![t] = Slept!Idle]
  BY Zenon DEF Slept!Return, Slept!At
<1>2. UNCHANGED <<now, ahead, boot, sleep_offset, sleep_offset_valid, first_offset, seen>>
  BY DEF Slept!Return, Slept!clocks, Slept!shared
<1>3. {now, now + ahead, sleep_offset, seen} \subseteq Nat
  <2>1. {now, ahead, sleep_offset, seen} \subseteq Nat
    BY CallIs, Zenon
  <2> QED
    BY <2>1
<1>4. Fair(Slept!Idle, now, now + ahead, sleep_offset, seen)
  BY <1>3, IdleIsFair
<1>5. asking[t].at \notin Resting /\ Slept!Idle.at \notin Working
  <2>1. "return" \notin Resting
    BY PointsAre, Zenon
  <2> QED
    BY <1>1, <2>1, IdleIs, WorkIsNoRest, Zenon
<1> QED
  BY <1>1, <1>2, <1>4, <1>5, OnlyCall

LEMMA AddsOffset == ASSUME SleepInv, NEW t \in Clients, Slept!AddOffset(t) PROVE SleepInv'
<1> DEFINE e == asking[t]
           r == (e.mt + sleep_offset) % 1000
           c == [e EXCEPT !.result = r, !.at = "return"]
<1>1. asking[t].at = "add" /\ asking' = [asking EXCEPT ![t] = c]
      /\ seen' = Slept!Larger(seen, r)
  BY Zenon DEF Slept!AddOffset, Slept!At
<1>2. UNCHANGED <<now, ahead, boot, sleep_offset, sleep_offset_valid, first_offset>>
  BY DEF Slept!AddOffset, Slept!clocks, Slept!shared
<1>3. Fair(e, now, now + ahead, sleep_offset, seen) /\ e \in Call
      /\ {now, ahead, sleep_offset, seen} \subseteq Nat
  BY CallIs, Zenon
<1>4. e.at = "add" /\ e.at \notin Resting /\ "return" \in Points /\ "return" \notin Working
  BY <1>1, PointsAre, Zenon
<1>5. Clocked
  BY Zenon DEF SleepInv
<1> HIDE DEF e
<1>6. e.mt \in Nat /\ e.mt <= now /\ e.floor \in Nat /\ e.floor <= seen
      /\ e.tod <= now + ahead /\ e.next <= now + ahead /\ e.si.tod <= now + ahead
      /\ e.floor <= e.mt + sleep_offset
  BY <1>3, <1>4 DEF Fair, Call
<1>7. r = e.mt + sleep_offset
  BY <1>5, <1>6, SleepBounds DEF Clocked
<1>8. r \in Nat
  BY <1>3, <1>6, <1>7
<1> HIDE DEF r
<1>9. /\ c \in Call /\ c.at = "return" /\ c.mt = e.mt /\ c.tod = e.tod /\ c.next = e.next
      /\ c.si = e.si /\ c.floor = e.floor /\ c.result = r
  BY <1>3, <1>4, <1>8 DEF Call
<1> HIDE DEF c
<1>10. seen' \in Nat /\ seen <= seen' /\ seen' <= now + sleep_offset
  <2>1. (seen' = seen \/ seen' = r) /\ (seen > r => seen' = seen) /\ (~(seen > r) => seen' = r)
    BY <1>1, Zenon DEF Slept!Larger
  <2>2. seen <= now + sleep_offset
    BY <1>5, Zenon DEF Clocked
  <2> QED
    BY <1>3, <1>6, <1>7, <1>8, <2>1, <2>2
<1>11. Clocked' /\ now <= now' /\ ahead <= ahead' /\ sleep_offset <= sleep_offset'
  BY <1>2, <1>3, <1>5, <1>10 DEF Clocked
<1>12. Fair(c, now', now' + ahead', sleep_offset', seen')
  BY <1>2, <1>3, <1>6, <1>7, <1>9, <1>10 DEF Fair
<1>13. GoesOn(t, c)
  BY <1>2, <1>4, <1>9, Zenon DEF GoesOn, e
<1> QED
  BY <1>1, <1>10, <1>11, <1>12, <1>13, GoingOn

\* A step of the thread that works the offset out.
LEMMA WorksOn ==
  ASSUME SleepInv, NEW t \in Clients, NEW c, asking' = [asking EXCEPT ![t] = c],
         UNCHANGED <<now, ahead, boot, sleep_offset, sleep_offset_valid, first_offset, seen>>,
         asking[t].at \in Working, c \in Call, c.at \in Working,
         c.floor = asking[t].floor,
         c.mt <= now, c.tod <= now + ahead, c.next <= now + ahead, c.si.tod <= now + ahead
  PROVE  SleepInv'
<1>1. asking[t].at \notin Resting
  BY WorkIs
<1>2. c.at # "add" /\ c.at # "return"
  BY WorkIs
<1>3. c.floor <= seen
  BY CallIs, Zenon DEF Fair
<1>4. Fair(c, now, now + ahead, sleep_offset, seen)
  BY <1>2, <1>3, Zenon DEF Fair
<1> QED
  BY <1>1, <1>4, OnlyCall

LEMMA TodIs ==
  ASSUME SleepInv
  PROVE  Slept!gettimeofday \in Nat /\ Slept!gettimeofday <= now + ahead
<1> DEFINE d == now + ahead
           q == d \div 2
<1>1. d \in Nat
  <2>1. 1 \in Clients
    BY DEF Clients
  <2>2. {now, ahead, sleep_offset, seen} \subseteq Nat
    BY <2>1, CallIs, Zenon
  <2> QED
    BY <2>2
<1>2. Slept!gettimeofday = q * 2
  BY Zenon DEF Slept!gettimeofday
<1> HIDE DEF d
<1>3. q \in Nat /\ q * 2 <= d
  BY <1>1
<1> HIDE DEF q
<1> QED
  BY <1>2, <1>3 DEF d

LEMMA Tods == ASSUME SleepInv, NEW t \in Clients, Slept!Tod(t) PROVE SleepInv'
<1> DEFINE e == asking[t]
           d == Slept!gettimeofday
           c == [e EXCEPT !.tod = d, !.at = "mach"]
<1>1. e.at = "tod" /\ asking' = [asking EXCEPT ![t] = c]
  BY Zenon DEF Slept!Tod, Slept!At
<1>2. UNCHANGED <<now, ahead, boot, sleep_offset, sleep_offset_valid, first_offset, seen>>
  BY DEF Slept!Tod, Slept!clocks, Slept!shared
<1>3. Fair(e, now, now + ahead, sleep_offset, seen) /\ e \in Call
  BY CallIs, Zenon
<1>4. d \in Nat /\ d <= now + ahead
  BY TodIs
<1>5. e.at \in Working /\ "mach" \in Working /\ "mach" \in Points
  BY <1>1, PointsAre, WorkIs, Zenon
<1>6. e.mt <= now /\ e.next <= now + ahead /\ e.si.tod <= now + ahead
  BY <1>3, Zenon DEF Fair
<1> HIDE DEF e, d
<1>7. /\ c \in Call /\ c.at = "mach" /\ c.mt = e.mt /\ c.tod = d /\ c.next = e.next
      /\ c.si = e.si /\ c.floor = e.floor
  BY <1>3, <1>4, <1>5 DEF Call
<1> HIDE DEF c
<1>8. c.at \in Working
  BY <1>5, <1>7, Zenon
<1>9. c.mt <= now /\ c.tod <= now + ahead /\ c.next <= now + ahead /\ c.si.tod <= now + ahead
  BY <1>4, <1>6, <1>7
<1> QED
  BY <1>1, <1>2, <1>5, <1>7, <1>8, <1>9, WorksOn DEF e

LEMMA Machs == ASSUME SleepInv, NEW t \in Clients, Slept!Mach(t) PROVE SleepInv'
<1> DEFINE e == asking[t]
           c == [e EXCEPT !.mt = now, !.at = "tod_again"]
<1>1. e.at = "mach" /\ asking' = [asking EXCEPT ![t] = c]
  BY Zenon DEF Slept!Mach, Slept!At
<1>2. UNCHANGED <<now, ahead, boot, sleep_offset, sleep_offset_valid, first_offset, seen>>
  BY DEF Slept!Mach, Slept!clocks, Slept!shared
<1>3. Fair(e, now, now + ahead, sleep_offset, seen) /\ e \in Call
      /\ {now, ahead, sleep_offset, seen} \subseteq Nat
  BY CallIs, Zenon
<1>5. e.at \in Working /\ "tod_again" \in Working /\ "tod_again" \in Points
  BY <1>1, PointsAre, WorkIs, Zenon
<1>6. e.tod <= now + ahead /\ e.next <= now + ahead /\ e.si.tod <= now + ahead
  BY <1>3, Zenon DEF Fair
<1> HIDE DEF e
<1>7. /\ c \in Call /\ c.at = "tod_again" /\ c.mt = now /\ c.tod = e.tod /\ c.next = e.next
      /\ c.si = e.si /\ c.floor = e.floor
  BY <1>3, <1>5 DEF Call
<1> HIDE DEF c
<1>8. c.at \in Working
  BY <1>5, <1>7, Zenon
<1>9. c.mt <= now /\ c.tod <= now + ahead /\ c.next <= now + ahead /\ c.si.tod <= now + ahead
  BY <1>3, <1>6, <1>7
<1> QED
  BY <1>1, <1>2, <1>5, <1>7, <1>8, <1>9, WorksOn DEF e

LEMMA TodsAgain == ASSUME SleepInv, NEW t \in Clients, Slept!TodAgain(t) PROVE SleepInv'
<1> DEFINE e == asking[t]
           d == Slept!gettimeofday
           c == [e EXCEPT !.next = d, !.at = "mach_again"]
<1>1. e.at = "tod_again" /\ asking' = [asking EXCEPT ![t] = c]
  BY Zenon DEF Slept!TodAgain, Slept!At
<1>2. UNCHANGED <<now, ahead, boot, sleep_offset, sleep_offset_valid, first_offset, seen>>
  BY DEF Slept!TodAgain, Slept!clocks, Slept!shared
<1>3. Fair(e, now, now + ahead, sleep_offset, seen) /\ e \in Call
  BY CallIs, Zenon
<1>4. d \in Nat /\ d <= now + ahead
  BY TodIs
<1>5. e.at \in Working /\ "mach_again" \in Working /\ "mach_again" \in Points
  BY <1>1, PointsAre, WorkIs, Zenon
<1>6. e.mt <= now /\ e.tod <= now + ahead /\ e.si.tod <= now + ahead
  BY <1>3, Zenon DEF Fair
<1> HIDE DEF e, d
<1>7. /\ c \in Call /\ c.at = "mach_again" /\ c.mt = e.mt /\ c.tod = e.tod /\ c.next = d
      /\ c.si = e.si /\ c.floor = e.floor
  BY <1>3, <1>4, <1>5 DEF Call
<1> HIDE DEF c
<1>8. c.at \in Working
  BY <1>5, <1>7, Zenon
<1>9. c.mt <= now /\ c.tod <= now + ahead /\ c.next <= now + ahead /\ c.si.tod <= now + ahead
  BY <1>4, <1>6, <1>7
<1> QED
  BY <1>1, <1>2, <1>5, <1>7, <1>8, <1>9, WorksOn DEF e

LEMMA Boottimes == ASSUME SleepInv, NEW t \in Clients, Slept!Boottime(t) PROVE SleepInv'
<1> DEFINE e == asking[t]
           si == [Slept!NoInfo EXCEPT !.boot = boot]
           c == [e EXCEPT !.si = si, !.left = TRIES, !.at = "tod"]
<1>1. e.at = "boottime" /\ e.at \in Working
  BY PointsAre, Zenon DEF Slept!Boottime, Slept!At
<1>2. UNCHANGED <<now, ahead, boot, sleep_offset, first_offset, seen>>
  BY DEF Slept!Boottime, Slept!clocks
<1>3. PICK answer \in {"ok", "fail", "bad"} :
          /\ sleep_offset_valid' = (sleep_offset_valid \/ answer = "bad")
          /\ IF answer = "ok" THEN asking' = [asking EXCEPT ![t] = c]
                              ELSE Slept!Leave(t)
  BY Zenon DEF Slept!Boottime
<1>4. Clocked
  BY Zenon DEF SleepInv
<1>5. CASE answer = "ok"
  <2>1. asking' = [asking EXCEPT ![t] = c]
    BY <1>3, <1>5, Zenon
  <2>2. sleep_offset_valid' = sleep_offset_valid
    <3>1. answer # "bad"
      BY <1>5
    <3>2. sleep_offset_valid' = (sleep_offset_valid \/ answer = "bad")
      BY <1>3, Zenon
    <3>3. sleep_offset_valid \in BOOLEAN
      BY <1>4, Zenon DEF Clocked
    <3> QED
      BY <3>1, <3>2, <3>3
  <2>3. Fair(e, now, now + ahead, sleep_offset, seen) /\ e \in Call
        /\ {now, ahead, sleep_offset, seen} \subseteq Nat
    BY CallIs, Zenon
  <2>4. si \in Info /\ si.tod = 0
    BY <1>4 DEF Slept!NoInfo, Info, Clocked
  <2>5. "tod" \in Working /\ "tod" \in Points /\ TRIES \in Int
    BY PointsAre, WorkIs, SleepBounds
  <2>6. e.mt <= now /\ e.tod <= now + ahead /\ e.next <= now + ahead
    BY <2>3, Zenon DEF Fair
  <2> HIDE DEF e, si
  <2>7. /\ c \in Call /\ c.at = "tod" /\ c.mt = e.mt /\ c.tod = e.tod /\ c.next = e.next
        /\ c.si = si /\ c.floor = e.floor
    BY <2>3, <2>4, <2>5 DEF Call
  <2> HIDE DEF c
  <2>8. c.at \in Working
    BY <2>5, <2>7, Zenon
  <2>9. c.mt <= now /\ c.tod <= now + ahead /\ c.next <= now + ahead /\ c.si.tod <= now + ahead
    BY <2>3, <2>4, <2>6, <2>7
  <2> QED
    BY <1>1, <1>2, <2>1, <2>2, <2>7, <2>8, <2>9, WorksOn DEF e
<1>6. CASE answer # "ok"
  <2>1. Slept!Leave(t)
    BY <1>3, <1>6, Zenon
  <2>2. sleep_offset_valid' = TRUE \/ sleep_offset_valid' = sleep_offset_valid
    <3>1. sleep_offset_valid' = (sleep_offset_valid \/ answer = "bad")
      BY <1>3, Zenon
    <3>3. sleep_offset_valid \in BOOLEAN
      BY <1>4, Zenon DEF Clocked
    <3> QED
      BY <3>1, <3>3
  <2>3. Clocked'
    BY <1>2, <1>4, <2>2, Zenon DEF Clocked
  <2>4. sleep_offset <= sleep_offset'
    BY <1>2, <1>4, SleepBounds DEF Clocked
  <2> QED
    BY <1>1, <1>2, <2>1, <2>2, <2>3, <2>4, Leaving
<1> QED
  BY <1>5, <1>6

LEMMA MachsAgain == ASSUME SleepInv, NEW t \in Clients, Slept!MachAgain(t) PROVE SleepInv'
<1> DEFINE e == asking[t]
           sample == [boot |-> e.si.boot, tod |-> e.next, before |-> e.mt, after |-> now]
           best == IF e.left = TRIES
                      \/ Slept!Diff(e.mt, now) < Slept!Diff(e.si.before, e.si.after)
                   THEN sample ELSE e.si
           next == IF e.left = 1 THEN "boottime_again" ELSE "tod"
           fewer == e.left - 1
           c1 == [e EXCEPT !.mt = now, !.at = "tod_again"]
           c2 == [e EXCEPT !.si = best, !.left = fewer, !.at = next]
<1>1. e.at = "mach_again"
      /\ asking' = [asking EXCEPT ![t] = IF e.next = e.tod THEN c1 ELSE c2]
  BY Zenon DEF Slept!MachAgain, Slept!At
<1>2. UNCHANGED <<now, ahead, boot, sleep_offset, sleep_offset_valid, first_offset, seen>>
  BY DEF Slept!MachAgain, Slept!clocks, Slept!shared
<1>3. Fair(e, now, now + ahead, sleep_offset, seen) /\ e \in Call
      /\ {now, ahead, sleep_offset, seen} \subseteq Nat
  BY CallIs, Zenon
<1>4. e.at \in Working /\ "tod_again" \in Working /\ "tod_again" \in Points
  BY <1>1, PointsAre, WorkIs, Zenon
<1>5. next \in Working /\ next \in Points
  <2>1. next = "boottime_again" \/ next = "tod"
    BY Zenon
  <2> HIDE DEF next
  <2> QED
    BY <2>1, PointsAre, WorkIs, Zenon
<1>6. e.mt <= now /\ e.tod <= now + ahead /\ e.next <= now + ahead /\ e.si.tod <= now + ahead
  BY <1>3, Zenon DEF Fair
<1>7. best = sample \/ best = e.si
  BY Zenon
<1> HIDE DEF e, next
<1>8. best \in Info /\ best.tod <= now + ahead
  <2>1. sample \in Info /\ sample.tod = e.next /\ e.si \in Info
    BY <1>3 DEF Call, Info
  <2> HIDE DEF best, sample
  <2> QED
    BY <1>6, <1>7, <2>1
<1>13. fewer \in Int
  BY <1>3 DEF Call
<1> HIDE DEF best, fewer
<1>9. /\ c1 \in Call /\ c1.at = "tod_again" /\ c1.mt = now /\ c1.tod = e.tod
      /\ c1.next = e.next /\ c1.si = e.si /\ c1.floor = e.floor
  BY <1>3, <1>4 DEF Call
<1>10. /\ c2 \in Call /\ c2.at = next /\ c2.mt = e.mt /\ c2.tod = e.tod
       /\ c2.next = e.next /\ c2.si = best /\ c2.floor = e.floor
  BY <1>3, <1>5, <1>8, <1>13 DEF Call
<1> HIDE DEF c1, c2
<1>11. CASE e.next = e.tod
  <2>1. asking' = [asking EXCEPT ![t] = c1]
    BY <1>1, <1>11, Zenon
  <2>2. c1.at \in Working
    BY <1>4, <1>9, Zenon
  <2>3. c1.mt <= now /\ c1.tod <= now + ahead /\ c1.next <= now + ahead
        /\ c1.si.tod <= now + ahead
    BY <1>3, <1>6, <1>9
  <2> QED
    BY <1>2, <1>4, <1>9, <2>1, <2>2, <2>3, WorksOn DEF e
<1>12. CASE e.next # e.tod
  <2>1. asking' = [asking EXCEPT ![t] = c2]
    BY <1>1, <1>12, Zenon
  <2>2. c2.at \in Working
    BY <1>5, <1>10, Zenon
  <2>3. c2.mt <= now /\ c2.tod <= now + ahead /\ c2.next <= now + ahead
        /\ c2.si.tod <= now + ahead
    BY <1>3, <1>6, <1>8, <1>10
  <2> QED
    BY <1>2, <1>4, <1>10, <2>1, <2>2, <2>3, WorksOn DEF e
<1> QED
  BY <1>11, <1>12

LEMMA BoottimesAgain ==
  ASSUME SleepInv, NEW t \in Clients, Slept!BoottimeAgain(t) PROVE SleepInv'
<1> DEFINE e == asking[t]
           si == [Slept!NoInfo EXCEPT !.boot = boot]
           c1 == [e EXCEPT !.at = "commit"]
           c2 == [e EXCEPT !.si = si, !.left = TRIES, !.at = "tod"]
<1>1. e.at = "boottime_again"
      /\ asking' = [asking EXCEPT ![t] = IF boot = e.si.boot THEN c1 ELSE c2]
  BY Zenon DEF Slept!BoottimeAgain, Slept!At
<1>2. UNCHANGED <<now, ahead, boot, sleep_offset, sleep_offset_valid, first_offset, seen>>
  BY DEF Slept!BoottimeAgain, Slept!clocks, Slept!shared
<1>3. Fair(e, now, now + ahead, sleep_offset, seen) /\ e \in Call
      /\ {now, ahead, sleep_offset, seen} \subseteq Nat
  BY CallIs, Zenon
<1>4. /\ e.at \in Working /\ "commit" \in Working /\ "commit" \in Points
      /\ "tod" \in Working /\ "tod" \in Points
  BY <1>1, PointsAre, WorkIs, Zenon
<1>5. si \in Info /\ si.tod = 0 /\ TRIES \in Int
  <2>1. boot \in Nat
    BY Zenon DEF SleepInv, Clocked
  <2> QED
    BY <2>1, SleepBounds DEF Slept!NoInfo, Info
<1>6. e.mt <= now /\ e.tod <= now + ahead /\ e.next <= now + ahead /\ e.si.tod <= now + ahead
  BY <1>3, Zenon DEF Fair
<1> HIDE DEF e, si
<1>9. /\ c1 \in Call /\ c1.at = "commit" /\ c1.mt = e.mt /\ c1.tod = e.tod
      /\ c1.next = e.next /\ c1.si = e.si /\ c1.floor = e.floor
  BY <1>3, <1>4 DEF Call
<1>10. /\ c2 \in Call /\ c2.at = "tod" /\ c2.mt = e.mt /\ c2.tod = e.tod
       /\ c2.next = e.next /\ c2.si = si /\ c2.floor = e.floor
  BY <1>3, <1>4, <1>5 DEF Call
<1> HIDE DEF c1, c2
<1>11. CASE boot = e.si.boot
  <2>1. asking' = [asking EXCEPT ![t] = c1]
    BY <1>1, <1>11, Zenon
  <2>2. c1.at \in Working
    BY <1>4, <1>9, Zenon
  <2>3. c1.mt <= now /\ c1.tod <= now + ahead /\ c1.next <= now + ahead
        /\ c1.si.tod <= now + ahead
    BY <1>6, <1>9
  <2> QED
    BY <1>2, <1>4, <1>9, <2>1, <2>2, <2>3, WorksOn DEF e
<1>12. CASE boot # e.si.boot
  <2>1. asking' = [asking EXCEPT ![t] = c2]
    BY <1>1, <1>12, Zenon
  <2>2. c2.at \in Working
    BY <1>4, <1>10, Zenon
  <2>3. c2.mt <= now /\ c2.tod <= now + ahead /\ c2.next <= now + ahead
        /\ c2.si.tod <= now + ahead
    BY <1>3, <1>5, <1>6, <1>10
  <2> QED
    BY <1>2, <1>4, <1>10, <2>1, <2>2, <2>3, WorksOn DEF e
<1> QED
  BY <1>11, <1>12

LEMMA NotLess ==
  ASSUME NEW m \in Nat, NEW n \in Nat, NEW o \in Nat, m <= n
  PROVE  m <= n + o
  OBVIOUS

LEMMA Commits == ASSUME SleepInv, NEW t \in Clients, Slept!Commit(t) PROVE SleepInv'
<1> DEFINE si == asking[t].si
           toddiff == si.tod - si.boot
           mid == (si.before + si.after) \div 2
           offset == toddiff - mid
<1>1. asking[t].at \in Working /\ sleep_offset_valid' = TRUE /\ Slept!Leave(t)
  BY PointsAre, Zenon DEF Slept!Commit, Slept!At
<1>2. UNCHANGED <<now, ahead, boot, seen>>
  BY DEF Slept!Commit, Slept!clocks
<1>3. /\ toddiff < 0 => UNCHANGED <<sleep_offset, first_offset, since>>
      /\ ~(toddiff < 0) => Slept!Advanced(offset, si)
  BY Zenon DEF Slept!Commit
<1>4. sleep_offset = 0 /\ first_offset = 0
  BY <1>1, Zenon DEF SleepInv, Alone
<1>5. Clocked /\ MaxNow \in Nat /\ 2 * MaxNow + 27 < 1000
  BY SleepBounds, Zenon DEF SleepInv
<1>6. /\ si.tod \in Nat /\ si.boot \in Nat /\ si.before \in Nat /\ si.after \in Nat
      /\ si.tod <= now + ahead
  <2>1. Fair(asking[t], now, now + ahead, sleep_offset, seen) /\ asking[t] \in Call
    BY CallIs, Zenon
  <2>2. si.tod <= now + ahead
    BY <2>1, Zenon DEF Fair
  <2>3. asking[t].si \in Info
    BY <2>1 DEF Call
  <2> QED
    BY <2>2, <2>3 DEF Info
<1> HIDE DEF si
<1>7. toddiff \in Int /\ mid \in Nat /\ toddiff <= MaxNow + 27
  BY <1>5, <1>6 DEF Clocked
<1> HIDE DEF toddiff, mid
<1>8. offset \in Int /\ offset <= MaxNow + 27
  BY <1>5, <1>7
<1> HIDE DEF offset
<1>9. first_offset' \in Int /\ sleep_offset' \in 0..(MaxNow + 27)
  <2>1. CASE toddiff < 0
    BY <1>3, <1>4, <1>5, <2>1
  <2>2. CASE ~(toddiff < 0)
    <3> DEFINE base == IF first_offset = 0 /\ offset < 0 THEN offset ELSE first_offset
               r == (offset - base) % 1000
               least == Slept!Larger(3, (si.before - since) \div 4)
               more == r > (sleep_offset + least) % 1000
    <3>1. /\ first_offset' = base
          /\ sleep_offset' = r \/ sleep_offset' = sleep_offset
      <4>1. Slept!Advanced(offset, si)
        BY <1>3, <2>2, Zenon
      <4>2. first_offset' = base
        BY <4>1, Zenon DEF Slept!Advanced
      <4>3. sleep_offset' = IF more THEN r ELSE sleep_offset
        BY <4>1, Zenon DEF Slept!Advanced
      <4> HIDE DEF base, r, more
      <4>4. sleep_offset' = r \/ sleep_offset' = sleep_offset
        BY <4>3, Zenon
      <4> QED
        BY <4>2, <4>4
    <3>2. base \in Int /\ r \in 0..(MaxNow + 27)
      <4>1. CASE offset < 0
        <5>1. base = offset
          BY <1>4, <4>1, Zenon
        <5>2. offset - base = 0
          BY <1>8, <5>1
        <5>3. r = 0
          BY <5>2
        <5> HIDE DEF base, r
        <5> QED
          BY <1>5, <1>8, <5>1, <5>3
      <4>2. CASE ~(offset < 0)
        <5>1. base = 0
          BY <1>4, <4>2, Zenon
        <5> HIDE DEF base
        <5>2. offset - base = offset /\ offset \in 0..(MaxNow + 27) /\ offset < 1000
          BY <1>5, <1>8, <4>2, <5>1
        <5>3. r = offset
          BY <1>8, <5>2
        <5> HIDE DEF r
        <5> QED
          BY <5>1, <5>2, <5>3
      <4> QED
        BY <4>1, <4>2
    <3> HIDE DEF base, r
    <3> QED
      BY <1>4, <1>5, <3>1, <3>2
  <2> QED
    BY <2>1, <2>2
<1>10. Clocked' /\ sleep_offset <= sleep_offset'
  <2>1. /\ now' \in 0..MaxNow /\ ahead' \in {20, 27} /\ boot' \in Nat
        /\ seen' \in Nat /\ seen' <= now' /\ sleep_offset_valid' \in BOOLEAN
    <3>1. seen <= now + sleep_offset /\ seen \in Nat /\ now \in 0..MaxNow
      BY <1>5, Zenon DEF Clocked
    <3>2. seen' <= now'
      BY <1>2, <1>4, <1>5, <3>1
    <3>3. ahead \in {20, 27} /\ boot \in Nat
      BY <1>5, Zenon DEF Clocked
    <3>4. sleep_offset_valid' \in BOOLEAN
      BY <1>1
    <3> QED
      BY <1>2, <3>1, <3>2, <3>3, <3>4
  <2>2. sleep_offset' \in Nat /\ seen' <= now' + sleep_offset'
    <3>1. now' \in 0..MaxNow /\ seen' \in Nat /\ seen' <= now'
      BY <2>1, Zenon
    <3>2. sleep_offset' \in 0..(MaxNow + 27) /\ MaxNow \in Nat
      BY <1>5, <1>9, Zenon
    <3>3. now' \in Nat
      BY <3>1, <3>2
    <3>4. sleep_offset' \in Nat
      BY <3>2
    <3>5. seen' \in Nat /\ seen' <= now'
      BY <3>1, Zenon
    <3>6. seen' <= now' + sleep_offset'
      BY <3>3, <3>4, <3>5, NotLess
    <3> QED
      BY <3>4, <3>6
  <2>3. Clocked'
    BY <1>9, <2>1, <2>2, Zenon DEF Clocked
  <2> QED
    BY <1>4, <2>2, <2>3
<1> QED
  BY <1>1, <1>2, <1>10, Leaving

ClocksInv == /\ part = "arith" => ArithInv
             /\ part = "sleep" => SleepInv

LEMMA ClocksRest ==
  ASSUME ClocksInv, UNCHANGED <<part, arith, sleep>>
  PROVE  ClocksInv'
<1>1. /\ part' = part /\ UNCHANGED <<scale, mach, other, user, system>>
      /\ UNCHANGED <<now, ahead, boot, sleep_offset, sleep_offset_valid, first_offset,
                     seen, asking>>
  BY DEF arith, sleep
<1>2. ArithInv => ArithInv'
  BY <1>1, Zenon DEF ArithInv
<1>3. SleepInv => SleepInv'
  <2>1. Clocked => Clocked'
    BY <1>1, Zenon DEF Clocked
  <2>2. Queries => Queries'
    BY <1>1, Zenon DEF Queries
  <2>3. Alone => Alone'
    BY <1>1, Zenon DEF Alone
  <2> QED
    BY <2>1, <2>2, <2>3, Zenon DEF SleepInv
<1> QED
  BY <1>1, <1>2, <1>3, Zenon DEF ClocksInv

LEMMA SleepInit == Slept!Init => SleepInv
<1> SUFFICES ASSUME Slept!Init PROVE SleepInv
  OBVIOUS
<1> DEFINE at(t) == IF t = 1 THEN "boottime" ELSE "unborn"
           c(t) == [Slept!Idle EXCEPT !.at = at(t), !.startup = (t = 1)]
<1>1. /\ now = 0 /\ ahead = 20 /\ boot \in Boots /\ sleep_offset = 0
      /\ sleep_offset_valid = FALSE /\ first_offset = 0 /\ seen = 0
  BY Zenon DEF Slept!Init
<1>2. asking = [t \in Clients |-> c(t)]
  BY DEF Slept!Init, Clients
<1>3. Clocked
  <2>1. 0 \in 0..MaxNow /\ 0 \in 0..(MaxNow + 27) /\ 0 <= 0 + 0 /\ 20 \in {20, 27}
    BY SleepBounds
  <2>2. boot \in Nat /\ 0 \in Nat /\ 0 \in Int /\ FALSE \in BOOLEAN
    BY <1>1, SleepBounds
  <2> QED
    BY <1>1, <2>1, <2>2, Zenon DEF Clocked
<1>4. ASSUME NEW t \in Clients
      PROVE  /\ asking[t] = c(t) /\ asking[t].at = at(t)
             /\ Fair(asking[t], now, now + ahead, sleep_offset, seen)
  <2> DEFINE a == at(t)
             s == t = 1
             e == [Slept!Idle EXCEPT !.at = a, !.startup = s]
  <2>1. asking[t] = e
    BY <1>2, Zenon
  <2>2. a \in Points /\ a # "add" /\ a # "return"
    <3>1. a = "boottime" \/ a = "unborn"
      BY Zenon
    <3>2. "unborn" \in Points
      BY DEF Points, Resting
    <3>3. "boottime" \in Points
      BY PointsAre, WorkIs, Zenon
    <3> HIDE DEF a
    <3> QED
      BY <3>1, <3>2, <3>3
  <2>3. s \in BOOLEAN
    BY Zenon
  <2> HIDE DEF a, s
  <2>4. /\ e \in Call /\ e.at = a /\ e.mt = 0 /\ e.tod = 0 /\ e.next = 0 /\ e.si.tod = 0
        /\ e.floor = 0
    BY <2>2, <2>3, IdleIs DEF Call, Slept!Idle
  <2> HIDE DEF e
  <2>5. Fair(e, 0, 0 + 20, 0, 0)
    BY <2>2, <2>4 DEF Fair
  <2>6. Fair(e, now, now + ahead, sleep_offset, seen)
    BY <1>1, <2>5, Zenon
  <2>7. asking[t].at = a /\ Fair(asking[t], now, now + ahead, sleep_offset, seen)
    BY <2>1, <2>4, <2>6, Zenon
  <2>8. e = c(t) /\ a = at(t)
    BY Zenon DEF a, s, e
  <2> HIDE DEF at, c
  <2> QED
    BY <2>1, <2>7, <2>8, Zenon
<1>5. Queries
  <2> HIDE DEF at, c
  <2>1. asking = [t \in Clients |-> asking[t]]
    BY <1>2
  <2> QED
    BY <1>4, <2>1, Zenon DEF Queries
<1>6. Alone
  <2>1. \A t, u \in Clients : t = u \/ at(t) \in Resting \/ at(u) \in Resting
    <3>1. \A t \in Clients : t = 1 \/ t = 2
      BY DEF Clients
    <3>2. at(2) \in Resting
      BY DEF Resting
    <3> HIDE DEF at
    <3> QED
      BY <3>1, <3>2, Zenon
  <2>2. \A t \in Clients : asking[t].at = at(t)
    BY <1>4, Zenon
  <2> HIDE DEF at
  <2> QED
    BY <1>1, <2>1, <2>2, Zenon DEF Alone
<1> QED
  BY <1>3, <1>5, <1>6, Zenon DEF SleepInv

LEMMA SleepStep ==
  ASSUME SleepInv, "race" \notin Allowed, Slept!Next
  PROVE  SleepInv'
<1>1. CASE Slept!Tick
  BY <1>1, Ticks
<1>2. CASE Slept!SetTime
  BY <1>2, TimeIsSet
<1>3. ASSUME NEW t \in Clients,
             \/ Slept!mach_continuous_time(t) \/ Slept!ReadMach(t) \/ Slept!AddOffset(t)
             \/ Slept!Return(t) \/ Slept!Boottime(t) \/ Slept!Tod(t) \/ Slept!Mach(t)
             \/ Slept!TodAgain(t) \/ Slept!MachAgain(t) \/ Slept!BoottimeAgain(t)
             \/ Slept!Commit(t)
      PROVE  SleepInv'
  <2>1. CASE Slept!mach_continuous_time(t)
    BY <2>1, Asks
  <2>2. CASE Slept!ReadMach(t)
    BY <2>2, ReadsMach
  <2>3. CASE Slept!AddOffset(t)
    BY <2>3, AddsOffset
  <2>4. CASE Slept!Return(t)
    BY <2>4, ComesBack
  <2>5. CASE Slept!Boottime(t)
    BY <2>5, Boottimes
  <2>6. CASE Slept!Tod(t)
    BY <2>6, Tods
  <2>7. CASE Slept!Mach(t)
    BY <2>7, Machs
  <2>8. CASE Slept!TodAgain(t)
    BY <2>8, TodsAgain
  <2>9. CASE Slept!MachAgain(t)
    BY <2>9, MachsAgain
  <2>10. CASE Slept!BoottimeAgain(t)
    BY <2>10, BoottimesAgain
  <2>11. CASE Slept!Commit(t)
    BY <2>11, Commits
  <2> QED
    BY <1>3, <2>1, <2>2, <2>3, <2>4, <2>5, <2>6, <2>7, <2>8, <2>9, <2>10, <2>11, Zenon
<1> QED
  BY <1>1, <1>2, <1>3, Zenon DEF Slept!Next, Clients

LEMMA ClocksInit == MCInit => ClocksInv
<1> SUFFICES ASSUME MCInit PROVE ClocksInv
  OBVIOUS
<1>1. C!Init /\ Slept!Init
  BY Zenon DEF MCInit
<1>2. ArithInv
  BY <1>1 DEF C!Init, ArithInv, ScalesTried, UsagesTried
<1> QED
  BY <1>1, <1>2, SleepInit, Zenon DEF ClocksInv

LEMMA ClocksStep ==
  ASSUME ClocksInv, "race" \notin Allowed, [MCNext]_libc
  PROVE  ClocksInv'
<1>1. CASE part = "arith" /\ C!Next /\ UNCHANGED part
  <2>1. ArithInv
    BY <1>1, Zenon DEF ClocksInv
  <2>2. ArithInv'
    BY <1>1, <2>1 DEF C!Next, ArithInv
  <2>3. part' # "sleep"
    BY <1>1
  <2> QED
    BY <2>2, <2>3, Zenon DEF ClocksInv
<1>2. CASE part = "sleep" /\ Slept!Next /\ UNCHANGED part
  <2>1. SleepInv
    BY <1>2, Zenon DEF ClocksInv
  <2>2. SleepInv'
    BY <1>2, <2>1, SleepStep
  <2>3. part' # "arith"
    BY <1>2
  <2> QED
    BY <2>2, <2>3, Zenon DEF ClocksInv
<1>3. CASE UNCHANGED <<part, arith, sleep>>
  BY <1>3, ClocksRest
<1> QED
  <2>1. CASE UNCHANGED libc
    <3>1. UNCHANGED <<part, arith, sleep>>
      BY <2>1 DEF libc
    <3> QED
      BY <3>1, <1>3
  <2>2. CASE MCNext
    <3>1. CASE UNCHANGED <<part, arith, sleep>>
      BY <1>3, <3>1
    <3>2. \/ part = "arith" /\ C!Next /\ UNCHANGED part
          \/ part = "sleep" /\ Slept!Next /\ UNCHANGED part
          \/ UNCHANGED <<part, arith, sleep>>
      BY <2>2 DEF MCNext, libc
    <3> QED
      BY <1>1, <1>2, <1>3, <3>2, Zenon
  <2> QED
    BY <2>1, <2>2

LEMMA ClocksInvIsSound == ClocksInv => ClocksSound
<1>1. ASSUME SleepInv PROVE Slept!Monotonic
  <2>1. ASSUME NEW t \in Clients, asking[t].at = "return"
        PROVE  asking[t].result >= asking[t].floor
    <3>1. Fair(asking[t], now, now + ahead, sleep_offset, seen) /\ asking[t] \in Call
      BY <1>1, CallIs, Zenon
    <3>2. asking[t].floor <= asking[t].result
      BY <2>1, <3>1, Zenon DEF Fair
    <3>3. asking[t].floor \in Nat /\ asking[t].result \in Nat
      BY <3>1 DEF Call
    <3> QED
      BY <3>2, <3>3
  <2> QED
    BY <2>1, Zenon DEF Slept!Monotonic, Slept!At, Clients
<1> QED
  BY <1>1, ArithIsSound, Zenon DEF ClocksInv, ClocksSound

\* The product of fixed-point numbers is exact, each clock tells one time in both
\* forms, and continuous time never goes back for a thread, across the moment the
\* offset is found, unless two threads find it at once (time.c): with MCLibc's scales
\* and units, for any half word that a second fits in, any numbers of a word, any boot
\* times, number of samples and span of time that a word of continuous time holds.
THEOREM ClocksStaySound == "race" \notin Allowed => (MCSpec => []ClocksSound)
<1>1. SUFFICES ASSUME "race" \notin Allowed PROVE MCSpec => []ClocksSound
  OBVIOUS
<1>2. ClocksInv /\ [MCNext]_libc => ClocksInv'
  BY <1>1, ClocksStep
<1> QED
  BY <1>2, ClocksInit, ClocksInvIsSound, PTL DEF MCSpec

=============================================================================
