------------------------------ MODULE WorkDirs ------------------------------
(***************************************************************************)
(* Working directories: the *at() calls (atcalls.c, atcalls.h, fdopendir.c, *)
(* utimensat.c), which give the calling thread a directory of its own for  *)
(* the length of the call (pthread_chdir.c), and posix_spawn with a change *)
(* of directory (posix_spawn_chdir.c), which changes the whole process's   *)
(* for the length of the spawn.  A system call is one step.                *)
(*                                                                         *)
(* `Uses` names what the callers and the system may do beyond what the     *)
(* code stands:                                                            *)
(*   "emfile"  no descriptor is left for open(".")                         *)
(*   "ids"     faccessat(AT_EACCESS) of a bad descriptor by a set-uid      *)
(*             program, or by two of its threads at once                   *)
(*   "window"  a relative path, a chdir or a spawn while another spawn has *)
(*             changed the process's directory                             *)
(*   "own"     such a spawn by a thread with a directory of its own        *)
(*   "again"   actions spawned again after their change of directory       *)
(*   "twice"   two changes of directory for the same actions               *)
(*   "full"    more actions with a change pending than the table holds     *)
(*   "reuse"   actions destroyed before they are spawned                   *)
(***************************************************************************)
EXTENDS Naturals, Sequences, FiniteSets, SequencesExt

CONSTANTS Threads, Dirs, Acts,
          CHDIR_TABLE_SIZE, None, Uses

ASSUME DirConstants ==
    /\ CHDIR_TABLE_SIZE \in Nat \ {0} /\ None \notin Threads \cup Dirs \cup Acts
    /\ {"fdcwd", "abs", "bad", "gone"} \cap (Dirs \cup {None}) = {}
    /\ Uses \subseteq {"emfile", "ids", "window", "own", "again", "twice", "full", "reuse"}

VARIABLES cwd,      \* the directory of the process
          home,     \* the one the program last gave it
          own,      \* the directory of each thread, None if it has none
          call,     \* where each thread is in its call
          swapped,  \* whether the real and effective ids are exchanged
          table,    \* g_chdir_table
          acts,     \* what the program asked of its spawn actions
          holder    \* the thread that holds g_spawn_cwd_mu

vars == <<cwd, home, own, call, swapped, table, acts, holder>>
spawns == <<home, table, acts, holder>>

\* `had` is the thread's directory at the call, `saved` the descriptor kept of it.
\* Each element of `done` tells where a path was followed, and where it should be.
Idle == [at |-> "idle", op |-> "other", fd |-> None, args |-> <<>>, had |-> None,
         saved |-> None, done |-> <<>>, actions |-> None]
Entry(a, d) == [acts |-> a, dir |-> d]
Absent == [live |-> FALSE, dir |-> None, spent |-> FALSE]

Init == /\ cwd \in Dirs
        /\ home = cwd
        /\ own = [t \in Threads |-> None]
        /\ call = [t \in Threads |-> Idle]
        /\ swapped = FALSE
        /\ table = [i \in 1..CHDIR_TABLE_SIZE |-> Entry(None, None)]
        /\ acts = [a \in Acts |-> Absent]
        /\ holder = None

At(t, at) == call[t].at = at
Goto(t, at) == call' = [call EXCEPT ![t].at = at]
Set(t, c) == call' = [call EXCEPT ![t] = c]
Fails(use) == IF use \in Uses THEN BOOLEAN ELSE {FALSE}

\* The directory a relative path starts from (the kernel, external), and the one
\* that the program means by it.
Where(t) == IF own[t] # None THEN own[t] ELSE cwd
Meant(t) == IF call[t].had # None THEN call[t].had ELSE home

\* Arguments: a directory's descriptor, AT_FDCWD, a bad descriptor; "abs" is any
\* descriptor with an absolute path, which the calls leave alone.
Args == Dirs \cup {"fdcwd", "abs", "bad"}
Relative(fd) == fd \notin {"fdcwd", "abs"}
Steady == holder # None => "window" \in Uses

(***************************************************************************)
(* What the program does about directories itself                          *)
(***************************************************************************)
Chdir(t, d) == /\ At(t, "idle") /\ Steady
               /\ cwd' = d
               /\ home' = d
               /\ UNCHANGED <<own, call, swapped, table, acts, holder>>

\* pthread_chdir_np and pthread_fchdir_np; None is the descriptor -1.
PthreadFchdir(t, d) == /\ At(t, "idle") /\ own[t] # d
                       /\ own' = [own EXCEPT ![t] = d]
                       /\ UNCHANGED <<cwd, call, swapped, spawns>>

(***************************************************************************)
(* The *at calls: one descriptor and path, or the two of a link or rename  *)
(***************************************************************************)
Start(t, op, args, fd) ==
    call' = [call EXCEPT ![t] =
        [Idle EXCEPT !.at = IF Relative(fd) THEN "leave" ELSE "do",
                     !.op = op, !.fd = fd, !.args = args, !.had = own[t]]]

\* faccessat of a set-uid program exchanges the ids.
AtCall(t, op, fd) ==
    /\ At(t, "idle")
    /\ op = "access" => (~swapped /\ fd # "bad") \/ "ids" \in Uses
    /\ swapped' = (swapped # (op = "access"))
    /\ Start(t, op, <<fd>>, fd)
    /\ UNCHANGED <<cwd, own, spawns>>

\* fdopendir of a descriptor, which fstat has found to be a directory's.
FdOpenDir(t, d) ==
    /\ At(t, "idle")
    /\ Start(t, "other", <<d>>, d)
    /\ UNCHANGED <<cwd, own, swapped, spawns>>

\* linkat and renameat: two relative paths from two places are made absolute.
AtCallOfTwo(t, old, new) ==
    /\ At(t, "idle")
    /\ IF old = "abs" THEN Start(t, "other", <<old, new>>, new)
       ELSE IF new = "abs" \/ old = new THEN Start(t, "other", <<old, new>>, old)
       ELSE Set(t, [Idle EXCEPT !.at = "path", !.args = <<old, new>>,
                                !.had = own[t]])
    /\ UNCHANGED <<cwd, own, swapped, spawns>>

Wanted(t, fd) == IF fd = "fdcwd" THEN Meant(t) ELSE fd

\* _fullpathat, of one path and then of the other.
FullPathAt(t) ==
    LET c == call[t]
        n == Len(c.done) + 1
    IN
    /\ At(t, "path")
    /\ c.args[n] = "fdcwd" => Steady
    /\ \E failed \in Fails("emfile") :
          IF c.args[n] = "bad" \/ (failed /\ c.args[n] = "fdcwd") THEN Set(t, Idle)
          ELSE LET from == IF c.args[n] = "fdcwd" THEN Where(t) ELSE c.args[n]
               IN  call' = [call EXCEPT
                      ![t].done = Append(@, [at |-> from, want |-> Wanted(t, c.args[n])]),
                      ![t].at = IF n = 2 THEN "back" ELSE "path",
                      ![t].args = IF n = 2 THEN <<>> ELSE @,
                      ![t].fd = "abs"]
    /\ UNCHANGED <<cwd, own, swapped, spawns>>

\* ATCALL, for a relative path: open(".") and __mpls_best_fchdir(-1).  The latter
\* fails in a thread without a directory of its own, to which it has none to come
\* back: no other thread tells the two steps apart ...
Leave(t) ==
    /\ At(t, "leave")
    /\ own' = [own EXCEPT ![t] = None]
    /\ \E failed \in Fails("emfile") :
          call' = [call EXCEPT ![t].at = "enter",
                               ![t].saved = IF failed THEN None ELSE own[t]]
    /\ UNCHANGED <<cwd, swapped, spawns>>

\* Mutation of Enter: a failure leaves the thread without its directory.
EnterOrLose(t) ==
    LET fd == call[t].fd IN
    /\ At(t, "enter")
    /\ own' = [own EXCEPT ![t] = IF fd \in Dirs THEN fd ELSE None]
    /\ IF fd \in Dirs THEN Goto(t, "do") ELSE Set(t, Idle)
    /\ UNCHANGED <<cwd, swapped, spawns>>

\* ... and __mpls_best_fchdir(fd); when that fails, back, and out of the caller.
Enter(t) ==
    LET fd == call[t].fd IN
    /\ At(t, "enter")
    /\ own' = [own EXCEPT ![t] = IF fd \in Dirs THEN fd ELSE call[t].saved]
    /\ IF fd \in Dirs THEN Goto(t, "do") ELSE Set(t, Idle)
    /\ UNCHANGED <<cwd, swapped, spawns>>

\* The call itself, from where the thread then is.
Do(t) ==
    LET c == call[t] IN
    /\ At(t, "do")
    /\ "fdcwd" \in Range(c.args) => Steady
    /\ call' = [call EXCEPT
           ![t].at = "back", ![t].args = <<>>,
           ![t].done = [i \in DOMAIN c.args |->
               [at |-> IF c.args[i] = "abs" THEN "abs" ELSE Where(t),
                want |-> Wanted(t, c.args[i])]]]
    /\ UNCHANGED <<cwd, own, swapped, spawns>>

\* Back to the thread's own directory; faccessat exchanges the ids again.
Back(t) ==
    LET c == call[t] IN
    /\ At(t, "back")
    /\ own' = IF Relative(c.fd) THEN [own EXCEPT ![t] = c.saved] ELSE own
    /\ swapped' = (swapped # (c.op = "access"))
    /\ Set(t, Idle)
    /\ UNCHANGED <<cwd, spawns>>

(***************************************************************************)
(* posix_spawn                                                             *)
(***************************************************************************)
InitActions(t, a) ==
    /\ At(t, "idle") /\ ~acts[a].live
    /\ acts' = [acts EXCEPT ![a].live = TRUE]
    /\ UNCHANGED <<cwd, home, own, call, swapped, table, holder>>

DestroyActions(t, a) ==
    /\ At(t, "idle") /\ acts[a].live /\ \A u \in Threads : call[u].actions # a
    /\ acts[a].dir # None /\ ~acts[a].spent => "reuse" \in Uses
    /\ acts' = [acts EXCEPT ![a] = Absent]
    /\ UNCHANGED <<cwd, home, own, call, swapped, table, holder>>

\* chdir_set: the first entry that is vacant or has these actions; else nothing.
ChdirSet(a, d) ==
    LET i == SelectInSeq(table, LAMBDA e : e.acts \in {None, a})
    IN  table' = IF i = 0 THEN table ELSE [table EXCEPT ![i] = Entry(a, d)]

Pending == {b \in Acts : acts[b].dir # None /\ ~acts[b].spent}

\* posix_spawn_file_actions_addchdir_np and addfchdir_np; "gone" is a directory
\* that is not there at the spawn.
AddChdir(t, a, d) ==
    /\ At(t, "idle") /\ acts[a].live /\ \A u \in Threads : call[u].actions # a
    /\ acts[a].dir = None \/ "twice" \in Uses
    /\ Cardinality(Pending) < CHDIR_TABLE_SIZE \/ "full" \in Uses
    /\ ChdirSet(a, d)
    /\ acts' = [acts EXCEPT ![a] = [live |-> TRUE, dir |-> d, spent |-> FALSE]]
    /\ UNCHANGED <<cwd, home, own, call, swapped, holder>>

\* Mutation of Found: the actions are not compared.
FoundAny(a) == SelectInSeq(table, LAMBDA e : e.acts # None)

Found(a) == SelectInSeq(table, LAMBDA e : e.acts = a)

\* chdir_get: the entry is consumed.
ChdirGet(a) == table' = IF Found(a) = 0 THEN table
                        ELSE [table EXCEPT ![Found(a)] = Entry(None, None)]

Spawn(t, a) ==
    /\ At(t, "idle") /\ acts[a].live /\ \A u \in Threads : call[u].actions # a
    /\ acts[a].spent => "again" \in Uses
    /\ acts[a].dir # None /\ own[t] # None => "own" \in Uses
    /\ ChdirGet(a)
    /\ acts' = [acts EXCEPT ![a].spent = acts[a].dir # None]
    /\ Set(t, [Idle EXCEPT !.actions = a, !.had = own[t],
                           !.at = IF Found(a) = 0 THEN "plain" ELSE "lock",
                           !.fd = IF Found(a) = 0 THEN "fdcwd" ELSE table[Found(a)].dir,
                           !.args = <<IF acts[a].dir = None THEN "fdcwd"
                                                            ELSE acts[a].dir>>])
    /\ UNCHANGED <<cwd, home, own, swapped, holder>>

\* Mutation of Lock: the lock is not waited for.
LockAtOnce(t) ==
    /\ At(t, "lock")
    /\ holder' = t
    /\ call' = [call EXCEPT ![t].at = "chdir", ![t].saved = Where(t)]
    /\ UNCHANGED <<cwd, home, own, swapped, table, acts>>

\* Under g_spawn_cwd_mu: open("."), chdir, ...
Lock(t) ==
    /\ At(t, "lock") /\ holder = None
    /\ \E failed \in Fails("emfile") :
          IF failed THEN Set(t, Idle) /\ UNCHANGED holder
          ELSE /\ holder' = t
               /\ call' = [call EXCEPT ![t].at = "chdir", ![t].saved = Where(t)]
    /\ UNCHANGED <<cwd, home, own, swapped, table, acts>>

Enters(t) ==
    /\ At(t, "chdir")
    /\ IF call[t].fd = "gone"
       THEN Set(t, Idle) /\ holder' = None /\ UNCHANGED cwd
       ELSE cwd' = call[t].fd /\ Goto(t, "fork") /\ UNCHANGED holder
    /\ UNCHANGED <<home, own, swapped, table, acts>>

\* ... the real posix_spawn, whose child starts where the thread is, ...
RealSpawn(t) ==
    /\ call[t].at \in {"plain", "fork"}
    /\ At(t, "plain") => Steady
    /\ call' = [call EXCEPT
           ![t].at = IF At(t, "plain") THEN "back" ELSE "restore", ![t].args = <<>>,
           ![t].done = <<[at |-> Where(t), want |-> Wanted(t, call[t].args[1])]>>]
    /\ UNCHANGED <<cwd, own, swapped, spawns>>

\* ... and back.
Restore(t) ==
    /\ At(t, "restore")
    /\ cwd' = call[t].saved
    /\ holder' = None
    /\ Set(t, Idle)
    /\ UNCHANGED <<home, own, swapped, table, acts>>

Next ==
    \E t \in Threads :
        \/ \E d \in Dirs : Chdir(t, d)
        \/ \E d \in Dirs \cup {None} : PthreadFchdir(t, d)
        \/ \E op \in {"other", "access"}, fd \in Args : AtCall(t, op, fd)
        \/ \E d \in Dirs : FdOpenDir(t, d)
        \/ \E old, new \in Args : AtCallOfTwo(t, old, new)
        \/ FullPathAt(t) \/ Leave(t) \/ Enter(t) \/ Do(t) \/ Back(t)
        \/ \E a \in Acts : InitActions(t, a) \/ DestroyActions(t, a) \/ Spawn(t, a)
        \/ \E a \in Acts, d \in Dirs \cup {"gone"} : AddChdir(t, a, d)
        \/ Lock(t) \/ Enters(t) \/ RealSpawn(t) \/ Restore(t)

Spec == Init /\ [][Next]_vars

(***************************************************************************)
(* Properties                                                              *)
(***************************************************************************)
\* Every path is followed from the place its caller named, and every child starts
\* where its actions ask, whatever other threads are at.
WhereAsked ==
    \A t \in Threads : \A i \in DOMAIN call[t].done :
        call[t].done[i].at = call[t].done[i].want

\* A call leaves its thread in the directory it came in, with its ids as they
\* were, on its error paths too (ATCALL's early return; faccessat).
CallerUnchanged ==
    [][\A t \in Threads : call[t].at # "idle" /\ call'[t].at = "idle" =>
          own'[t] = call[t].had /\ (call[t].op = "access" => ~swapped')]_vars

\* Out of the spawns, the process's directory is the program's.
DirectoryRestored == holder = None => cwd = home
=============================================================================
