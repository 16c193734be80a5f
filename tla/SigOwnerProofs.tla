--------------------------- MODULE SigOwnerProofs ---------------------------
(***************************************************************************)
(* Theorems about SigOwner, for any threads, handlers, pages and actions.  *)
(* Those about ownership assume that the program does not use what the     *)
(* emulator fails to intercept; each names what it excludes.               *)
(***************************************************************************)
EXTENDS SigOwner, TLAPS

-----------------------------------------------------------------------------
(* Types *)

\* How far the constructor has come fixes its flags, and the program does not
\* run before it is done.
Staged ==
    /\ owned => stage \notin {"start", "own"}
    /\ stage \in {"patch", "bus", "flag"} => owned
    /\ ownsCrash => stage = "done"
    /\ stage # "done" => /\ life = "up"
                        /\ \A t \in Threads : pc[t] = "run" /\ call[t] = NoCall

\* What the emulator has not taken is the program's.
Unowned == \A s \in Sigs \ Shadowed : kernel[s] \in Action

TypeInv == TypeOK /\ Staged /\ Unowned

LEMMA ActionFacts ==
    /\ Default \in Action
    /\ \A h \in Handlers \cup {"dfl", "ign"} : [h |-> h, info |-> FALSE] \in Action
    /\ OnSigill \notin Action /\ OnCrash \notin Action
    /\ \A a \in Action : a.h \in Handlers \cup {"dfl", "ign"}
    /\ None \notin Action
    /\ Early \subseteq Action /\ Actions \subseteq Action
<1>1. OnSigill \notin Action
  BY OwnerConstants DEF Action, OnSigill
<1>2. OnCrash \notin Action
  BY OwnerConstants DEF Action, OnCrash
<1> QED BY <1>1, <1>2, OwnerConstants DEF Action, Default

\* Wherever a thread goes on.
LEMMA GotoTypes ==
    ASSUME TypeOK, NEW t \in Threads, NEW stop \in {"run", "user"} \cup Handling, Goto(t, stop)
    PROVE  /\ pc' \in [Threads -> {"run", "user"} \cup Handling]
           /\ sig' \in [Threads -> Sigs]
           /\ at' \in [Threads -> Pages]
           /\ info' \in [Threads -> BOOLEAN]
<1>1. 0 \in Pages
  BY OwnerConstants DEF Pages
<1> QED BY <1>1 DEF TypeOK, Goto, Sigs, Ill

\* A call keeps the types, whatever it calls.
LEMMA CallTypes ==
    ASSUME TypeOK, NEW t \in Threads, NEW a \in Action \cup {OnSigill, OnCrash}, Call(t, a)
    PROVE  /\ pc' \in [Threads -> {"run", "user"} \cup Handling]
           /\ sig' \in [Threads -> Sigs]
           /\ at' \in [Threads -> Pages]
           /\ info' \in [Threads -> BOOLEAN]
           /\ run' \in [Threads -> {None} \cup Action]
           /\ life' \in {"up", "doomed", "dead"}
<1>1. 0 \in Pages
  BY OwnerConstants DEF Pages
<1>2. a.h \in Handlers => a \in Action
  BY OwnerConstants DEF OnSigill, OnCrash
<1>3. info' \in [Threads -> BOOLEAN]
  BY DEF TypeOK, Call, Goto
<1> QED BY <1>1, <1>2, <1>3 DEF TypeOK, Call, Goto, Handling, Fixing, Sigs, Ill

\* What the program may be told.
Told == [h : Handlers \cup {"dfl", "ign", "on_sigill", "on_crash"}, info : BOOLEAN]

LEMMA KernelTold == \A b \in Action \cup {OnSigill, OnCrash} : b \in Told
<1>1. \A b \in Action : b \in Told
  BY DEF Action, Told
<1>2. OnSigill \in Told
  BY DEF OnSigill, Told
<1>3. OnCrash \in Told
  BY DEF OnCrash, Told
<1> QED BY <1>1, <1>2, <1>3

\* Setting a disposition, in either place, keeps the types.
LEMMA SetTypes ==
    ASSUME TypeOK, NEW t \in Threads, NEW s \in Sigs, NEW a \in Action, NEW whole \in BOOLEAN,
           Report(t, s, a, whole) \/ Real(s, a, whole)
    PROVE  /\ kernel' \in [Sigs -> Action \cup {OnSigill, OnCrash}]
           /\ saved' \in [Sigs -> Action]
           /\ call' \in [Threads -> InCall \cup {NoCall}]
           /\ res' \in Told
           /\ \A r \in Sigs : kernel'[r] = kernel[r] \/ kernel'[r] \in Action
<1>1. \A b \in Told : Answer(b, whole) \in Told
  BY DEF Answer, Told
<1>2. res' \in Told
  <2>1. saved[s] \in Action \cup {OnSigill, OnCrash} /\ kernel[s] \in Action \cup {OnSigill, OnCrash}
    BY DEF TypeOK
  <2>2. res' = Answer(saved[s], whole) \/ res' = Answer(kernel[s], whole)
    BY DEF Report, Real
  <2> QED BY <1>1, <2>1, <2>2, KernelTold
<1>3. call' \in [Threads -> InCall \cup {NoCall}]
  BY DEF TypeOK, Report, Real, InCall
<1> QED BY <1>2, <1>3 DEF TypeOK, Report, Real

LEMMA InitTypes == Init => TypeInv
<1> SUFFICES ASSUME Init PROVE TypeInv
  OBVIOUS
<1>1. 0 \in Pages
  BY OwnerConstants DEF Pages
<1>2. page \in [Pages -> {"gap", "guard", "data", "zero"}]
  BY OwnerConstants DEF Init, Pages
<1>3. TypeOK
  BY <1>1, <1>2, ActionFacts DEF Init, TypeOK, Handling, Fixing, Sigs
<1>4. Staged /\ Unowned
  BY ActionFacts DEF Init, Staged, Unowned, Shadowed, Sigs
<1> QED BY <1>3, <1>4 DEF TypeInv

LEMMA StepTypes == TypeInv /\ [Next]_vars => TypeInv'
<1> SUFFICES ASSUME TypeInv, [Next]_vars PROVE TypeInv'
  OBVIOUS
<1> USE DEF TypeInv
<1>p. 0 \in Pages
  BY OwnerConstants DEF Pages
<1>1. CASE Arm
  BY <1>1, ActionFacts DEF Arm, TypeOK, Staged, Unowned, Shadowed, threads, memory, program, Sigs, Crash, Ill
<1>2. CASE Own
  BY <1>2, ActionFacts DEF Own, TypeOK, Staged, Unowned, Shadowed, threads, memory, program, Sigs, Crash, Ill
<1>3. CASE ArmSegv
  BY <1>3, ActionFacts DEF ArmSegv, TypeOK, Staged, Unowned, Shadowed, threads, memory, program, Sigs, Crash, Ill
<1>4. CASE ArmBus
  BY <1>4, ActionFacts DEF ArmBus, TypeOK, Staged, Unowned, Shadowed, threads, memory, program, Sigs, Crash, Ill
<1>5. CASE OwnCrash
  BY <1>5, ActionFacts DEF OwnCrash, TypeOK, Staged, Unowned, Shadowed, threads, memory, program, Sigs, Crash, Ill
<1>6. ASSUME NEW t \in Threads, Handle(t) PROVE TypeInv'
  <2> USE <1>6 DEF TypeOK
  <2>s. stage = "done"
    BY <1>6 DEF Staged, Handle, Emulate, CheckGap, CheckBefore, MapZero, Chain, Target, RestoreDefault, Raise, Store
  <2>1. CASE Emulate(t)
    <3>1. PICK stop \in {"run", "chain"} : Goto(t, stop)
      BY <2>1 DEF Emulate
    <3> QED BY <2>s, <2>1, <3>1, GotoTypes DEF Emulate, Staged, Unowned, Shadowed, install, memory, program, Handling, Fixing
  <2>2. CASE CheckGap(t)
    <3>1. PICK stop \in {"chain", "before"} : Goto(t, stop)
      BY <2>2 DEF CheckGap
    <3> QED BY <2>s, <2>2, <3>1, GotoTypes DEF CheckGap, Staged, Unowned, Shadowed, install, memory, program, Handling, Fixing
  <2>3. CASE CheckBefore(t)
    <3>1. PICK stop \in {"chain", "map"} : Goto(t, stop)
      BY <2>3 DEF CheckBefore
    <3> QED BY <2>s, <2>3, <3>1, GotoTypes DEF CheckBefore, Staged, Unowned, Shadowed, install, memory, program, Handling, Fixing
  <2>4. CASE MapZero(t)
    BY <2>s, <2>4, <1>p DEF MapZero, Goto, Staged, Unowned, Shadowed, install, program, Handling, Fixing, Sigs
  <2>5. CASE Chain(t)
    BY <2>s, <2>5, <1>p DEF Chain, Staged, Unowned, Shadowed, install, memory, program, Action, Handling, Sigs
  <2>6. CASE Target(t)
    <3> DEFINE a == [h |-> saved[sig[t]].h, info |-> info[t]]
    <3>1. a \in Action
      BY DEF Action
    <3>2. CASE a.h = "dfl"
      BY <2>s, <2>6, <3>1, <3>2, GotoTypes DEF Target, Staged, Unowned, Shadowed, install, memory, Handling
    <3>3. CASE a.h # "dfl" /\ a.info
      BY <2>s, <2>6, <3>1, <3>3, GotoTypes DEF Target, Staged, Unowned, Shadowed, install, memory, Handling
    <3>4. CASE a.h # "dfl" /\ ~a.info
      BY <2>s, <2>6, <3>1, <3>4, CallTypes DEF Target, Staged, Unowned, Shadowed, install, memory
    <3> QED BY <3>2, <3>3, <3>4
  <2>7. CASE RestoreDefault(t)
    BY <2>s, <2>7, <1>p, ActionFacts DEF RestoreDefault, Goto, Staged, Unowned, Shadowed, install, memory, program, Handling, Fixing, Sigs
  <2>8. CASE Raise(t)
    BY <2>s, <2>8, <1>p DEF Raise, Goto, Staged, Unowned, Shadowed, install, memory, Handling, Fixing, Sigs
  <2>9. CASE Store(t)
    <3>1. call[t] \in InCall
      BY <2>9 DEF Store
    <3>2. saved' \in [Sigs -> Action]
      BY <2>9, <3>1 DEF Store, InCall, Action
    <3>3. call' \in [Threads -> InCall \cup {NoCall}]
      BY <2>9, <3>1 DEF Store, InCall
    <3> QED BY <2>s, <2>9, <3>2, <3>3 DEF Store, Staged, Unowned, Shadowed, install, threads, memory, program
  <2> QED BY <2>1, <2>2, <2>3, <2>4, <2>5, <2>6, <2>7, <2>8, <2>9 DEF Handle
<1>7. ASSUME NEW t \in Threads, Program(t) PROVE TypeInv'
  <2>s. stage = "done"
    BY <1>7 DEF Program, Sigaction, Query, Signal, Access, Mmap, Undefined, Running, Return, TypeOK, Staged
  <2>1. ASSUME NEW s \in Sigs, NEW a \in Actions, Sigaction(t, s, a) PROVE TypeInv'
    <3>1. a \in Action
      BY ActionFacts
    <3>2. Report(t, s, a, TRUE) \/ Real(s, a, TRUE)
      BY <2>1 DEF Sigaction
    <3>3. /\ kernel' \in [Sigs -> Action \cup {OnSigill, OnCrash}]
          /\ saved' \in [Sigs -> Action]
          /\ call' \in [Threads -> InCall \cup {NoCall}]
          /\ res' \in Told
          /\ \A r \in Sigs : kernel'[r] = kernel[r] \/ kernel'[r] \in Action
      BY <3>1, <3>2, SetTypes
    <3> QED BY <2>s, <2>1, <3>3 DEF Sigaction, Told, TypeOK, Staged, Unowned, Shadowed, install, threads, memory
  <2>2. ASSUME NEW s \in Sigs, Query(t, s) PROVE TypeInv'
    <3>1. res' \in Told
      BY <2>2, KernelTold DEF Query, TypeOK
    <3> QED BY <2>s, <2>2, <3>1 DEF Query, Told, TypeOK, Staged, Unowned, Shadowed, install, threads, memory
  <2>3. ASSUME NEW s \in Sigs, NEW h \in Handlers \cup {"dfl"}, Signal(t, s, h) PROVE TypeInv'
    <3>1. [h |-> h, info |-> FALSE] \in Action
      BY ActionFacts
    <3>2. Report(t, s, [h |-> h, info |-> FALSE], FALSE) \/ Real(s, [h |-> h, info |-> FALSE], FALSE)
      BY <2>3 DEF Signal
    <3>3. /\ kernel' \in [Sigs -> Action \cup {OnSigill, OnCrash}]
          /\ saved' \in [Sigs -> Action]
          /\ call' \in [Threads -> InCall \cup {NoCall}]
          /\ res' \in Told
          /\ \A r \in Sigs : kernel'[r] = kernel[r] \/ kernel'[r] \in Action
      BY <3>1, <3>2, SetTypes
    <3> QED BY <2>s, <2>3, <3>3 DEF Signal, Told, TypeOK, Staged, Unowned, Shadowed, install, threads, memory
  <2>4. ASSUME NEW p \in Pages, Access(t, p) PROVE TypeInv'
    <3> DEFINE s == IF page[p] = "gap" THEN "segv" ELSE "bus"
    <3>1. s \in Sigs /\ kernel[s] \in Action \cup {OnSigill, OnCrash}
      BY DEF TypeOK, Sigs, Crash
    <3>2. CASE kernel[s] = OnCrash
      BY <2>s, <2>4, <3>1, <3>2 DEF Access, Enter, TypeOK, Staged, Unowned, Shadowed, install, memory, Handling, Fixing
    <3>3. CASE kernel[s] # OnCrash
      BY <2>s, <2>4, <3>1, <3>3, CallTypes DEF Access, TypeOK, Staged, Unowned, Shadowed, install, memory
    <3> QED BY <3>2, <3>3
  <2>5. ASSUME NEW p \in Pages, Mmap(t, p) PROVE TypeInv'
    BY <2>s, <2>5 DEF Mmap, TypeOK, Staged, Unowned, Shadowed, install, threads, program
  <2>6. CASE Undefined(t)
    <3>1. Ill \in Sigs /\ kernel[Ill] \in Action \cup {OnSigill, OnCrash}
      BY DEF TypeOK, Sigs
    <3>2. CASE kernel[Ill] = OnSigill
      BY <2>s, <2>6, <3>1, <3>2, <1>p DEF Undefined, Enter, TypeOK, Staged, Unowned, Shadowed, install, memory, Handling, Fixing
    <3>3. CASE kernel[Ill] # OnSigill
      BY <2>s, <2>6, <3>1, <3>3, CallTypes DEF Undefined, TypeOK, Staged, Unowned, Shadowed, install, memory
    <3> QED BY <3>2, <3>3
  <2>7. CASE Return(t)
    BY <2>s, <2>7, <1>p DEF Return, Goto, TypeOK, Staged, Unowned, Shadowed, install, memory, Handling, Fixing, Sigs
  <2> QED BY <1>7, <2>1, <2>2, <2>3, <2>4, <2>5, <2>6, <2>7 DEF Program
<1>8. CASE UNCHANGED vars
  BY <1>8 DEF vars, install, threads, memory, program, TypeOK, Staged, Unowned, Shadowed
<1> QED BY <1>1, <1>2, <1>3, <1>4, <1>5, <1>6, <1>7, <1>8 DEF Next, Install

\* Every variable keeps its type, whatever the program does.
THEOREM TypeCorrect == Spec => []TypeOK
<1>1. Spec => []TypeInv
  BY InitTypes, StepTypes, PTL DEF Spec
<1>2. TypeInv => TypeOK
  BY DEF TypeInv
<1> QED BY <1>1, <1>2, PTL

-----------------------------------------------------------------------------
(* Ownership *)

On(s) == IF s = Ill THEN OnSigill ELSE OnCrash

\* Only the way to the process's end takes a handler of the emulator out of the
\* kernel.
Kept == \A s \in Shadowed : kernel[s] = On(s) \/ (kernel[s] = Default /\ life # "up")

\* Only a thread on that way restores the default disposition.
Doomed == \A t \in Threads : pc[t] \in {"default", "raise"} => life # "up"

OwnInv == TypeInv /\ Kept /\ Doomed

\* The constructor gives the emulator what it now shadows; the program is not
\* running.
LEMMA InstallKeeps == OwnInv /\ Install => Kept' /\ Doomed'
<1> SUFFICES ASSUME OwnInv, Install PROVE Kept' /\ Doomed'
  OBVIOUS
<1> USE DEF OwnInv, TypeInv
<1>1. Doomed'
  BY DEF Install, Arm, Own, ArmSegv, ArmBus, OwnCrash, Staged, Doomed, threads, program
<1>2. CASE Arm
  BY <1>1, <1>2 DEF Arm, TypeOK, Staged, Kept, On, Shadowed, program, Sigs, Crash, Ill
<1>3. CASE Own
  BY <1>1, <1>3 DEF Own, TypeOK, Staged, Kept, On, Shadowed, program, Sigs, Crash, Ill
<1>4. CASE ArmSegv
  BY <1>1, <1>4 DEF ArmSegv, TypeOK, Staged, Kept, On, Shadowed, program, Sigs, Crash, Ill
<1>5. CASE ArmBus
  BY <1>1, <1>5 DEF ArmBus, TypeOK, Staged, Kept, On, Shadowed, program, Sigs, Crash, Ill
<1>6. CASE OwnCrash
  BY <1>1, <1>6 DEF OwnCrash, TypeOK, Staged, Kept, On, Shadowed, program, Sigs, Crash, Ill
<1> QED BY <1>1, <1>2, <1>3, <1>4, <1>5, <1>6 DEF Install

\* A call ends in "raise" only when it dooms the process, which is never undone.
LEMMA CallDooms ==
    ASSUME TypeOK, Doomed, life # "dead", NEW t \in Threads, NEW a, Call(t, a)
    PROVE  Doomed' /\ (life # "up" => life' # "up")
BY DEF TypeOK, Doomed, Call, Goto

LEMMA HandleKeeps == ASSUME OwnInv, NEW t \in Threads, Handle(t) PROVE Kept' /\ Doomed'
<1> USE DEF OwnInv, TypeInv
<1>s. stage = "done"
  BY DEF Staged, Handle, Emulate, CheckGap, CheckBefore, MapZero, Chain, Target, RestoreDefault, Raise, Store
<1>1. CASE Emulate(t) \/ CheckGap(t) \/ CheckBefore(t) \/ MapZero(t)
  <2>1. UNCHANGED <<kernel, install, life>>
    BY <1>1 DEF Emulate, CheckGap, CheckBefore, MapZero, program
  <2>2. \A u \in Threads : pc'[u] \in {"default", "raise"} => pc[u] = pc'[u]
    BY <1>1 DEF Emulate, CheckGap, CheckBefore, MapZero, Goto, TypeOK
  <2> QED BY <2>1, <2>2 DEF Kept, Doomed, Shadowed, install
<1>2. CASE Target(t)
  <2>1. Doomed' /\ (life # "up" => life' # "up")
    BY <1>2, CallDooms DEF Target, Doomed, Goto, TypeOK, Handle
  <2> QED BY <1>2, <2>1 DEF Target, Kept, Shadowed, install
<1>3. CASE RestoreDefault(t)
  BY <1>3 DEF RestoreDefault, Goto, Kept, Doomed, Shadowed, TypeOK, install, program, Sigs, Crash
<1>4. CASE Raise(t)
  BY <1>4 DEF Raise, Goto, Kept, Doomed, Shadowed, TypeOK, install
<1>5. CASE Chain(t)
  BY <1>5 DEF Chain, Kept, Doomed, Shadowed, TypeOK, install, program
<1>6. CASE Store(t)
  BY <1>6 DEF Store, Kept, Doomed, Shadowed, install, threads, program
<1> QED BY <1>1, <1>2, <1>3, <1>4, <1>5, <1>6 DEF Handle

\* Once the constructor is done, what is shadowed is what is intercepted.
LEMMA ShadowedIntercepted ==
    ASSUME stage = "done", NEW s \in Sigs PROVE s \in Shadowed <=> Intercepted(s)
BY DEF Shadowed, Intercepted, Sigs, Crash, Ill

LEMMA ProgramKeeps ==
    ASSUME "signal" \notin Uses, OwnInv, NEW t \in Threads, Program(t)
    PROVE  Kept' /\ Doomed'
<1> USE DEF OwnInv, TypeInv
<1>s. stage = "done" /\ life # "dead"
  BY DEF Program, Sigaction, Query, Signal, Access, Mmap, Undefined, Running, Return, TypeOK, Staged
<1>1. ASSUME NEW s \in Sigs, NEW a \in Actions, Sigaction(t, s, a) PROVE Kept' /\ Doomed'
  <2>1. UNCHANGED <<install, threads, life>> /\ (s \in Shadowed => UNCHANGED kernel)
    BY <1>s, <1>1, ShadowedIntercepted DEF Sigaction, Report
  <2>2. \A r \in Sigs : r # s => kernel'[r] = kernel[r]
    BY <1>1 DEF Sigaction, Report, Real, TypeOK
  <2>3. Shadowed \subseteq Sigs
    BY DEF Shadowed, Sigs, Crash
  <2> QED BY <2>1, <2>2, <2>3 DEF Kept, Doomed, Shadowed, install, threads
<1>2. ASSUME NEW s \in Sigs, Query(t, s) PROVE Kept' /\ Doomed'
  BY <1>2 DEF Query, Kept, Doomed, Shadowed, install, threads
<1>3. ASSUME NEW s \in Sigs, NEW h \in Handlers \cup {"dfl"}, Signal(t, s, h) PROVE Kept' /\ Doomed'
  <2>1. UNCHANGED <<install, threads, life>> /\ (s \in Shadowed => UNCHANGED kernel)
    BY <1>s, <1>3 DEF Signal, Report, Shadowed, Sigs, Crash, Ill
  <2>2. \A r \in Sigs : r # s => kernel'[r] = kernel[r]
    BY <1>3 DEF Signal, Report, Real, TypeOK
  <2>3. Shadowed \subseteq Sigs
    BY DEF Shadowed, Sigs, Crash
  <2> QED BY <2>1, <2>2, <2>3 DEF Kept, Doomed, Shadowed, install, threads
<1>4. ASSUME NEW p \in Pages, Access(t, p) PROVE Kept' /\ Doomed'
  <2>1. Doomed' /\ (life # "up" => life' # "up")
    BY <1>s, <1>4, CallDooms DEF Access, Enter, Doomed, TypeOK
  <2> QED BY <1>4, <2>1 DEF Access, Kept, Shadowed, install
<1>5. ASSUME NEW p \in Pages, Mmap(t, p) PROVE Kept' /\ Doomed'
  BY <1>5 DEF Mmap, Kept, Doomed, Shadowed, install, threads, program
<1>6. CASE Undefined(t)
  <2>1. Doomed' /\ (life # "up" => life' # "up")
    BY <1>s, <1>6, CallDooms DEF Undefined, Enter, Doomed, TypeOK
  <2> QED BY <1>6, <2>1 DEF Undefined, Kept, Shadowed, install
<1>7. CASE Return(t)
  BY <1>7 DEF Return, Goto, Kept, Doomed, Shadowed, TypeOK, install
<1> QED BY <1>1, <1>2, <1>3, <1>4, <1>5, <1>6, <1>7 DEF Program

LEMMA OwnInductive ==
    ASSUME "signal" \notin Uses
    PROVE  (Init => OwnInv) /\ (OwnInv /\ [Next]_vars => OwnInv')
<1>1. Init => Kept /\ Doomed
  BY DEF Init, Kept, Doomed, Shadowed
<1>2. OwnInv /\ UNCHANGED vars => Kept' /\ Doomed'
  BY DEF OwnInv, Kept, Doomed, Shadowed, vars, install, threads, program
<1>3. OwnInv /\ Next => Kept' /\ Doomed'
  BY InstallKeeps, HandleKeeps, ProgramKeeps DEF Next
<1> QED BY <1>1, <1>2, <1>3, InitTypes, StepTypes DEF OwnInv

\* A program that leaves signal() alone for the crash signals cannot displace
\* the emulator's handlers (avxemu_sigaction).
THEOREM OwnershipKept == ASSUME "signal" \notin Uses PROVE Spec => []Frontline
<1>1. Spec => []OwnInv
  BY OwnInductive, PTL DEF Spec
<1>2. OwnInv => Frontline
  BY DEF OwnInv, TypeInv, Kept, On, Frontline, Shadowed, Crash, Ill
<1> QED BY <1>1, <1>2, PTL

-----------------------------------------------------------------------------
(* What the program sees *)

\* SIG_IGN is not combined with SA_SIGINFO: POSIX leaves that meaningless, and
\* the chain would call it.
Plain(a) == a.h = "ign" => ~a.info

PlainActions == \A a \in Actions : Plain(a)

\* A thread is in a handler of the program when it is meant to be, is in one of
\* the emulator's only for a signal the emulator has taken, and no disposition
\* in the kernel hides SIG_IGN.
Placed ==
    /\ \A t \in Threads : run[t] # None <=> pc[t] = "user"
    /\ \A t \in Threads : pc[t] \in Handling \ {"raise"} => sig[t] \in Shadowed
    /\ \A s \in Sigs \ Shadowed : Plain(kernel[s])

\* No two threads store one disposition.
Alone == \A t, u \in Threads, s \in Sigs : Setting(t, s) /\ Setting(u, s) => t = u

Quiet(s) == \A t \in Threads : ~Setting(t, s)

\* A disposition is half stored only while a thread is at it; whoever is about to
\* call one has read its flags, and nobody is at it.
Stored ==
    /\ \A t \in Threads : call[t] # NoCall =>
           /\ call[t].sig \in Shadowed
           /\ Plain(call[t].act)
           /\ call[t].half = "info" => saved[call[t].sig].h = call[t].act.h
    /\ \A s \in Sigs : Quiet(s) => Plain(saved[s])
    /\ \A t \in Threads : pc[t] = "target" =>
           info[t] = saved[sig[t]].info /\ Quiet(sig[t])

SeenInv == OwnInv /\ Placed /\ Alone /\ Stored

SigStep == [S!SigNext]_(S!sigVars)

Disp == [s \in Sigs |-> IF s \in Shadowed THEN Shown(s) ELSE kernel[s]]

\* What a disposition counts as.
LEMMA ShownIs ==
    ASSUME Alone, NEW s \in Sigs
    PROVE  /\ Quiet(s) => Shown(s) = saved[s]
           /\ \A t \in Threads : Setting(t, s) => Shown(s) = call[t].act
<1>1. ASSUME NEW t \in Threads, Setting(t, s) PROVE Shown(s) = call[t].act
  <2> DEFINE c == CHOOSE u \in Threads : Setting(u, s)
  <2>1. c \in Threads /\ Setting(c, s)
    BY <1>1
  <2>2. c = t
    BY <1>1, <2>1 DEF Alone
  <2> QED BY <1>1, <2>2 DEF Shown
<1> QED BY <1>1 DEF Quiet, Shown

LEMMA ShownIsNext ==
    ASSUME Alone', NEW s \in Sigs
    PROVE  /\ Quiet(s)' => Shown(s)' = saved'[s]
           /\ \A t \in Threads : Setting(t, s)' => Shown(s)' = call'[t].act
<1>1. ASSUME NEW t \in Threads, Setting(t, s)' PROVE Shown(s)' = call'[t].act
  <2> DEFINE c == CHOOSE u \in Threads : call'[u] # NoCall /\ call'[u].sig = s
  <2>1. c \in Threads /\ call'[c] # NoCall /\ call'[c].sig = s
    BY <1>1 DEF Setting
  <2>2. c = t
    BY <1>1, <2>1 DEF Alone, Setting
  <2> QED BY <1>1, <2>2 DEF Shown, Setting
<1> QED BY <1>1 DEF Quiet, Shown

\* It stays what it is while nobody stores it and nobody comes or goes.
LEMMA ShownSame ==
    ASSUME Alone, Alone', NEW s \in Sigs,
           \A t \in Threads : Setting(t, s)' <=> Setting(t, s),
           \A t \in Threads : Setting(t, s) => call'[t].act = call[t].act,
           Quiet(s) => saved'[s] = saved[s]
    PROVE  Shown(s)' = Shown(s)
<1>1. CASE Quiet(s)
  BY <1>1, ShownIs, ShownIsNext DEF Quiet
<1>2. ASSUME NEW t \in Threads, Setting(t, s) PROVE Shown(s)' = Shown(s)
  BY <1>2, ShownIs, ShownIsNext
<1> QED BY <1>1, <1>2 DEF Quiet

\* Steps that leave the dispositions and the calls alone.
LEMMA StoredKept ==
    ASSUME Alone, Stored, UNCHANGED <<kernel, saved, call, install>>,
           \A t \in Threads : pc'[t] = "target" =>
               /\ sig'[t] = sig[t]
               /\ \/ pc[t] = "target" /\ info'[t] = info[t]
                  \/ info'[t] = saved[sig[t]].info /\ Quiet(sig[t])
    PROVE  Alone' /\ Stored' /\ Disp' = Disp
<1>1. Alone'
  BY DEF Alone, Setting
<1>2. \A s : Quiet(s)' <=> Quiet(s)
  BY DEF Quiet, Setting
<1>3. Shadowed' = Shadowed
  BY DEF Shadowed, install
<1>4. Stored'
  BY <1>2, <1>3 DEF Stored
<1>5. \A s \in Sigs : Shown(s)' = Shown(s)
  BY <1>1, ShownSame DEF Setting
<1> QED BY <1>1, <1>3, <1>4, <1>5 DEF Disp

\* The constructor takes the dispositions over as it finds them.
LEMMA InstallStutters ==
    SeenInv /\ Install => Placed' /\ Alone' /\ Stored' /\ Disp' = Disp /\ UNCHANGED program
<1> SUFFICES ASSUME SeenInv, Install
             PROVE  Placed' /\ Alone' /\ Stored' /\ Disp' = Disp /\ UNCHANGED program
  OBVIOUS
<1> USE DEF SeenInv, OwnInv, TypeInv
<1>p. /\ UNCHANGED <<call, threads, program>>
      /\ \A t \in Threads : pc[t] = "run" /\ call[t] = NoCall
  BY DEF Install, Arm, Own, ArmSegv, ArmBus, OwnCrash, Staged
<1>q. \A s \in Sigs : Quiet(s) /\ Quiet(s)'
  BY <1>p DEF Quiet, Setting
<1>a. Alone'
  BY <1>p DEF Alone, Setting
<1>d. \A s \in Sigs : Shown(s) = saved[s] /\ Shown(s)' = saved'[s]
  BY <1>a, <1>q, ShownIs, ShownIsNext
<1>c. \A s \in Sigs : \/ saved'[s] = saved[s] /\ kernel'[s] = kernel[s] /\ (s \in Shadowed' <=> s \in Shadowed)
                      \/ saved'[s] = kernel[s] /\ s \in Shadowed' \ Shadowed
  <2>1. CASE Arm
    BY <2>1 DEF Arm, TypeOK, Staged, Shadowed, Sigs, Crash, Ill
  <2>2. CASE Own
    BY <2>2 DEF Own, TypeOK, Staged, Shadowed, Sigs, Crash, Ill
  <2>3. CASE ArmSegv
    BY <2>3 DEF ArmSegv, TypeOK, Staged, Shadowed, Sigs, Crash, Ill
  <2>4. CASE ArmBus
    BY <2>4 DEF ArmBus, TypeOK, Staged, Shadowed, Sigs, Crash, Ill
  <2>5. CASE OwnCrash
    BY <2>5 DEF OwnCrash, TypeOK, Staged, Shadowed, Sigs, Crash, Ill
  <2> QED BY <2>1, <2>2, <2>3, <2>4, <2>5 DEF Install
<1>1. Disp' = Disp
  BY <1>c, <1>d DEF Disp
<1>2. Placed'
  BY <1>p, <1>c DEF Placed, threads, program, Handling, Fixing
<1>3. \A s \in Sigs : Plain(saved'[s])
  BY <1>c, <1>q DEF Placed, Stored
<1>4. Stored'
  BY <1>p, <1>3 DEF Stored, threads
<1> QED BY <1>p, <1>a, <1>1, <1>2, <1>4

\* What the abstract step sees: a disposition set, one asked for, and a fault.
LEMMA SetStep ==
    ASSUME SeenInv, NEW s \in Sigs, NEW a \in Action, life # "dead",
           res' \in S!Reports(Disp[s]), Disp' = [Disp EXCEPT ![s] = a], UNCHANGED <<run, life>>
    PROVE  SigStep
<1>1. S!Set(s, a)
  BY DEF S!Set, Disp
<1>2. a \in S!Action
  BY DEF S!Action, Action
<1> QED BY <1>1, <1>2 DEF SigStep, S!SigNext

LEMMA FaultStep ==
    ASSUME SeenInv, NEW t \in Threads, NEW s \in Sigs, life # "dead", pc[t] # "user",
           UNCHANGED <<Disp, res>>,
           \/ Disp[s].h = "dfl" /\ life' = "doomed" /\ UNCHANGED run
           \/ Disp[s].h \in Handlers /\ run' = [run EXCEPT ![t] = Disp[s]] /\ UNCHANGED life
    PROVE  SigStep
<1>1. run[t] = None
  BY DEF SeenInv, Placed
<1>2. S!Fault(t, s)
  BY <1>1, OwnerConstants DEF S!Fault, Disp
<1> QED BY <1>2 DEF SigStep, S!SigNext

LEMMA StutterStep == UNCHANGED <<Disp, res, run, life>> => SigStep
BY DEF SigStep, S!sigVars, Disp

\* A fault of the program that the emulator does not take.
LEMMA CallStep ==
    ASSUME SeenInv, NEW t \in Threads, NEW s \in Sigs, stage = "done", life # "dead",
           pc[t] = "run", kernel[s] # On(s), Call(t, kernel[s]),
           UNCHANGED <<kernel, saved, call, install, res>>
    PROVE  SigStep /\ Placed' /\ Alone' /\ Stored'
<1> USE DEF SeenInv, OwnInv, TypeInv
<1>a. \A u \in Threads : pc'[u] = "target" => u # t /\ pc[u] = "target"
  BY DEF Call, Goto, TypeOK
<1>b. \A u \in Threads : u # t => sig'[u] = sig[u] /\ info'[u] = info[u]
  BY DEF Call, Goto, TypeOK
<1>c. Alone' /\ Stored' /\ Disp' = Disp
  BY <1>a, <1>b, StoredKept
<1>1. UNCHANGED Disp /\ UNCHANGED Shadowed
  BY <1>c DEF Shadowed, install
<1> SUFFICES SigStep /\ Placed'
  BY <1>c
<1>2. CASE s \in Shadowed
  <2>1. kernel[s] = Default /\ life = "doomed"
    BY <1>2 DEF Kept, TypeOK
  <2>2. Goto(t, "raise") /\ UNCHANGED <<run, life>>
    BY <2>1, OwnerConstants DEF Call, Default, TypeOK
  <2>3. Placed'
    BY <1>1, <2>2 DEF Placed, Goto, TypeOK, install
  <2> QED BY <1>1, <2>2, <2>3, StutterStep
<1>3. CASE s \notin Shadowed
  <2>1. kernel[s] \in Action /\ Disp[s] = kernel[s]
    BY <1>3 DEF Unowned, Disp
  <2>2. CASE kernel[s].h \in Handlers
    <3>1. Goto(t, "user") /\ run' = [run EXCEPT ![t] = kernel[s]] /\ UNCHANGED life
      BY <2>2 DEF Call
    <3>2. SigStep
      BY <1>1, <2>1, <2>2, <3>1, FaultStep
    <3>3. Placed'
      BY <1>1, <2>1, <3>1, ActionFacts DEF Placed, Goto, TypeOK, Handling, Fixing
    <3> QED BY <3>2, <3>3
  <2>3. CASE kernel[s].h = "ign"
    <3>1. Goto(t, "run") /\ UNCHANGED <<run, life>>
      BY <2>3, OwnerConstants DEF Call
    <3>2. Placed'
      BY <1>1, <3>1 DEF Placed, Goto, TypeOK, Handling, Fixing
    <3> QED BY <1>1, <3>1, <3>2, StutterStep
  <2>4. CASE kernel[s].h = "dfl"
    <3>1. Goto(t, "raise") /\ life' = "doomed" /\ UNCHANGED run
      BY <2>4, OwnerConstants DEF Call
    <3>2. SigStep
      BY <1>1, <2>1, <2>4, <3>1, FaultStep
    <3>3. Placed'
      BY <1>1, <3>1 DEF Placed, Goto, TypeOK, Handling, Fixing
    <3> QED BY <3>2, <3>3
  <2> QED BY <2>1, <2>2, <2>3, <2>4, ActionFacts
<1> QED BY <1>2, <1>3

\* The emulator's handlers: all of them stutter, but the chain, which is the
\* fault the program sees, and the end of the process.
LEMMA HandleStep ==
    ASSUME "race" \notin Uses, SeenInv, NEW t \in Threads, Handle(t)
    PROVE  SigStep /\ Placed' /\ Alone' /\ Stored'
<1> USE DEF SeenInv, OwnInv, TypeInv
<1>0. ASSUME UNCHANGED <<kernel, saved, call, install>>,
             NEW stop \in {"run", "user", "chain", "before", "map", "default", "raise"}, Goto(t, stop)
      PROVE  Alone' /\ Stored' /\ UNCHANGED Disp /\ UNCHANGED Shadowed
  <2>1. \A u \in Threads : pc'[u] = "target" => u # t /\ pc[u] = "target"
    BY <1>0 DEF Goto, TypeOK
  <2>2. \A u \in Threads : u # t => sig'[u] = sig[u] /\ info'[u] = info[u]
    BY <1>0 DEF Goto, TypeOK
  <2> QED BY <1>0, <2>1, <2>2, StoredKept DEF Shadowed, install
<1>1. CASE Emulate(t) \/ CheckGap(t) \/ CheckBefore(t) \/ MapZero(t)
  <2>1. UNCHANGED <<kernel, saved, call, install, program>> /\ pc[t] \in Handling \ {"raise"}
    BY <1>1 DEF Emulate, CheckGap, CheckBefore, MapZero, Handling, Fixing
  <2>2. PICK stop \in {"run", "chain", "before", "map"} : Goto(t, stop)
    BY <1>1 DEF Emulate, CheckGap, CheckBefore, MapZero
  <2>3. Placed'
    BY <2>1, <2>2 DEF Placed, Shadowed, Goto, TypeOK, install, program, Handling, Fixing
  <2>4. Alone' /\ Stored' /\ UNCHANGED Disp
    BY <1>0, <2>1, <2>2
  <2> QED BY <2>1, <2>3, <2>4, StutterStep DEF program
<1>2. CASE Chain(t)
  <2>1. /\ UNCHANGED <<kernel, saved, call, install, program, sig>>
        /\ pc[t] = "chain" /\ Quiet(sig[t])
    BY <1>2 DEF Chain, Quiet
  <2>2. \A u \in Threads : pc'[u] = "target" =>
            \/ pc[u] = "target" /\ info'[u] = info[u]
            \/ info'[u] = saved[sig[u]].info /\ Quiet(sig[u])
    BY <1>2, <2>1 DEF Chain, TypeOK
  <2>3. Alone' /\ Stored' /\ Disp' = Disp
    BY <2>1, <2>2, StoredKept
  <2>4. Placed'
    BY <1>2, <2>1 DEF Chain, Placed, Shadowed, install, program, TypeOK, Handling, Fixing
  <2> QED BY <2>1, <2>3, <2>4, StutterStep DEF program
<1>3. CASE Target(t)
  <2> DEFINE a == saved[sig[t]]
  <2>1. sig[t] \in Shadowed /\ sig[t] \in Sigs /\ Quiet(sig[t]) /\ info[t] = a.info
    BY <1>3 DEF Target, Placed, Stored, Handling, TypeOK
  <2>2. a \in Action /\ Disp[sig[t]] = a /\ Plain(a)
    BY <2>1, ShownIs DEF TypeOK, Disp, Stored
  <2>c. [h |-> a.h, info |-> info[t]] = a
    BY <2>1, <2>2 DEF Action
  <2>3. UNCHANGED <<kernel, saved, call, install, res>> /\ pc[t] = "target" /\ life # "dead"
    BY <1>3 DEF Target, Handle
  <2>5. CASE a.h = "dfl"
    <3>1. Goto(t, "default") /\ life' = "doomed" /\ UNCHANGED run
      BY <1>3, <2>5 DEF Target
    <3>2. Alone' /\ Stored' /\ UNCHANGED Disp /\ UNCHANGED Shadowed
      BY <1>0, <2>3, <3>1
    <3>3. SigStep
      BY <2>1, <2>2, <2>3, <2>5, <3>1, <3>2, FaultStep
    <3>4. Placed'
      BY <2>1, <2>3, <3>1, <3>2 DEF Placed, Goto, TypeOK, Handling, Fixing
    <3> QED BY <3>2, <3>3, <3>4
  <2>6. CASE a.h \in Handlers
    <3>1. Goto(t, "user") /\ run' = [run EXCEPT ![t] = a] /\ UNCHANGED life
      BY <1>3, <2>6, <2>c, OwnerConstants DEF Target, Call
    <3>2. Alone' /\ Stored' /\ UNCHANGED Disp /\ UNCHANGED Shadowed
      BY <1>0, <2>3, <3>1
    <3>3. SigStep
      BY <2>1, <2>2, <2>3, <2>6, <3>1, <3>2, FaultStep
    <3>4. Placed'
      BY <2>2, <2>3, <3>1, <3>2, ActionFacts DEF Placed, Goto, TypeOK, Handling, Fixing
    <3> QED BY <3>2, <3>3, <3>4
  <2>7. CASE a.h = "ign"
    <3>1. Goto(t, "run") /\ UNCHANGED <<run, life>>
      BY <1>3, <2>1, <2>2, <2>7, OwnerConstants DEF Target, Call, Plain
    <3>2. Alone' /\ Stored' /\ UNCHANGED Disp /\ UNCHANGED Shadowed
      BY <1>0, <2>3, <3>1
    <3>3. Placed'
      BY <2>3, <3>1, <3>2 DEF Placed, Goto, TypeOK, Handling, Fixing
    <3> QED BY <2>3, <3>1, <3>2, <3>3, StutterStep
  <2> QED BY <2>2, <2>5, <2>6, <2>7, ActionFacts
<1>4. CASE RestoreDefault(t)
  <2>1. sig[t] \in Shadowed
    BY <1>4 DEF RestoreDefault, Placed, Handling
  <2>2. Goto(t, "raise") /\ UNCHANGED <<saved, call, install, program>>
    BY <1>4 DEF RestoreDefault
  <2>3. \A u \in Threads : pc'[u] = "target" => pc[u] = "target" /\ sig'[u] = sig[u] /\ info'[u] = info[u]
    BY <2>2 DEF Goto, TypeOK
  <2>4. Shadowed' = Shadowed /\ \A r \in Sigs \ Shadowed : kernel'[r] = kernel[r]
    BY <1>4, <2>1, <2>2 DEF RestoreDefault, Shadowed, install, TypeOK
  <2>5. Alone' /\ \A r : Quiet(r)' <=> Quiet(r)
    BY <2>2 DEF Alone, Quiet, Setting
  <2>6. Stored'
    BY <2>2, <2>3, <2>4, <2>5 DEF Stored
  <2>7. \A r \in Sigs : Shown(r)' = Shown(r)
    BY <2>2, <2>5, ShownSame DEF Setting
  <2>8. UNCHANGED Disp
    BY <2>4, <2>7 DEF Disp
  <2>9. Placed'
    <3>1. sig' = sig /\ pc' = [pc EXCEPT ![t] = "raise"] /\ run' = run /\ pc[t] = "default"
      BY <1>4, <2>2 DEF RestoreDefault, Goto, program
    <3> QED BY <2>1, <2>4, <3>1 DEF Placed, TypeOK, Handling, Fixing
  <2> QED BY <2>2, <2>5, <2>6, <2>8, <2>9, StutterStep DEF program
<1>5. CASE Raise(t)
  <2>1. life = "doomed"
    BY <1>5 DEF Raise, Doomed, Handle, TypeOK
  <2>2. Goto(t, "run") /\ UNCHANGED <<kernel, saved, call, install, res, run>> /\ life' = "dead"
    BY <1>5 DEF Raise
  <2>3. Alone' /\ Stored' /\ UNCHANGED Disp
    BY <1>0, <2>2
  <2>4. S!Exit
    BY <2>1, <2>2, <2>3 DEF S!Exit, Disp
  <2>5. Placed'
    BY <1>5, <2>2 DEF Raise, Placed, Goto, Shadowed, install, TypeOK, Handling, Fixing
  <2> QED BY <2>3, <2>4, <2>5 DEF SigStep, S!SigNext
<1>6. CASE Store(t)
  <2>a. call[t] # NoCall /\ call[t] \in InCall
    BY <1>6 DEF Store, TypeOK
  <2>0. PICK r \in Sigs, a \in Action : r = call[t].sig /\ a = call[t].act
    BY <2>a DEF InCall
  <2>1. /\ UNCHANGED <<kernel, install, threads, program>>
        /\ call[t] \in InCall /\ Setting(t, r)
        /\ r \in Shadowed /\ Plain(a) /\ saved[r] \in Action
    BY <1>6, <2>a, <2>0 DEF Store, Stored, Setting, TypeOK
  <2>2. \A u \in Threads : u # t => call'[u] = call[u]
    BY <1>6 DEF Store, TypeOK
  <2>3. \A q \in Sigs : q # r => saved'[q] = saved[q]
    BY <1>6, <2>0 DEF Store, TypeOK
  <2>4. \A u \in Threads : Setting(u, r) => u = t
    BY <2>1, <2>0 DEF Alone
  <2>5. Shadowed' = Shadowed
    BY <2>1, <2>0 DEF Shadowed, install
  <2>6. CASE call[t].half = "h"
    <3>1. call'[t] = [call[t] EXCEPT !.half = "info"] /\ saved'[r].h = a.h
      BY <1>6, <2>1, <2>0, <2>6 DEF Store, TypeOK, Action
    <3>2. call'[t].sig = r /\ call'[t].act = a /\ call'[t].half = "info" /\ call'[t] # NoCall
      BY <2>1, <2>0, <3>1 DEF InCall, NoCall
    <3>3. \A u \in Threads, q \in Sigs : Setting(u, q)' <=> Setting(u, q)
      BY <2>1, <2>0, <2>2, <3>2 DEF Setting
    <3>4. Alone' /\ \A q \in Sigs : Quiet(q)' <=> Quiet(q)
      BY <3>3 DEF Alone, Quiet
    <3>5. \A u \in Threads : call'[u].act = call[u].act
      BY <2>0, <2>2, <3>2
    <3>6. \A q \in Sigs : Quiet(q) => saved'[q] = saved[q]
      BY <2>1, <2>0, <2>3 DEF Quiet
    <3>7. \A q \in Sigs : Shown(q)' = Shown(q)
      BY <3>3, <3>4, <3>5, <3>6, ShownSame
    <3>8. UNCHANGED Disp
      BY <2>1, <2>0, <2>5, <3>7 DEF Disp
    <3>9. Stored'
      <4>1. ASSUME NEW u \in Threads, call'[u] # NoCall
            PROVE  /\ call'[u].sig \in Shadowed'
                   /\ Plain(call'[u].act)
                   /\ call'[u].half = "info" => saved'[call'[u].sig].h = call'[u].act.h
        <5>1. CASE u = t
          BY <2>1, <2>0, <2>5, <3>1, <3>2, <5>1
        <5>2. CASE u # t
          <6>1. call'[u] = call[u] /\ call[u] # NoCall /\ call[u].sig \in Sigs
            BY <2>2, <4>1, <5>2 DEF TypeOK, InCall
          <6>2. call[u].sig # r
            BY <2>4, <5>2, <6>1 DEF Setting
          <6> QED BY <2>3, <2>5, <6>1, <6>2 DEF Stored
        <5> QED BY <5>1, <5>2
      <4>2. \A q \in Sigs : Quiet(q)' => Plain(saved'[q])
        BY <3>4, <3>6 DEF Stored
      <4>3. \A u \in Threads : pc'[u] = "target" => info'[u] = saved'[sig'[u]].info /\ Quiet(sig[u])'
        BY <2>1, <2>0, <3>4, <3>6 DEF Stored, threads, TypeOK
      <4> QED BY <2>1, <2>0, <4>1, <4>2, <4>3 DEF Stored, threads
    <3> QED BY <2>1, <2>0, <2>5, <3>4, <3>8, <3>9, StutterStep DEF Placed, threads, program
  <2>7. CASE call[t].half = "info"
    <3>1. call'[t] = NoCall /\ saved'[r] = [saved[r] EXCEPT !.info = a.info]
      BY <1>6, <2>1, <2>0, <2>7 DEF Store, TypeOK
    <3>2. saved[r].h = a.h
      BY <1>6, <2>1, <2>0, <2>7 DEF Store, Stored
    <3>3. saved'[r] = a
      BY <2>1, <2>0, <3>1, <3>2 DEF Action
    <3>4. \A u \in Threads, q \in Sigs : Setting(u, q)' <=> u # t /\ Setting(u, q)
      BY <2>2, <3>1 DEF Setting
    <3>a. \A q \in Sigs : q # r => ~Setting(t, q)
      BY <2>0 DEF Setting
    <3>b. Quiet(r)'
      BY <2>1, <2>0, <2>4, <3>4 DEF Quiet
    <3>c. Alone'
      BY <3>4 DEF Alone
    <3>d. \A q \in Sigs : q # r => (Quiet(q)' <=> Quiet(q))
      BY <3>4, <3>a DEF Quiet
    <3>5. Alone' /\ Quiet(r)' /\ \A q \in Sigs : q # r => (Quiet(q)' <=> Quiet(q))
      BY <3>b, <3>c, <3>d
    <3>6. \A u \in Threads, q \in Sigs : q # r /\ Setting(u, q) => call'[u].act = call[u].act
      BY <2>1, <2>0, <2>2 DEF Setting
    <3>7. \A q \in Sigs : q # r => Shown(q)' = Shown(q)
      <4> SUFFICES ASSUME NEW q \in Sigs, q # r PROVE Shown(q)' = Shown(q)
        OBVIOUS
      <4>1. \A u \in Threads : Setting(u, q)' <=> Setting(u, q)
        BY <3>4, <3>a
      <4> QED BY <2>3, <3>5, <3>6, <4>1, ShownSame
    <3>8. Shown(r)' = Shown(r)
      <4>1. Shown(r) = a
        BY <2>1, <2>0, ShownIs
      <4>2. Shown(r)' = saved'[r]
        BY <3>5, ShownIsNext
      <4> QED BY <3>3, <4>1, <4>2
    <3>9. UNCHANGED Disp
      BY <2>1, <2>0, <2>5, <3>7, <3>8 DEF Disp
    <3>10. Stored'
      <4>1. ASSUME NEW u \in Threads, call'[u] # NoCall
            PROVE  /\ call'[u].sig \in Shadowed'
                   /\ Plain(call'[u].act)
                   /\ call'[u].half = "info" => saved'[call'[u].sig].h = call'[u].act.h
        <5>1. u # t /\ call'[u] = call[u] /\ call[u] # NoCall
          BY <2>2, <3>1, <4>1
        <5>2. call[u].sig \in Sigs
          BY <5>1 DEF TypeOK, InCall
        <5>3. call[u].sig # r
          BY <2>4, <5>1 DEF Setting
        <5> QED BY <2>3, <2>5, <5>1, <5>2, <5>3 DEF Stored
      <4>2. \A q \in Sigs : Quiet(q)' => Plain(saved'[q])
        BY <2>1, <2>0, <2>3, <3>3, <3>5 DEF Stored
      <4>3. \A u \in Threads : pc'[u] = "target" => info'[u] = saved'[sig'[u]].info /\ Quiet(sig[u])'
        <5> SUFFICES ASSUME NEW u \in Threads, pc[u] = "target"
                     PROVE  info[u] = saved'[sig[u]].info /\ Quiet(sig[u])'
          BY <2>1, <2>0 DEF threads
        <5>1. Quiet(sig[u]) /\ info[u] = saved[sig[u]].info /\ sig[u] \in Sigs
          BY DEF Stored, TypeOK
        <5>2. sig[u] # r
          BY <2>1, <2>0, <5>1 DEF Quiet
        <5>3. saved'[sig[u]] = saved[sig[u]] /\ Quiet(sig[u])'
          BY <2>1, <2>0, <2>3, <3>d, <5>1, <5>2 DEF threads
        <5> QED BY <5>1, <5>3
      <4> QED BY <2>1, <2>0, <4>1, <4>2, <4>3 DEF Stored, threads
    <3> QED BY <2>1, <2>0, <2>5, <3>5, <3>9, <3>10, StutterStep DEF Placed, threads, program
  <2> QED BY <2>1, <2>0, <2>6, <2>7 DEF InCall
<1> QED BY <1>1, <1>2, <1>3, <1>4, <1>5, <1>6 DEF Handle

\* Setting a disposition, in the emulator's copy or in the kernel.
LEMMA SettingSteps ==
    ASSUME "race" \notin Uses, SeenInv, NEW t \in Threads, Running(t),
           NEW s \in Sigs, NEW a \in Action, Plain(a), NEW whole \in BOOLEAN,
           IF s \in Shadowed THEN Report(t, s, a, whole) ELSE Real(s, a, whole),
           UNCHANGED <<install, threads, run, life>>
    PROVE  SigStep /\ Placed' /\ Alone' /\ Stored'
<1> USE DEF SeenInv, OwnInv, TypeInv
<1>1. Shadowed' = Shadowed /\ UNCHANGED saved
  BY DEF Shadowed, install, Report, Real
<1>2. \A b \in Action : Answer(b, whole) \in S!Reports(b)
  BY DEF Answer, S!Reports
<1>3. CASE s \in Shadowed
  <2>1. \A u \in Threads \ {t} : ~Setting(u, s) /\ ~(pc[u] = "target" /\ sig[u] = s)
    BY <1>3 DEF Report
  <2>2. call[t] = NoCall /\ ~(pc[t] = "target")
    BY DEF Running
  <2>3. Quiet(s) /\ \A u \in Threads : ~(pc[u] = "target" /\ sig[u] = s)
    BY <2>1, <2>2 DEF Quiet, Setting
  <2>4. call' = [call EXCEPT ![t] = [half |-> "h", sig |-> s, act |-> a]] /\ UNCHANGED kernel
    BY <1>3 DEF Report
  <2>5. /\ call'[t].sig = s /\ call'[t].act = a /\ call'[t].half = "h" /\ call'[t] # NoCall
        /\ \A u \in Threads : u # t => call'[u] = call[u]
    BY <2>4 DEF NoCall, TypeOK
  <2>6. \A u \in Threads, q \in Sigs : Setting(u, q)' <=> Setting(u, q) \/ (u = t /\ q = s)
    BY <2>2, <2>5 DEF Setting
  <2>7. Alone'
    BY <2>3, <2>6 DEF Alone, Quiet
  <2>8. \A q \in Sigs : q # s => (Quiet(q)' <=> Quiet(q))
    BY <2>6 DEF Quiet
  <2>9. Stored'
    <3>1. ASSUME NEW u \in Threads, call'[u] # NoCall
          PROVE  /\ call'[u].sig \in Shadowed'
                 /\ Plain(call'[u].act)
                 /\ call'[u].half = "info" => saved'[call'[u].sig].h = call'[u].act.h
      <4>1. CASE u = t
        BY <1>1, <1>3, <2>5, <4>1
      <4>2. CASE u # t
        BY <1>1, <2>5, <3>1, <4>2 DEF Stored
      <4> QED BY <4>1, <4>2
    <3>2. \A q \in Sigs : Quiet(q)' => Plain(saved'[q])
      BY <1>1, <2>3, <2>8 DEF Stored
    <3>3. \A u \in Threads : pc[u] = "target" => info[u] = saved[sig[u]].info /\ Quiet(sig[u])'
      <4> SUFFICES ASSUME NEW u \in Threads, pc[u] = "target"
                   PROVE  info[u] = saved[sig[u]].info /\ Quiet(sig[u])'
        OBVIOUS
      <4>1. sig[u] # s /\ sig[u] \in Sigs /\ Quiet(sig[u]) /\ info[u] = saved[sig[u]].info
        BY <2>3 DEF Stored, TypeOK
      <4>2. sig'[u] = sig[u]
        BY DEF threads
      <4> QED BY <2>8, <4>1, <4>2
    <3> QED BY <1>1, <3>1, <3>2, <3>3 DEF Stored, threads
  <2>10. Shown(s) = saved[s] /\ Shown(s)' = a
    BY <2>3, <2>5, <2>6, <2>7, ShownIs, ShownIsNext
  <2>11. \A q \in Sigs : q # s => Shown(q)' = Shown(q)
    <3> SUFFICES ASSUME NEW q \in Sigs, q # s PROVE Shown(q)' = Shown(q)
      OBVIOUS
    <3>1. \A u \in Threads : Setting(u, q)' <=> Setting(u, q)
      BY <2>6
    <3>2. \A u \in Threads : Setting(u, q) => call'[u].act = call[u].act
      BY <2>2, <2>5 DEF Setting
    <3> QED BY <1>1, <2>7, <3>1, <3>2, ShownSame
  <2>12. res' \in S!Reports(Disp[s])
    BY <1>2, <1>3, <2>10 DEF Report, Disp, TypeOK
  <2>13. Disp' = [Disp EXCEPT ![s] = a]
    BY <1>1, <1>3, <2>4, <2>10, <2>11 DEF Disp
  <2>14. Placed'
    BY <1>1, <2>4 DEF Placed, threads
  <2> QED BY <2>7, <2>9, <2>12, <2>13, <2>14, SetStep DEF Running
<1>4. CASE s \notin Shadowed
  <2>1. res' = Answer(kernel[s], whole) /\ kernel' = [kernel EXCEPT ![s] = a] /\ UNCHANGED call
    BY <1>4 DEF Real
  <2>2. Alone' /\ \A q : Quiet(q)' <=> Quiet(q)
    BY <2>1 DEF Alone, Quiet, Setting
  <2>3. Stored'
    BY <1>1, <2>1, <2>2 DEF Stored, threads
  <2>4. \A q \in Sigs : Shown(q)' = Shown(q)
    BY <1>1, <2>1, <2>2, ShownSame DEF Setting
  <2>5. kernel[s] \in Action /\ Disp[s] = kernel[s]
    BY <1>4 DEF Unowned, Disp
  <2>6. res' \in S!Reports(Disp[s])
    BY <1>2, <2>1, <2>5
  <2>7. Disp' = [Disp EXCEPT ![s] = a]
    BY <1>1, <1>4, <2>1, <2>4 DEF Disp, TypeOK
  <2>8. Placed'
    BY <1>1, <1>4, <2>1 DEF Placed, threads, TypeOK
  <2> QED BY <2>2, <2>3, <2>6, <2>7, <2>8, SetStep DEF Running
<1> QED BY <1>3, <1>4

\* The program's own steps: sigaction() and signal() set what they set without
\* the emulator, and report what they reported.
LEMMA ProgramStep ==
    ASSUME {"query", "signal", "race"} \cap Uses = {}, PlainActions, SeenInv,
           NEW t \in Threads, Program(t)
    PROVE  SigStep /\ Placed' /\ Alone' /\ Stored'
<1> USE DEF SeenInv, OwnInv, TypeInv
<1>s. stage = "done" /\ life # "dead"
  BY DEF Program, Sigaction, Query, Signal, Access, Mmap, Undefined, Running, Return, TypeOK, Staged
<1>0. ASSUME UNCHANGED <<kernel, saved, call, install>>,
             \A u \in Threads : pc'[u] = "target" => pc[u] = "target" /\ sig'[u] = sig[u] /\ info'[u] = info[u]
      PROVE  Alone' /\ Stored' /\ UNCHANGED Disp /\ UNCHANGED Shadowed
  BY <1>0, StoredKept DEF Shadowed, install
<1>2. ASSUME NEW s \in Sigs, NEW a \in Actions, Sigaction(t, s, a)
      PROVE  SigStep /\ Placed' /\ Alone' /\ Stored'
  <2>1. a \in Action /\ Plain(a)
    BY ActionFacts DEF PlainActions
  <2>2. IF s \in Shadowed THEN Report(t, s, a, TRUE) ELSE Real(s, a, TRUE)
    BY <1>s, <1>2, ShadowedIntercepted DEF Sigaction
  <2>3. Running(t) /\ UNCHANGED <<install, threads, run, life>>
    BY <1>2 DEF Sigaction
  <2> QED BY <2>1, <2>2, <2>3, SettingSteps
<1>3. ASSUME NEW s \in Sigs, Query(t, s) PROVE SigStep /\ Placed' /\ Alone' /\ Stored'
  <2>1. s \notin Shadowed
    BY <1>s, <1>3, ShadowedIntercepted DEF Query
  <2>2. UNCHANGED <<kernel, saved, call, install, threads, run, life>> /\ res' = kernel[s]
    BY <1>3 DEF Query
  <2>3. Alone' /\ Stored' /\ UNCHANGED Disp /\ UNCHANGED Shadowed
    BY <1>0, <2>2 DEF threads
  <2>4. S!Query(s)
    BY <1>s, <2>1, <2>2, <2>3 DEF S!Query, S!Reports, Disp
  <2>5. Placed'
    BY <2>2, <2>3 DEF Placed, threads
  <2> QED BY <2>3, <2>4, <2>5 DEF SigStep, S!SigNext
<1>4. ASSUME NEW s \in Sigs, NEW h \in Handlers \cup {"dfl"}, Signal(t, s, h)
      PROVE  SigStep /\ Placed' /\ Alone' /\ Stored'
  <2> DEFINE b == [h |-> h, info |-> FALSE]
  <2>0. b \in Action /\ b.info = FALSE
    BY ActionFacts
  <2>1. PICK a \in Action : a = b /\ Plain(a)
    BY <2>0 DEF Plain
  <2>2. s \in Shadowed <=> s = Ill /\ owned
    BY <1>s, <1>4 DEF Signal, Shadowed, Sigs, Crash, Ill
  <2>3. IF s \in Shadowed THEN Report(t, s, a, FALSE) ELSE Real(s, a, FALSE)
    BY <1>4, <2>1, <2>2 DEF Signal
  <2>4. Running(t) /\ UNCHANGED <<install, threads, run, life>>
    BY <1>4 DEF Signal
  <2> QED BY <2>1, <2>3, <2>4, SettingSteps
<1>5. ASSUME NEW p \in Pages, Access(t, p) PROVE SigStep /\ Placed' /\ Alone' /\ Stored'
  <2> DEFINE s == IF page[p] = "gap" THEN "segv" ELSE "bus"
  <2>1. s \in Sigs /\ On(s) = OnCrash /\ pc[t] = "run"
    BY <1>5 DEF Access, Sigs, Crash, On, Ill
  <2>2. CASE kernel[s] = OnCrash
    <3>1. s \in Shadowed
      BY <2>1, <2>2, ActionFacts DEF Unowned
    <3>2. Enter(t, "gap", s, p) /\ UNCHANGED <<kernel, saved, call, install, res, run, life>>
      BY <1>5, <2>2 DEF Access
    <3>3. \A u \in Threads : pc'[u] = "target" => pc[u] = "target" /\ sig'[u] = sig[u] /\ info'[u] = info[u]
      BY <3>2 DEF Enter, TypeOK
    <3>4. Alone' /\ Stored' /\ UNCHANGED Disp /\ UNCHANGED Shadowed
      BY <1>0, <3>2, <3>3
    <3>5. Placed'
      BY <2>1, <3>1, <3>2, <3>4 DEF Enter, Placed, TypeOK, Handling, Fixing
    <3> QED BY <3>2, <3>4, <3>5, StutterStep
  <2>3. CASE kernel[s] # OnCrash
    BY <1>s, <1>5, <2>1, <2>3, CallStep DEF Access
  <2> QED BY <2>2, <2>3
<1>6. ASSUME NEW p \in Pages, Mmap(t, p) PROVE SigStep /\ Placed' /\ Alone' /\ Stored'
  <2>1. UNCHANGED <<kernel, saved, call, install, threads, program>>
    BY <1>6 DEF Mmap
  <2>2. Alone' /\ Stored' /\ UNCHANGED Disp /\ UNCHANGED Shadowed
    BY <1>0, <2>1 DEF threads
  <2> QED BY <2>1, <2>2, StutterStep DEF Placed, threads, program
<1>7. CASE Undefined(t)
  <2>1. Ill \in Sigs /\ On(Ill) = OnSigill /\ pc[t] = "run"
    BY <1>7 DEF Undefined, Sigs, On
  <2>2. CASE kernel[Ill] = OnSigill
    <3>1. Ill \in Shadowed
      BY <2>1, <2>2, ActionFacts DEF Unowned
    <3>2. Enter(t, "emulate", Ill, 0) /\ UNCHANGED <<kernel, saved, call, install, res, run, life>>
      BY <1>7, <2>2 DEF Undefined
    <3>3. \A u \in Threads : pc'[u] = "target" => pc[u] = "target" /\ sig'[u] = sig[u] /\ info'[u] = info[u]
      BY <3>2 DEF Enter, TypeOK
    <3>4. Alone' /\ Stored' /\ UNCHANGED Disp /\ UNCHANGED Shadowed
      BY <1>0, <3>2, <3>3
    <3>5. Placed'
      BY <2>1, <3>1, <3>2, <3>4 DEF Enter, Placed, TypeOK, Handling, Fixing
    <3> QED BY <3>2, <3>4, <3>5, StutterStep
  <2>3. CASE kernel[Ill] # OnSigill
    BY <1>s, <1>7, <2>1, <2>3, CallStep DEF Undefined
  <2> QED BY <2>2, <2>3
<1>8. CASE Return(t)
  <2>1. /\ pc[t] = "user" /\ Goto(t, "run") /\ run' = [run EXCEPT ![t] = None]
        /\ UNCHANGED <<kernel, saved, call, install, res, life>>
    BY <1>8 DEF Return
  <2>2. \A u \in Threads : pc'[u] = "target" => pc[u] = "target" /\ sig'[u] = sig[u] /\ info'[u] = info[u]
    BY <2>1 DEF Goto, TypeOK
  <2>3. Alone' /\ Stored' /\ UNCHANGED Disp /\ UNCHANGED Shadowed
    BY <1>0, <2>1, <2>2
  <2>4. S!Leave(t)
    BY <2>1, <2>3 DEF S!Leave, Placed, Disp
  <2>5. Placed'
    BY <2>1, <2>3 DEF Goto, Placed, TypeOK, Handling, Fixing
  <2> QED BY <2>3, <2>4, <2>5 DEF SigStep, S!SigNext
<1> QED BY <1>2, <1>3, <1>4, <1>5, <1>6, <1>7, <1>8 DEF Program

\* For a program that asks for dispositions only while it sets one, leaves
\* signal() alone for the crash signals and has no two threads at one disposition
\* at a time, the emulator cannot be seen, although the handler and the flags of a
\* disposition are stored and read in separate steps: the dispositions are those
\* set, and the program's handlers are run and called as without the emulator.
THEOREM Transparent ==
    ASSUME {"query", "signal", "race"} \cap Uses = {}, PlainActions,
           \A a \in Early : Plain(a)
    PROVE  Spec => ImplementsSignals
<1>1. "signal" \notin Uses /\ "race" \notin Uses
  OBVIOUS
<1>2. Init => SeenInv /\ S!SigInit
  <2> SUFFICES ASSUME Init PROVE SeenInv /\ S!SigInit
    OBVIOUS
  <2>1. OwnInv
    BY <1>1, OwnInductive
  <2>2. Shadowed = {}
    BY DEF Init, Shadowed
  <2>3. Placed
    BY <2>2 DEF Init, Placed, Handling, Fixing
  <2>4. Alone /\ Stored
    BY ActionFacts DEF Init, Alone, Stored, Setting, Quiet, Plain, Default
  <2>5. S!SigInit
    BY <2>2, ActionFacts DEF Init, S!SigInit, S!Action, Action
  <2> QED BY <2>1, <2>3, <2>4, <2>5 DEF SeenInv
<1>3. SeenInv /\ [Next]_vars => SigStep /\ Placed' /\ Alone' /\ Stored'
  <2>1. SeenInv /\ Install => SigStep /\ Placed' /\ Alone' /\ Stored'
    BY InstallStutters, StutterStep DEF program
  <2>2. SeenInv /\ UNCHANGED vars => SigStep /\ Placed' /\ Alone' /\ Stored'
    <3> SUFFICES ASSUME SeenInv, UNCHANGED vars PROVE SigStep /\ Placed' /\ Alone' /\ Stored'
      OBVIOUS
    <3>1. UNCHANGED <<kernel, saved, call, install, threads, program>>
      BY DEF vars
    <3>2. Alone' /\ Stored' /\ Disp' = Disp
      BY <3>1, StoredKept DEF SeenInv, threads
    <3>3. Placed'
      BY <3>1 DEF SeenInv, Placed, Shadowed, install, threads, program
    <3> QED BY <3>1, <3>2, <3>3, StutterStep DEF program
  <2> QED BY <1>1, <2>1, <2>2, HandleStep, ProgramStep DEF Next
<1>4. SeenInv /\ [Next]_vars => SeenInv'
  BY <1>1, <1>3, OwnInductive DEF SeenInv
<1> QED BY <1>2, <1>3, <1>4, PTL DEF Spec, SigStep, ImplementsSignals, S!SigSpec
=============================================================================
