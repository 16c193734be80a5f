------------------------------ MODULE SigOwner ------------------------------
(***************************************************************************)
(* Signal ownership of the AVX emulator, avxemu/src/handler.c.             *)
(*                                                                         *)
(* The emulator's constructor takes SIGILL and, if anything is emulated on *)
(* this CPU, SIGSEGV and SIGBUS.  From then on sigaction() and signal()    *)
(* are its own versions: what the program installs is kept as a chain      *)
(* target, and faults that are not the emulator's business are passed on   *)
(* to it.  Over-reads off the end of a mapped region are repaired by       *)
(* mapping a zero page.                                                    *)
(*                                                                         *)
(* A saved disposition is a structure that is copied, and read, without a  *)
(* lock: its handler and its flags are reached in steps of their own.      *)
(* Decoding, execution, masks and alternate stacks are left out; a thread  *)
(* does not fault again while it is in a handler of the program.           *)
(***************************************************************************)
EXTENDS Integers

CONSTANTS
    Threads, Handlers, None,    \* as in Signals
    Early,      \* the dispositions before the emulator is loaded
    Actions,    \* the dispositions the program installs
    Setters,    \* the threads that install dispositions (a bound)
    Layouts,    \* what the pages are mapped to before the program runs
    LastPage,   \* pages are 0..LastPage, in the order of their addresses
    MaxFixed,   \* the runaway guard of try_fixup_overread
    Uses        \* what the program does besides sigaction(sig, act, old) on the
                \* emulator's signals: "query" (act is NULL), "signal" (signal()
                \* for a crash signal), "mmap" (memory is mapped by one thread
                \* while another is in the crash handler), "race" (a disposition
                \* is set while another thread sets it or is about to call it)

Ill   == "ill"
Crash == {"segv", "bus"}
Sigs  == {Ill} \cup Crash
Pages == 0..LastPage

VARIABLES
    kernel,     \* external: the kernel's disposition of each signal
    saved,      \* g_old, g_old_segv and g_old_bus
    owned,      \* g_owned_sigill
    ownsCrash,  \* g_owns_crash
    stage,      \* how far avxemu_install has come
    pc,         \* where each thread is
    sig,        \* the signal each thread handles
    at,         \* the page whose access faulted
    info,       \* sa_flags & SA_SIGINFO as a thread in a chain has read it
    call,       \* the interposed sigaction() each thread is in
    fixed,      \* g_overread_pages
    page,       \* external: what each page is mapped to
    res, run, life      \* as in Signals

install == <<owned, ownsCrash, stage>>
threads == <<pc, sig, at, info>>
memory  == <<fixed, page>>
program == <<res, run, life>>
vars    == <<kernel, saved, call, install, threads, memory, program>>

Action   == [h : Handlers \cup {"dfl", "ign"}, info : BOOLEAN]
Default  == [h |-> "dfl", info |-> FALSE]
OnSigill == [h |-> "on_sigill", info |-> TRUE]
OnCrash  == [h |-> "on_crash", info |-> TRUE]

ASSUME OwnerConstants ==
    /\ Handlers \cap {"dfl", "ign", "on_sigill", "on_crash"} = {}
    /\ None \notin Action
    /\ Early \subseteq Action /\ Actions \subseteq Action
    /\ Setters \subseteq Threads
    /\ Layouts \subseteq [0..LastPage -> {"gap", "guard", "data"}]
    /\ LastPage \in Nat /\ MaxFixed \in Nat
    /\ Uses \subseteq {"query", "signal", "mmap", "race"}

\* Inside try_fixup_overread, and inside any handler of the emulator.
Fixing   == {"gap", "before", "map"}
Handling == Fixing \cup {"emulate", "chain", "target", "default", "raise"}

\* An interposed sigaction() has reported the old disposition and is to store the
\* two halves of the new one, the handler and then the flags.
NoCall == [half |-> "none", sig |-> Ill, act |-> Default]
InCall == [half : {"h", "info"}, sig : Sigs, act : Action]

TypeOK ==
    /\ kernel \in [Sigs -> Action \cup {OnSigill, OnCrash}]
    /\ saved \in [Sigs -> Action]
    /\ owned \in BOOLEAN /\ ownsCrash \in BOOLEAN
    /\ stage \in {"start", "own", "patch", "bus", "flag", "done"}
    /\ pc \in [Threads -> {"run", "user"} \cup Handling]
    /\ sig \in [Threads -> Sigs]
    /\ at \in [Threads -> Pages]
    /\ info \in [Threads -> BOOLEAN]
    /\ call \in [Threads -> InCall \cup {NoCall}]
    /\ fixed \in Nat
    /\ page \in [Pages -> {"gap", "guard", "data", "zero"}]
    /\ res \in [h : Handlers \cup {"dfl", "ign", "on_sigill", "on_crash"}, info : BOOLEAN]
                  \cup {None}
    /\ run \in [Threads -> {None} \cup Action]
    /\ life \in {"up", "doomed", "dead"}

\* Handlers may be in place before the emulator is loaded.
Init ==
    /\ kernel \in [Sigs -> Early]
    /\ saved = [s \in Sigs |-> Default]
    /\ owned = FALSE /\ ownsCrash = FALSE
    /\ stage = "start"
    /\ pc = [t \in Threads |-> "run"]
    /\ sig = [t \in Threads |-> Ill]
    /\ at = [t \in Threads |-> 0]
    /\ info = [t \in Threads |-> FALSE]
    /\ call = [t \in Threads |-> NoCall]
    /\ fixed = 0
    /\ page \in Layouts
    /\ res = None
    /\ run = [t \in Threads |-> None]
    /\ life = "up"

\* A thread goes on elsewhere; what it no longer needs is forgotten.
Goto(t, stop) ==
    /\ pc' = [pc EXCEPT ![t] = stop]
    /\ sig' = IF stop \in {"run", "user"} THEN [sig EXCEPT ![t] = Ill] ELSE sig
    /\ at' = IF stop \in Fixing THEN at ELSE [at EXCEPT ![t] = 0]
    /\ info' = IF stop = "target" THEN info ELSE [info EXCEPT ![t] = FALSE]

\* The kernel runs the emulator's handler, at its first stage.
Enter(t, stop, s, p) ==
    /\ pc' = [pc EXCEPT ![t] = stop]
    /\ sig' = [sig EXCEPT ![t] = s]
    /\ at' = [at EXCEPT ![t] = p]
    /\ UNCHANGED info

-----------------------------------------------------------------------------
(* avxemu_install: the constructor, run by dyld before the program *)

\* AVXEMU_DISABLE is set or sigaction fails; else SIGILL is taken, and what was
\* there becomes g_old.
Arm ==
    /\ stage = "start"
    /\ \/ stage' = "done" /\ UNCHANGED <<kernel, saved>>
       \/ /\ kernel' = [kernel EXCEPT ![Ill] = OnSigill]
          /\ saved' = [saved EXCEPT ![Ill] = kernel[Ill]]
          /\ stage' = "own"
    /\ UNCHANGED <<owned, ownsCrash, call, threads, memory, program>>

Own ==
    /\ stage = "own"
    /\ owned' = TRUE
    /\ stage' = "patch"
    /\ UNCHANGED <<kernel, saved, call, ownsCrash, threads, memory, program>>

\* Nothing in the program needs emulation on this CPU, or SIGSEGV is taken.
ArmSegv ==
    /\ stage = "patch"
    /\ \/ stage' = "done" /\ UNCHANGED <<kernel, saved>>
       \/ /\ kernel' = [kernel EXCEPT !["segv"] = OnCrash]
          /\ saved' = [saved EXCEPT !["segv"] = kernel["segv"]]
          /\ stage' = "bus"
    /\ UNCHANGED <<owned, ownsCrash, call, threads, memory, program>>

ArmBus ==
    /\ stage = "bus"
    /\ kernel' = [kernel EXCEPT !["bus"] = OnCrash]
    /\ saved' = [saved EXCEPT !["bus"] = kernel["bus"]]
    /\ stage' = "flag"
    /\ UNCHANGED <<owned, ownsCrash, call, threads, memory, program>>

OwnCrash ==
    /\ stage = "flag"
    /\ ownsCrash' = TRUE
    /\ stage' = "done"
    /\ UNCHANGED <<kernel, saved, call, owned, threads, memory, program>>

-----------------------------------------------------------------------------
(* avxemu_sigaction and avxemu_signal *)

Running(t) == /\ stage = "done" /\ life # "dead" /\ pc[t] \in {"run", "user"}
              /\ call[t] = NoCall

\* Mutation of Intercepted: only SIGILL is.
InterceptedIll(s) == s = Ill /\ owned

\* The emulator's copy is asked for, not the kernel's.
Intercepted(s) == IF s = Ill THEN owned ELSE ownsCrash

Setting(t, s) == call[t] # NoCall /\ call[t].sig = s

\* What the caller is told of a disposition: signal() tells the handler alone.
Answer(a, whole) == IF whole THEN a ELSE [a EXCEPT !.info = FALSE]

\* The interposed function: *old = g_old, after which g_old = *act is to come.
Report(t, s, a, whole) ==
    /\ \/ "race" \in Uses
       \/ \A u \in Threads \ {t} : ~Setting(u, s) /\ ~(pc[u] = "target" /\ sig[u] = s)
    /\ res' = Answer(saved[s], whole)
    /\ call' = [call EXCEPT ![t] = [half |-> "h", sig |-> s, act |-> a]]
    /\ UNCHANGED <<kernel, saved>>

\* The real one is a system call.
Real(s, a, whole) ==
    /\ res' = Answer(kernel[s], whole)
    /\ kernel' = [kernel EXCEPT ![s] = a]
    /\ UNCHANGED <<saved, call>>

\* sigaction(s, a, old).
Sigaction(t, s, a) ==
    /\ Running(t)
    /\ IF Intercepted(s) THEN Report(t, s, a, TRUE) ELSE Real(s, a, TRUE)
    /\ UNCHANGED <<install, threads, memory, run, life>>

\* g_old = *act: the handler is written, then the flags, and the call returns.  (A
\* build may take them in the other order: also seen by threads that race only.)
Store(t) ==
    /\ call[t] # NoCall
    /\ LET s == call[t].sig
           a == call[t].act
       IN  IF call[t].half = "h"
           THEN /\ saved' = [saved EXCEPT ![s] = [@ EXCEPT !.h = a.h]]
                /\ call' = [call EXCEPT ![t] = [@ EXCEPT !.half = "info"]]
           ELSE /\ saved' = [saved EXCEPT ![s] = [@ EXCEPT !.info = a.info]]
                /\ call' = [call EXCEPT ![t] = NoCall]
    /\ UNCHANGED <<kernel, install, threads, memory, program>>

\* sigaction(s, NULL, old): the interception asks for `act`.
Query(t, s) ==
    /\ Running(t) /\ (Intercepted(s) => "query" \in Uses)
    /\ res' = kernel[s]
    /\ UNCHANGED <<kernel, saved, call, install, threads, memory, run, life>>

\* signal(s, h): only SIGILL is intercepted.
Signal(t, s, h) ==
    /\ Running(t) /\ (s \in Crash /\ ownsCrash => "signal" \in Uses)
    /\ LET a == [h |-> h, info |-> FALSE] IN
         IF s = Ill /\ owned THEN Report(t, s, a, FALSE) ELSE Real(s, a, FALSE)
    /\ UNCHANGED <<install, threads, memory, run, life>>

-----------------------------------------------------------------------------
(* Faults *)

\* Call a disposition of the program, as the kernel or a chain does.
Call(t, a) ==
    IF a.h \in Handlers
    THEN Goto(t, "user") /\ run' = [run EXCEPT ![t] = a] /\ UNCHANGED life
    ELSE IF a.h = "ign" THEN Goto(t, "run") /\ UNCHANGED <<run, life>>
    ELSE Goto(t, "raise") /\ life' = "doomed" /\ UNCHANGED run

\* An instruction raises SIGILL, one the emulator knows or another one.
Undefined(t) ==
    /\ Running(t) /\ pc[t] = "run"
    /\ IF kernel[Ill] = OnSigill
       THEN Enter(t, "emulate", Ill, 0) /\ UNCHANGED <<run, life>>
       ELSE Call(t, kernel[Ill])
    /\ UNCHANGED <<kernel, saved, call, install, memory, res>>

\* An access touches a page that cannot be accessed.
Access(t, p) ==
    /\ Running(t) /\ pc[t] = "run" /\ page[p] \in {"gap", "guard"}
    /\ LET s == IF page[p] = "gap" THEN "segv" ELSE "bus" IN
         IF kernel[s] = OnCrash
         THEN Enter(t, "gap", s, p) /\ UNCHANGED <<run, life>>
         ELSE Call(t, kernel[s])
    /\ UNCHANGED <<kernel, saved, call, install, memory, res>>

\* on_sigill: emulate and go on, or pass the fault on.
Emulate(t) ==
    /\ pc[t] = "emulate"
    /\ Goto(t, "run") \/ Goto(t, "chain")
    /\ UNCHANGED <<kernel, saved, call, install, memory, program>>

\* Mutation of CheckGap: the page itself is not looked at.
CheckNothing(t) ==
    /\ pc[t] = "gap"
    /\ \/ Goto(t, "chain")
       \/ fixed <= MaxFixed /\ Goto(t, "before")
    /\ UNCHANGED <<kernel, saved, call, install, memory, program>>

\* try_fixup_overread: the access is not near a page's start or not a data
\* access, or the page is not in a gap, or the guard is exceeded: chain.
CheckGap(t) ==
    /\ pc[t] = "gap"
    /\ \/ Goto(t, "chain")
       \/ page[at[t]] = "gap" /\ fixed <= MaxFixed /\ Goto(t, "before")
    /\ UNCHANGED <<kernel, saved, call, install, memory, program>>

\* The page before it must be mapped.
CheckBefore(t) ==
    /\ pc[t] = "before"
    /\ Goto(t, IF at[t] = 0 \/ page[at[t] - 1] = "gap" THEN "chain" ELSE "map")
    /\ UNCHANGED <<kernel, saved, call, install, memory, program>>

\* mmap(MAP_FIXED), and the instruction is tried again.
MapZero(t) ==
    /\ pc[t] = "map"
    /\ page' = [page EXCEPT ![at[t]] = "zero"]
    /\ fixed' = fixed + 1
    /\ Goto(t, "run")
    /\ UNCHANGED <<kernel, saved, call, install, program>>

\* Mutation of Chain: SA_SIGINFO is not looked at.
ChainPlain(t) ==
    /\ pc[t] = "chain"
    /\ Goto(t, "target")
    /\ UNCHANGED <<kernel, saved, call, install, memory, program>>

\* chain() and the end of on_crash look at the saved flags first.
Chain(t) ==
    /\ pc[t] = "chain"
    /\ "race" \in Uses \/ \A u \in Threads : ~Setting(u, sig[t])
    /\ pc' = [pc EXCEPT ![t] = "target"]
    /\ info' = [info EXCEPT ![t] = saved[sig[t]].info]
    /\ at' = [at EXCEPT ![t] = 0]
    /\ UNCHANGED <<sig, kernel, saved, call, install, memory, program>>

\* Then at the handler: it is called as the flags say.  SA_SIGINFO hides SIG_IGN,
\* which is then called.
Target(t) ==
    /\ pc[t] = "target"
    /\ LET a == [h |-> saved[sig[t]].h, info |-> info[t]] IN
         IF a.h = "dfl" THEN Goto(t, "default") /\ life' = "doomed" /\ UNCHANGED run
         ELSE IF a.info THEN Goto(t, "user") /\ run' = [run EXCEPT ![t] = a] /\ UNCHANGED life
         ELSE Call(t, a)
    /\ UNCHANGED <<kernel, saved, call, install, memory, res>>

\* Mutation of RestoreDefault: through the interposed sigaction, and raise().
RestoreOwn(t) ==
    /\ pc[t] = "default"
    /\ saved' = [saved EXCEPT ![sig[t]] = Default]
    /\ Goto(t, "chain")
    /\ UNCHANGED <<kernel, call, install, memory, program>>

\* The kernel's disposition becomes the default one, through the real sigaction.
RestoreDefault(t) ==
    /\ pc[t] = "default"
    /\ kernel' = [kernel EXCEPT ![sig[t]] = Default]
    /\ Goto(t, "raise")
    /\ UNCHANGED <<saved, call, install, memory, program>>

\* raise(), or the kernel itself: the process ends.
Raise(t) ==
    /\ pc[t] = "raise"
    /\ life' = "dead"
    /\ Goto(t, "run")
    /\ UNCHANGED <<kernel, saved, call, install, memory, res, run>>

\* A handler of the program returns.
Return(t) ==
    /\ pc[t] = "user" /\ call[t] = NoCall
    /\ Goto(t, "run")
    /\ run' = [run EXCEPT ![t] = None]
    /\ UNCHANGED <<kernel, saved, call, install, memory, res, life>>

\* The program maps memory in a gap or unmaps it (external).
Mmap(t, p) ==
    /\ Running(t)
    /\ page[p] \in {"gap", "data"}
    /\ (\E u \in Threads : pc[u] \in Fixing) => "mmap" \in Uses
    /\ page' = [page EXCEPT ![p] = IF @ = "gap" THEN "data" ELSE "gap"]
    /\ UNCHANGED <<kernel, saved, call, install, threads, fixed, program>>

-----------------------------------------------------------------------------
Install == Arm \/ Own \/ ArmSegv \/ ArmBus \/ OwnCrash

Handle(t) ==
    /\ life # "dead"
    /\ \/ Emulate(t) \/ CheckGap(t) \/ CheckBefore(t) \/ MapZero(t)
       \/ Chain(t) \/ Target(t) \/ RestoreDefault(t) \/ Raise(t)
       \/ Store(t)

Program(t) ==
    \/ /\ t \in Setters
       /\ \/ \E s \in Sigs, a \in Actions : Sigaction(t, s, a)
          \/ \E s \in Sigs : Query(t, s)
          \/ \E s \in Sigs, h \in Handlers \cup {"dfl"} : Signal(t, s, h)
    \/ \E p \in Pages : Access(t, p) \/ Mmap(t, p)
    \/ Undefined(t) \/ (life # "dead" /\ Return(t))

Next == Install \/ \E t \in Threads : Handle(t) \/ Program(t)

\* A thread in the emulator's functions runs on.
Spec     == Init /\ [][Next]_vars
FairSpec == Spec /\ \A t \in Threads : WF_vars(Handle(t))

-----------------------------------------------------------------------------
(* Properties *)

\* "Stay the front-line SIGILL handler", and "stay frontline for the crash
\* signals so we get first crack before the runtime's reporter": what the
\* program installs never replaces the emulator's handlers in the kernel.
Frontline ==
    stage = "done" /\ life = "up" =>
        /\ owned => kernel[Ill] = OnSigill
        /\ ownsCrash => \A s \in Crash : kernel[s] = OnCrash

\* A fault that is passed on to the default disposition ends the process: the
\* handler must not be entered again for ever ("observed as a hang").
FaultEnds == life = "doomed" ~> life = "dead"

\* "Mapped (real data or a guard page): never touch": the repair of an
\* over-read replaces nothing but a gap.
NoClobber == [][\A p \in Pages : page'[p] = "zero" => page[p] \in {"gap", "zero"}]_vars

\* What the emulator has taken.
Shadowed ==
    (IF owned \/ stage = "own" THEN {Ill} ELSE {}) \cup
    (IF ownsCrash \/ stage = "flag" THEN Crash
     ELSE IF stage = "bus" THEN {"segv"} ELSE {})

\* What a sigaction() under way stores counts from the moment it has reported.
Shown(s) == IF \E t \in Threads : Setting(t, s)
            THEN call[CHOOSE t \in Threads : Setting(t, s)].act ELSE saved[s]

S == INSTANCE Signals WITH
         disp <- [s \in Sigs |-> IF s \in Shadowed THEN Shown(s) ELSE kernel[s]]

\* "The runtime's reporter still fires for genuine #UDs": what sigaction() and
\* signal() report, which handler a fault runs and how it is called are what
\* they would be without the emulator, if no two threads are at one disposition
\* at a time ("race"): then what is reported or run may be made of two halves.
ImplementsSignals == S!SigSpec
=============================================================================
