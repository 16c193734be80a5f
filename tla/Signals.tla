------------------------------ MODULE Signals ------------------------------
(***************************************************************************)
(* What a program sees of SIGILL, SIGSEGV and SIGBUS when no emulator is   *)
(* loaded: sigaction() stores a disposition and reports the one before it, *)
(* a fault runs the handler stored last, in the way it asked to be called, *)
(* and a fault without a handler ends the process.                         *)
(***************************************************************************)
EXTENDS Integers

CONSTANTS
    Threads,
    Sigs,
    Handlers,   \* the program's handler functions
    None

\* struct sigaction: a handler, SIG_DFL or SIG_IGN, and the SA_SIGINFO flag.
Action == [h : Handlers \cup {"dfl", "ign"}, info : BOOLEAN]

VARIABLES
    disp,       \* the disposition of each signal
    res,        \* what the last sigaction() or signal() reported
    run,        \* the handler each thread is in, and how it was called
    life        \* "up", "doomed" once a default disposition was met, "dead"

sigVars == <<disp, res, run, life>>

SigInit ==
    /\ disp \in [Sigs -> Action]
    /\ res = None
    /\ run = [t \in Threads |-> None]
    /\ life = "up"

\* sigaction() reports the whole disposition, signal() the handler alone.
Reports(a) == {a, [a EXCEPT !.info = FALSE]}

Set(s, a) ==
    /\ life # "dead"
    /\ res' \in Reports(disp[s])
    /\ disp' = [disp EXCEPT ![s] = a]
    /\ UNCHANGED <<run, life>>

Query(s) ==
    /\ life # "dead"
    /\ res' \in Reports(disp[s])
    /\ UNCHANGED <<disp, run, life>>

Fault(t, s) ==
    /\ life # "dead" /\ run[t] = None
    /\ IF disp[s].h = "dfl"
       THEN life' = "doomed" /\ UNCHANGED run
       ELSE /\ disp[s].h \in Handlers
            /\ run' = [run EXCEPT ![t] = disp[s]]
            /\ UNCHANGED life
    /\ UNCHANGED <<disp, res>>

Leave(t) ==
    /\ run[t] # None
    /\ run' = [run EXCEPT ![t] = None]
    /\ UNCHANGED <<disp, res, life>>

Exit ==
    /\ life = "doomed"
    /\ life' = "dead"
    /\ UNCHANGED <<disp, res, run>>

SigNext ==
    \/ \E s \in Sigs, a \in Action : Set(s, a)
    \/ \E s \in Sigs : Query(s)
    \/ \E t \in Threads, s \in Sigs : Fault(t, s)
    \/ \E t \in Threads : Leave(t)
    \/ Exit

SigSpec == SigInit /\ [][SigNext]_sigVars
=============================================================================
