----------------------------- MODULE MCSigOwner -----------------------------
(* Instances of SigOwner for TLC. *)
EXTENDS SigOwner

CONSTANTS t1, t2, h1

\* Signals are ignored or not before the emulator is loaded; the program installs
\* a crash reporter that wants siginfo, or none.  SIG_IGN is not combined with
\* SA_SIGINFO, nor is SIG_DFL.
NoHandlers  == {[h |-> "dfl", info |-> FALSE], [h |-> "ign", info |-> FALSE]}
SomeActions == {[h |-> h1, info |-> TRUE], [h |-> "dfl", info |-> FALSE]}

\* An unmapped page or a guard page behind data.
SomeLayouts == {[p \in 0..1 |-> IF p = 0 THEN "data" ELSE "gap"],
                [p \in 0..1 |-> IF p = 0 THEN "data" ELSE "guard"]}
=============================================================================
