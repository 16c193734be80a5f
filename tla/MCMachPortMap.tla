--------------------------- MODULE MCMachPortMap ---------------------------
(* Instances of MachPortMap for TLC. *)
EXTENDS MachPortMap, TLC

CONSTANTS t1, t2, a, b, c

\* A loop with a wakeup port and DNS lookups, and a second thread with lookups.
LoopKind == (a :> "wakeup") @@ (b :> "reply") @@ (c :> "reply")
LoopUser == (t1 :> {a, b}) @@ (t2 :> {c})

\* Two threads that register the same port.
RaceKind == a :> "reply"
WakeKind == a :> "wakeup"
RaceUser == (t1 :> {a}) @@ (t2 :> {a})
=============================================================================
