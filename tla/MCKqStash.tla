----------------------------- MODULE MCKqStash -----------------------------
(* Instances of KqStash for TLC. *)
EXTENDS KqStash, TLC

CONSTANTS t1, t2, q1, f1, tm

Add(k, m)      == [op |-> "add", key |-> k, mode |-> m, errorsOnly |-> TRUE, n |-> 1]
AddRoom(k, m)  == [op |-> "add", key |-> k, mode |-> m, errorsOnly |-> TRUE, n |-> 2]
Delete(k)      == [op |-> "delete", key |-> k, mode |-> "oneshot", errorsOnly |-> TRUE, n |-> 1]
Mixed(op, k, m, n) == [op |-> op, key |-> k, mode |-> m, errorsOnly |-> FALSE, n |-> n]
WaitFor(n)     == [op |-> "wait", errorsOnly |-> FALSE, n |-> n]

\* Two threads share one kqueue.
SharedLoop  == (t1 :> q1) @@ (t2 :> q1)
SharedHome  == (f1 :> q1) @@ (tm :> q1)
R           == <<f1, "read">>
T           == <<tm, "timer">>
SharedCalls == {Add(R, "level"), Add(R, "dispatch"), AddRoom(T, "oneshot"), Delete(T),
                Mixed("disable", R, "oneshot", 0), WaitFor(1), WaitFor(2)}

\* One thread runs one event loop, as Bun does, and asks for more events than
\* a slot holds (1024 against 32).
OneLoop  == t1 :> q1
W        == <<f1, "write">>
OneCalls == {Add(R, "level"), AddRoom(W, "oneshot"), AddRoom(T, "oneshot"), Delete(T),
             Mixed("delete", R, "oneshot", 0), WaitFor(3)}
=============================================================================
