------------------------------ MODULE MCUlock ------------------------------
(* An instance of Ulock for TLC. *)
EXTENDS Ulock, TLC

CONSTANTS t1, t2, t3, a

W(hi, lo) == [hi |-> hi, lo |-> lo]
WaitFor(v, is64, timed) == [addr |-> a, value |-> v, is64 |-> is64, timed |-> timed]

\* A 32-bit wait; a 64-bit one with a timeout, for a value the word does not have
\* at first; and a 32-bit wait for a value that does not fit.
SomeCalls  == {WaitFor(W(0, 0), FALSE, FALSE), WaitFor(W(1, 0), TRUE, TRUE),
               WaitFor(W(1, 0), FALSE, FALSE)}
SomeValues == {W(0, 0), W(1, 0), W(0, 1)}
=============================================================================
