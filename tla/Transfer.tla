------------------------------ MODULE Transfer ------------------------------
(* What a call that moves many pieces promises, be it cut short or not: it     *)
(* moves the first of them, each once and to its place, and says how many; and *)
(* it fails only when it has moved none.                                       *)
EXTENDS Integers, Sequences

VARIABLES want,     \* what the call is asked to move
          moved, ret

tvars == <<want, moved, ret>>

Running == -2
Failed == -1

Init == moved = <<>> /\ ret = Running

Next ==
    /\ ret = Running
    /\ \E n \in Len(moved) .. Len(want) : moved' = SubSeq(want, 1, n)
    /\ ret' \in {Running, Failed, Len(moved')}
    /\ ret' = Failed => moved' = <<>>
    /\ UNCHANGED want

Spec == Init /\ [][Next]_tvars
=============================================================================
