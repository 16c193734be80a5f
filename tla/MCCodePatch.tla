---------------------------- MODULE MCCodePatch ----------------------------
(* Instances of CodePatch for TLC. *)
EXTENDS CodePatch, SequencesExt

CONSTANT Length     \* instructions of a function, without the final ret

\* The kinds of instruction and their lengths.
Shapes == {<<"bmi", 4>>, <<"vex", 4>>, <<"vex", 6>>, <<"copy", 3>>, <<"stay", 3>>,
           <<"jcc", 2>>, <<"ind", 2>>}

Bodies == {s \in [1..Length -> Shapes] : \E i \in 1..Length : s[i][1] \in {"bmi", "vex"}}

\* The function with the shapes s, whose i-th instruction, a jcc, jumps to
\* the jump[i]-th.  An indirect jump may lead to any instruction.
Function(s, jump) ==
    LET off == FoldLeft(LAMBDA o, x : Append(o, Last(o) + x[2]), <<0>>, s)
        To(i) == CASE s[i][1] = "ret" -> {0}
                   [] s[i][1] = "jcc" -> {off[jump[i]]}
                   [] s[i][1] = "ind" -> {off[j] : j \in DOMAIN s}
                   [] OTHER -> {}
    IN [size |-> Last(off),
        code |-> FoldLeft(LAMBDA f, i : f @@ off[i] :> [len |-> s[i][2], kind |-> s[i][1], to |-> To(i)],
                          <<>>, [i \in DOMAIN s |-> i])]

Jumps(s) == {j \in [1..Length -> 1..(Length + 1)] : \A i \in 1..Length : s[i][1] # "jcc" => j[i] = 1}

\* Every function of this length that Covered describes.
SmallPrograms ==
    UNION {{Function(Append(s, <<"ret", 1>>), j) : j \in Jumps(s)} : s \in Bodies}
CoveredPrograms == UNION {IF Covered(p) THEN {p} ELSE {} : p \in SmallPrograms}

\* A run of two faulting instructions whose second one is the head of a loop.
LoopInRun == {Function(<<<<"vex", 6>>, <<"bmi", 4>>, <<"copy", 3>>, <<"jcc", 2>>, <<"ret", 1>>>>,
                       <<1, 1, 1, 2, 1>>)}
=============================================================================
