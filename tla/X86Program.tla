----------------------------- MODULE X86Program -----------------------------
(***************************************************************************)
(* A function of the emulated program, as the scanners of avxemu see it:   *)
(* code maps the offset of each instruction to its length, its kind and    *)
(* the offsets it may jump to.  Bytes, operands and register contents are  *)
(* left out.                                                               *)
(*                                                                         *)
(*   bmi    lzcnt, tzcnt and their like: #UD here, position-independent    *)
(*   vex    AVX2, FMA, F16C and VEX-encoded BMI: #UD, never copied; also   *)
(*          any of the former with an operand in memory                    *)
(*   copy   runs natively and means the same at another address            *)
(*   stay   runs natively, but only at its own address                     *)
(*   jcc, jmp   direct branches                                            *)
(*   table  an indirect jump whose jump table the scan resolves            *)
(*   ind    any other indirect jump                                        *)
(*   loop   loop and jrcxz: direct branches the scan does not know         *)
(*   ret    leaves the function; the caller calls it again                 *)
(***************************************************************************)
EXTENDS Integers, FiniteSets

Kinds == {"bmi", "vex", "copy", "stay", "jcc", "jmp", "table", "ind", "loop", "ret"}

Starts(p)  == DOMAIN p.code
After(p, a) == a + p.code[a].len

\* Features the CPU lacks make an instruction fault.
Faults(p, a)   == p.code[a].kind \in {"bmi", "vex"}
Copyable(p, a) == p.code[a].kind \in {"bmi", "copy"}
Ends(p, a)     == p.code[a].kind \in {"jmp", "table", "ind", "ret"}

Succ(p, a) == p.code[a].to \cup (IF Ends(p, a) THEN {} ELSE {After(p, a)})

\* What collect_branch_targets reports.
Targets(p)     == UNION {p.code[b].to : b \in {c \in Starts(p) : p.code[c].kind \in {"jcc", "jmp", "table"}}}
HasIndirect(p) == \E b \in Starts(p) : p.code[b].kind = "ind"

\* A function the linear scan decodes: instructions cover it without gap or
\* overlap, no path runs off its end, branches lead to instructions.
\* Faulting instructions have at least four bytes and do not branch.
WellFormed(p) ==
    /\ p.size \in Nat
    /\ Starts(p) \subseteq 0..(p.size - 1)
    /\ 0 \in Starts(p)
    /\ \A a \in Starts(p) :
         /\ p.code[a].len \in Nat \ {0}
         /\ p.code[a].kind \in Kinds
         /\ p.code[a].to \subseteq Starts(p)
         /\ After(p, a) \in Starts(p) \cup {p.size}
         /\ ~Ends(p, a) => After(p, a) \in Starts(p)
         /\ Faults(p, a) => p.code[a].len >= 4
         /\ p.code[a].kind \in {"bmi", "vex", "copy", "stay"} => p.code[a].to = {}
         /\ p.code[a].kind = "ret" => p.code[a].to = {0}
         /\ \A b \in Starts(p) : a < b => After(p, a) <= b

\* A direct branch leads behind an instruction only if one of those from there
\* to the target does not fault, so that none leads into a run of faulting
\* instructions past its first; an unresolved jump, with which nothing is
\* patched at run time, makes up for that.  No branch is hidden from the scan.
Covered(p) ==
    /\ HasIndirect(p) \/ \A a \in Starts(p), t \in Targets(p) :
                            a < t => \E b \in Starts(p) : a <= b /\ b <= t /\ ~Faults(p, b)
    /\ \A a \in Starts(p) : p.code[a].kind # "loop"
=============================================================================
