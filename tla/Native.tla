------------------------------- MODULE Native -------------------------------
(***************************************************************************)
(* The program on a CPU that has every instruction: each step runs the     *)
(* instruction at pc once and goes to one of its successors.  beat turns   *)
(* over with each instruction, so that running one twice, or none, shows.  *)
(***************************************************************************)
EXTENDS X86Program

VARIABLES prog, pc, beat

NativeInit == WellFormed(prog) /\ pc = 0 /\ beat = 0

Execute ==
    /\ pc' \in Succ(prog, pc)
    /\ beat' = 1 - beat
    /\ UNCHANGED prog

NativeSpec == NativeInit /\ [][Execute]_<<prog, pc, beat>>
=============================================================================
