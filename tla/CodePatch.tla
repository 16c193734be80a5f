----------------------------- MODULE CodePatch -----------------------------
(***************************************************************************)
(* How avxemu rewrites a function while it lasts: avxemu/src/tramp.c,      *)
(* reloc.c and the part of handler.c that counts faults.                   *)
(*                                                                         *)
(* Before the program runs, the scanner puts a five-byte jump over the     *)
(* start of each run of faulting instructions; it leads to a thunk that    *)
(* emulates the run and resumes behind it.  What still faults is emulated  *)
(* in the SIGILL handler, and at the Threshold-th fault of one address the *)
(* handler moves that instruction, and what the jump overwrites behind it, *)
(* into the pool.  One thread runs the function, as the code assumes.      *)
(***************************************************************************)
EXTENDS X86Program

CONSTANTS
    Programs,   \* the functions considered
    Threshold,  \* HOT_THRESHOLD
    HotSlots,   \* addresses the table of counts has room for
    Probes,     \* slots hot_bump looks at before it gives up
    PoolBlocks, \* thunks and blocks the pool has room for
    MaxRun      \* MAXRUN

ASSUME PatchConstants ==
    /\ \A p \in Programs : WellFormed(p)
    /\ Threshold \in Nat \ {0}
    /\ HotSlots \in Nat /\ Probes \in Nat /\ PoolBlocks \in Nat
    /\ MaxRun \in Nat \ {0}

JmpLen == 5     \* jmp rel32
Text   == -1    \* control is in the function, not in a block

VARIABLES
    prog,       \* external: the function
    cursor,     \* how far the scanner has come
    resume,     \* for each overwritten site, where its block jumps back to
    moved,      \* the sites whose block was made by avxemu_relocate_block
    used,       \* g_used
    hot,        \* g_hot: the faults counted for each address
    ip, blk,    \* the instruction to run next, and the block it is run in
    beat        \* turns over with each instruction of the program

code    == <<prog, cursor, resume, moved, used>>
control == <<ip, blk, beat>>
vars    == <<code, hot, control>>

Sites == DOMAIN resume

\* The address lies in the middle of a jump.
Inside(a) == \E s \in Sites : s < a /\ a < s + JmpLen

-----------------------------------------------------------------------------
(* The pool and the jump. *)

Alloc == used < PoolBlocks /\ used' = used + 1

\* A failure may come before or after the allocation, which is not undone.
Leak == used' = used \/ Alloc

Overwrite(site, end) ==
    resume' = [s \in Sites \cup {site} |-> IF s = site THEN end ELSE resume[s]]

-----------------------------------------------------------------------------
(* The scanner. *)

Run(q, end) == {a \in Starts(prog) : q <= a /\ a < end}

\* The end of the run at q: the first instruction that does not fault, unless
\* the run is full before.
IsRun(q, end) ==
    /\ q < end /\ end \in Starts(prog)
    /\ \A a \in Run(q, end) : Faults(prog, a)
    /\ Cardinality(Run(q, end)) <= MaxRun
    /\ Faults(prog, end) => Cardinality(Run(q, end)) = MaxRun

\* A jump here stays within the run, and no branch leads into its middle.
Fits(a, end) ==
    /\ a + JmpLen <= end
    /\ prog.code[a].len >= JmpLen \/ (~HasIndirect(prog) /\ a + 4 \notin Targets(prog))

ScanOver ==
    /\ cursor < prog.size
    /\ ~Faults(prog, cursor)
    /\ cursor' = After(prog, cursor)
    /\ UNCHANGED <<prog, resume, moved, used, hot, control>>

Trampoline ==
    /\ cursor < prog.size
    /\ \E end \in Starts(prog) : \E site \in Run(cursor, end) :
         /\ IsRun(cursor, end)
         /\ Fits(site, end)
         /\ \A a \in Run(cursor, site) : ~Fits(a, end)
         /\ Alloc
         /\ Overwrite(site, end)
         /\ cursor' = end
    /\ UNCHANGED <<prog, moved, hot, control>>

\* No jump fits, the pool is exhausted, or it is out of reach: the run traps.
LeaveRun ==
    /\ cursor < prog.size
    /\ \E end \in Starts(prog) : IsRun(cursor, end) /\ cursor' = end
    /\ Leak
    /\ UNCHANGED <<prog, resume, moved, hot, control>>

-----------------------------------------------------------------------------
(* The table of counts. *)

Count(key) == IF key \in DOMAIN hot THEN hot[key] ELSE 0

\* Counts stop one above the threshold: only meeting it has an effect.
Bump(key) ==
    /\ key \in DOMAIN hot \/ Cardinality(DOMAIN hot) < HotSlots
    /\ hot' = [k \in DOMAIN hot \cup {key} |->
                 IF k # key THEN hot[k]
                 ELSE IF Count(key) > Threshold THEN Count(key) ELSE Count(key) + 1]

\* All slots that hot_bump looks at belong to other addresses.
Miss(key) ==
    /\ key \notin DOMAIN hot
    /\ Cardinality(DOMAIN hot) >= Probes
    /\ UNCHANGED hot

\* The test after which hot_bump asks for a relocation.
Crosses(key) == Count(key) + 1 = Threshold

-----------------------------------------------------------------------------
(* The program, and the SIGILL handler. *)

AtText ==
    /\ cursor = prog.size
    /\ blk = Text
    /\ ip \notin Sites /\ ~Inside(ip)

Key == <<blk, ip>>

\* The instruction has been run, natively or by avxemu_emulate.
Advance == ip' = After(prog, ip) /\ beat' = 1 - beat

Native ==
    /\ AtText
    /\ ~Faults(prog, ip)
    /\ ip' \in Succ(prog, ip)
    /\ beat' = 1 - beat
    /\ UNCHANGED <<code, hot, blk>>

Emulate ==
    /\ AtText
    /\ Faults(prog, ip)
    /\ Miss(Key) \/ (~Crosses(Key) /\ Bump(Key))
    /\ Advance
    /\ UNCHANGED <<code, blk>>

\* Mutation of PatchSafe: only the size of the function is tested.
PatchSafeUnchecked(site) == site + JmpLen <= prog.size

\* No branch that the scan knows leads into the middle of a jump at the site.
PatchSafe(site) ==
    /\ site + JmpLen <= prog.size
    /\ ~HasIndirect(prog)
    /\ \A t \in Targets(prog) : ~(site < t /\ t < site + JmpLen)

\* Mutation of Window: what follows the site need not be copyable.
WindowOfAnything(site, end) ==
    /\ end \in Starts(prog) /\ site + JmpLen <= end
    /\ \A a \in Run(site, end) \ {site} : a < site + JmpLen /\ a \notin Sites /\ ~Inside(a)

\* Behind the site, up to end, there are only whole instructions that can be
\* copied; a site overwritten before reads as a jump.
Window(site, end) ==
    /\ end \in Starts(prog) /\ site + JmpLen <= end
    /\ \A a \in Run(site, end) \ {site} :
         /\ a < site + JmpLen
         /\ Copyable(prog, a)
         /\ a \notin Sites /\ ~Inside(a)

\* Mutation of Relocate: the instruction is emulated as well.
RelocateAfterEmulate ==
    /\ AtText
    /\ Faults(prog, ip)
    /\ Crosses(Key) /\ Bump(Key)
    /\ PatchSafe(ip)
    /\ \E end \in Starts(prog) : Window(ip, end) /\ Overwrite(ip, end)
    /\ moved' = moved \cup {ip}
    /\ Alloc
    /\ beat' = 1 - beat
    /\ UNCHANGED <<prog, cursor, ip, blk>>

\* The handler returns to the site, where the jump now is, and emulates nothing.
Relocate ==
    /\ AtText
    /\ Faults(prog, ip)
    /\ Crosses(Key) /\ Bump(Key)
    /\ PatchSafe(ip)
    /\ \E end \in Starts(prog) : Window(ip, end) /\ Overwrite(ip, end)
    /\ moved' = moved \cup {ip}
    /\ Alloc
    /\ UNCHANGED <<prog, cursor, control>>

\* The relocation is refused or fails; it will not be tried again.
Decline ==
    /\ AtText
    /\ Faults(prog, ip)
    /\ Crosses(Key) /\ Bump(Key)
    /\ Leak
    /\ Advance
    /\ UNCHANGED <<prog, cursor, resume, moved, blk>>

-----------------------------------------------------------------------------
(* Blocks in the pool. *)

Enter ==
    /\ cursor = prog.size
    /\ blk = Text /\ ip \in Sites
    /\ blk' = ip
    /\ UNCHANGED <<code, hot, ip, beat>>

\* At the end of the block, its last jump leads back.
Leave == blk' = IF After(prog, ip) = resume[blk] THEN Text ELSE blk

\* A copied instruction may itself fault, at its address in the pool.
Traps == blk \in moved /\ ip # blk /\ Faults(prog, ip)

InBlock ==
    /\ blk # Text
    /\ ~Traps
    /\ Advance /\ Leave
    /\ UNCHANGED <<code, hot>>

\* The pool is outside the scanned text, so that nothing is moved from there.
TrapInBlock ==
    /\ blk # Text
    /\ Traps
    /\ Miss(Key) \/ Bump(Key)
    /\ Advance /\ Leave
    /\ UNCHANGED code

-----------------------------------------------------------------------------
Init ==
    /\ prog \in Programs
    /\ cursor = 0
    /\ resume = [s \in {} |-> 0]
    /\ moved = {}
    /\ used = 0
    /\ hot = [k \in {} |-> 0]
    /\ ip = 0 /\ blk = Text /\ beat = 0

Next ==
    \/ ScanOver \/ Trampoline \/ LeaveRun
    \/ Native \/ Emulate \/ Relocate \/ Decline
    \/ Enter \/ InBlock \/ TrapInBlock

Spec == Init /\ [][Next]_vars

-----------------------------------------------------------------------------
(* Properties. *)

\* Types.  A block belongs to a site and jumps back to an instruction; the
\* pool is not overrun; in a block, the next instruction is one of the block.
TypeOK ==
    /\ WellFormed(prog)
    /\ cursor \in Starts(prog) \cup {prog.size}
    /\ Sites \subseteq Starts(prog)
    /\ \A s \in Sites : resume[s] \in Starts(prog)
    /\ moved \subseteq Sites
    /\ used \in 0..PoolBlocks
    /\ \A k \in DOMAIN hot : hot[k] \in 0..(Threshold + 1)
    /\ ip \in Starts(prog)
    /\ beat \in {0, 1}
    /\ blk # Text => blk \in Sites /\ blk <= ip /\ ip < resume[blk]

\* The program never comes to an address in the middle of a jump that was
\* written over it, where it would run bytes that nobody meant to be code.
NoMidJump == blk = Text => ~Inside(ip)

\* What a block stands for is what its site's jump overwrote: whole
\* instructions, no other site's, that can run in the pool.
BlocksSound ==
    \A s \in Sites :
        /\ s + JmpLen <= resume[s]
        /\ \A a \in Run(s, resume[s]) :
             IF a = s \/ s \notin moved THEN Faults(prog, a) ELSE Copyable(prog, a)
        /\ \A t \in Sites : s < t => resume[s] <= t

\* Whatever has been overwritten, the program runs the instructions that it
\* would run on a CPU that has them all, each once, in an order it allows.
Unpatched == INSTANCE Native WITH pc <- ip
ImplementsNative == Unpatched!NativeSpec
=============================================================================
