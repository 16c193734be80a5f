-------------------------- MODULE CodePatchProofs --------------------------
(***************************************************************************)
(* Proofs about CodePatch, for all sets of functions that Covered          *)
(* describes, all thresholds and all sizes of the tables and the pool.     *)
(***************************************************************************)
EXTENDS CodePatch, TLAPS

-----------------------------------------------------------------------------
(* Lemmas about well-formed functions. *)

\* Instructions that fault or can be copied are followed by an instruction.
LEMMA FallsThrough ==
    ASSUME NEW p, WellFormed(p), NEW a \in Starts(p), Faults(p, a) \/ Copyable(p, a)
    PROVE  ~Ends(p, a) /\ After(p, a) \in Starts(p) /\ Succ(p, a) = {After(p, a)}
  BY DEF WellFormed, Faults, Copyable, Ends, Succ

\* Offsets are natural numbers, instructions do not overlap, and faulting ones
\* have at least four bytes.
LEMMA Layout ==
    ASSUME NEW p, WellFormed(p), NEW a \in Starts(p)
    PROVE  /\ a \in Nat /\ a < p.size /\ p.size \in Nat /\ 0 \in Starts(p)
           /\ p.code[a].len \in Nat \ {0}
           /\ After(p, a) \in Nat /\ a < After(p, a)
           /\ \A b \in Starts(p) : b \in Nat /\ (a < b => After(p, a) <= b)
  BY DEF WellFormed, After

\* A successor that is not the next instruction is the start of the function,
\* or a target that the scan knows, unless there is an unresolved jump.
LEMMA Successor ==
    ASSUME NEW p, WellFormed(p), Covered(p), ~HasIndirect(p),
           NEW a \in Starts(p), NEW b \in Succ(p, a)
    PROVE  b \in Starts(p) /\ (b = 0 \/ b \in Targets(p) \/ b = After(p, a))
<1>1. b \in Starts(p)
  BY DEF WellFormed, Succ
<1>2. CASE b \in p.code[a].to
  <2>1. p.code[a].kind \in {"jcc", "jmp", "table", "ret"}
    BY <1>2 DEF WellFormed, Covered, HasIndirect, Kinds
  <2>2. CASE p.code[a].kind = "ret"
    BY <1>1, <1>2, <2>2 DEF WellFormed
  <2>3. CASE p.code[a].kind # "ret"
    BY <1>1, <1>2, <2>1, <2>3 DEF Targets
  <2> QED BY <2>2, <2>3
<1>3. CASE b \notin p.code[a].to
  BY <1>1, <1>3 DEF Succ
<1> QED BY <1>2, <1>3

-----------------------------------------------------------------------------
(* The inductive invariant. *)

\* While the scanner works, the program has not begun, and all jumps lie
\* behind the scanner.
Scanning ==
    cursor < prog.size =>
        /\ ip = 0 /\ blk = Text /\ moved = {}
        /\ \A s \in Sites : resume[s] <= cursor

\* No branch leads into what a block stands for; where that is unknown, the
\* jump fits into the site's own instruction.
Guarded ==
    \A s \in Sites :
        IF HasIndirect(prog)
        THEN prog.code[s].len >= JmpLen
        ELSE \A t \in Targets(prog) : ~(s < t /\ t < resume[s])

\* The program does not get behind a site except through its block.
Outside ==
    ~HasIndirect(prog) /\ blk = Text =>
        \A s \in Sites : ~(s < ip /\ ip < resume[s])

IInv == TypeOK /\ Covered(prog) /\ BlocksSound /\ Scanning /\ Guarded /\ Outside

LEMMA NoMidJumpFollows == IInv => NoMidJump
<1> SUFFICES ASSUME IInv, blk = Text, NEW s \in Sites, s < ip, ip < s + JmpLen
             PROVE  FALSE
  BY DEF NoMidJump, Inside
<1>1. WellFormed(prog) /\ s \in Starts(prog) /\ ip \in Starts(prog) /\ resume[s] \in Starts(prog)
  BY DEF IInv, TypeOK
<1>2. /\ s \in Nat /\ ip \in Nat /\ resume[s] \in Nat
      /\ s + prog.code[s].len <= ip /\ prog.code[s].len \in Nat
  BY <1>1, Layout DEF After
<1>3. CASE HasIndirect(prog)
  BY <1>2, <1>3 DEF IInv, Guarded, JmpLen
<1>4. CASE ~HasIndirect(prog)
  BY <1>2, <1>4 DEF IInv, Outside, BlocksSound, JmpLen
<1> QED BY <1>3, <1>4

LEMMA InitIInv ==
    ASSUME \A p \in Programs : Covered(p)
    PROVE  Init => IInv
<1> SUFFICES ASSUME Init PROVE IInv
  OBVIOUS
<1>1. WellFormed(prog) /\ Covered(prog) /\ Sites = {} /\ DOMAIN hot = {}
  BY PatchConstants DEF Init, Sites
<1>2. 0 \in Starts(prog)
  BY <1>1 DEF WellFormed
<1>3. TypeOK
  BY <1>1, <1>2, PatchConstants DEF Init, TypeOK
<1> QED
  BY <1>1, <1>2, <1>3 DEF IInv, Init, BlocksSound, Scanning, Guarded, Outside

-----------------------------------------------------------------------------
(* Steps of the program. *)

\* The counts keep their type.
LEMMA BumpTyped ==
    ASSUME TypeOK, NEW key, Miss(key) \/ Bump(key)
    PROVE  \A k \in DOMAIN hot' : hot'[k] \in 0..(Threshold + 1)
<1>1. CASE Miss(key)
  BY <1>1 DEF TypeOK, Miss
<1>2. CASE Bump(key)
  <2>1. Count(key) \in 0..(Threshold + 1)
    BY PatchConstants DEF TypeOK, Count
  <2>2. (IF Count(key) > Threshold THEN Count(key) ELSE Count(key) + 1) \in 0..(Threshold + 1)
    BY <2>1, PatchConstants
  <2> QED BY <1>2, <2>2 DEF TypeOK, Bump
<1> QED BY <1>1, <1>2

LEMMA AllocTyped ==
    ASSUME TypeOK, Alloc \/ Leak
    PROVE  used' \in 0..PoolBlocks
  BY PatchConstants DEF TypeOK, Alloc, Leak

\* Going on to the next instruction, the program does not get behind a site.
LEMMA StayOutside ==
    ASSUME IInv, ~HasIndirect(prog), blk = Text, ip \notin Sites,
           NEW b \in Succ(prog, ip), NEW s \in Sites
    PROVE  ~(s < b /\ b < resume[s])
<1>1. WellFormed(prog) /\ Covered(prog) /\ ip \in Starts(prog) /\ s \in Starts(prog)
  BY DEF IInv, TypeOK
<1>2. b \in Starts(prog) /\ (b = 0 \/ b \in Targets(prog) \/ b = After(prog, ip))
  BY <1>1, Successor
<1>3. s \in Nat /\ b \in Nat /\ ip \in Nat /\ ip < After(prog, ip) /\ resume[s] \in Nat
  BY <1>1, <1>2, Layout DEF IInv, TypeOK
<1>4. CASE b = After(prog, ip)
  <2>1. s # ip /\ ~(s < ip /\ ip < resume[s])
    BY DEF IInv, Outside
  <2>2. ip < s => b <= s
    BY <1>1, <1>4, Layout
  <2> QED BY <1>3, <1>4, <2>1, <2>2
<1>5. CASE b \in Targets(prog)
  BY <1>5 DEF IInv, Guarded
<1> QED BY <1>2, <1>3, <1>4, <1>5

\* Steps in the text that patch nothing.
LEMMA TextStep ==
    ASSUME IInv, AtText, ip' \in Succ(prog, ip), UNCHANGED <<prog, cursor, resume, moved, blk>>,
           used' \in 0..PoolBlocks, beat' \in {0, 1},
           \A k \in DOMAIN hot' : hot'[k] \in 0..(Threshold + 1)
    PROVE  IInv'
<1>1. WellFormed(prog) /\ ip \in Starts(prog) /\ Sites' = Sites
  BY DEF IInv, TypeOK, Sites
<1>2. ip' \in Starts(prog)
  BY <1>1 DEF WellFormed, Succ
<1>3. TypeOK'
  BY <1>1, <1>2 DEF IInv, TypeOK, AtText, Text
<1>4. (Covered(prog) /\ BlocksSound /\ Guarded)'
  BY <1>1 DEF IInv, BlocksSound, Guarded, Run
<1>5. Scanning'
  <2>1. prog.size \in Nat
    BY <1>1 DEF WellFormed
  <2> QED BY <2>1 DEF Scanning, AtText
<1>6. Outside'
  BY <1>1, StayOutside DEF Outside, AtText
<1> QED BY <1>3, <1>4, <1>5, <1>6 DEF IInv

LEMMA StepNative == IInv /\ Native => IInv'
<1> SUFFICES ASSUME IInv, Native PROVE IInv'
  OBVIOUS
<1>1. TypeOK
  BY DEF IInv
<1>2. beat' \in {0, 1} /\ used' \in 0..PoolBlocks
  BY <1>1 DEF Native, TypeOK, code
<1>3. \A k \in DOMAIN hot' : hot'[k] \in 0..(Threshold + 1)
  BY <1>1 DEF Native, TypeOK
<1> QED
  BY <1>2, <1>3, TextStep DEF Native, code

LEMMA StepEmulate == IInv /\ (Emulate \/ Decline) => IInv'
<1> SUFFICES ASSUME IInv, Emulate \/ Decline PROVE IInv'
  OBVIOUS
<1>1. TypeOK /\ AtText /\ Advance /\ Faults(prog, ip)
  BY DEF IInv, Emulate, Decline
<1>2. beat' \in {0, 1}
  BY <1>1 DEF TypeOK, Advance
<1>3. used' \in 0..PoolBlocks
  BY <1>1, AllocTyped DEF Emulate, Decline, code, TypeOK
<1>4. \A k \in DOMAIN hot' : hot'[k] \in 0..(Threshold + 1)
  BY <1>1, BumpTyped DEF Emulate, Decline
<1>5. ip' \in Succ(prog, ip)
  BY <1>1, FallsThrough DEF TypeOK, Advance
<1>6. UNCHANGED <<prog, cursor, resume, moved, blk>>
  BY DEF Emulate, Decline, code
<1> QED
  BY <1>1, <1>2, <1>3, <1>4, <1>5, <1>6, TextStep

\* What is moved lies between the blocks there are.
LEMMA StepRelocate == IInv /\ Relocate => IInv'
<1> SUFFICES ASSUME IInv, Relocate PROVE IInv'
  OBVIOUS
<1>1. PICK end \in Starts(prog) : Window(ip, end) /\ Overwrite(ip, end)
  BY DEF Relocate
<1>2. /\ TypeOK /\ WellFormed(prog) /\ ip \in Starts(prog)
      /\ AtText /\ Faults(prog, ip) /\ PatchSafe(ip) /\ ~HasIndirect(prog)
      /\ UNCHANGED <<prog, cursor, ip, blk, beat>> /\ moved' = moved \cup {ip}
  BY DEF IInv, TypeOK, Relocate, PatchSafe, control
<1>3. /\ Sites' = Sites \cup {ip} /\ ip \notin Sites
      /\ resume'[ip] = end /\ \A s \in Sites : resume'[s] = resume[s]
  BY <1>1, <1>2 DEF Overwrite, Sites, AtText
<1>4. ip \in Nat /\ end \in Nat /\ ip + JmpLen <= end
  BY <1>1, <1>2, Layout DEF Window
<1>5. \A s \in Sites : s \in Nat /\ s \in Starts(prog) /\ resume[s] \in Nat /\ s + JmpLen <= resume[s]
  BY <1>2, Layout DEF IInv, TypeOK, BlocksSound
<1>6. TypeOK'
  <2>1. used' \in 0..PoolBlocks
    BY <1>2, AllocTyped DEF Relocate
  <2>2. \A k \in DOMAIN hot' : hot'[k] \in 0..(Threshold + 1)
    BY <1>2, BumpTyped DEF Relocate
  <2>3. \A s \in Sites' : s \in Starts(prog) /\ resume'[s] \in Starts(prog)
    BY <1>1, <1>2, <1>3 DEF TypeOK
  <2> QED BY <1>2, <1>3, <2>1, <2>2, <2>3 DEF TypeOK, AtText
<1>7. BlocksSound'
  <2>1. \A s \in Sites' : s + JmpLen <= resume'[s]
    BY <1>3, <1>4, <1>5
  <2>2. ASSUME NEW s \in Sites', NEW a \in Run(s, resume'[s])
        PROVE  IF a = s \/ s \notin moved' THEN Faults(prog, a) ELSE Copyable(prog, a)
    <3>1. CASE s = ip
      BY <1>1, <1>2, <1>3, <2>2, <3>1 DEF Window
    <3>2. CASE s # ip
      BY <1>2, <1>3, <2>2, <3>2 DEF IInv, BlocksSound
    <3> QED BY <3>1, <3>2
  <2>3. ASSUME NEW s \in Sites', NEW t \in Sites', s < t
        PROVE  resume'[s] <= t
    <3>1. CASE s = ip
      <4>1. t \in Sites /\ t \in Starts(prog) /\ t \in Nat
        BY <1>3, <1>4, <1>5, <2>3, <3>1
      <4>2. t \notin Run(ip, end) \ {ip}
        BY <1>1, <4>1 DEF Window
      <4> QED BY <1>3, <1>4, <2>3, <3>1, <4>1, <4>2 DEF Run
    <3>2. CASE t = ip
      <4>1. s \in Sites /\ ~(s < ip /\ ip < resume[s])
        BY <1>2, <1>3, <1>4, <2>3, <3>2 DEF IInv, Outside, AtText
      <4> QED BY <1>3, <1>4, <1>5, <2>3, <3>2, <4>1
    <3>3. CASE s # ip /\ t # ip
      BY <1>3, <2>3, <3>3 DEF IInv, BlocksSound
    <3> QED BY <3>1, <3>2, <3>3
  <2> QED BY <1>2, <2>1, <2>2, <2>3 DEF BlocksSound, Run
<1>8. Guarded'
  <2> SUFFICES ASSUME NEW s \in Sites', NEW t \in Targets(prog), s < t, t < resume'[s]
               PROVE  FALSE
    BY <1>2 DEF Guarded
  <2>1. CASE s = ip
    <3>1. t \in Starts(prog) /\ t \in Nat
      BY <1>2, Layout DEF WellFormed, Targets
    <3>2. t < ip + JmpLen
      BY <1>1, <1>3, <1>4, <2>1, <3>1 DEF Window, Run
    <3> QED BY <1>2, <2>1, <3>2 DEF PatchSafe
  <2>2. CASE s # ip
    BY <1>2, <1>3, <2>2 DEF IInv, Guarded
  <2> QED BY <2>1, <2>2
<1>9. Scanning'
  <2>1. prog.size \in Nat
    BY <1>2 DEF WellFormed
  <2> QED BY <1>2, <2>1 DEF Scanning, AtText
<1>10. Outside'
  BY <1>2, <1>3, <1>4 DEF IInv, Outside
<1> QED BY <1>2, <1>6, <1>7, <1>8, <1>9, <1>10 DEF IInv

LEMMA StepEnter == IInv /\ Enter => IInv'
<1> SUFFICES ASSUME IInv, Enter PROVE IInv'
  OBVIOUS
<1>1. WellFormed(prog) /\ ip \in Starts(prog) /\ ip \in Sites /\ Sites' = Sites
  BY DEF IInv, TypeOK, Enter, Sites, code
<1>2. ip \in Nat /\ resume[ip] \in Nat /\ ip < resume[ip]
  BY <1>1, Layout DEF IInv, TypeOK, BlocksSound, JmpLen
<1>3. TypeOK'
  <2>1. blk' \in Sites /\ blk' <= ip /\ ip < resume[blk']
    BY <1>1, <1>2 DEF Enter
  <2>2. UNCHANGED <<prog, cursor, resume, moved, used, hot, ip, beat>>
    BY DEF Enter, code
  <2> QED BY <1>1, <2>1, <2>2 DEF IInv, TypeOK
<1>4. (Covered(prog) /\ BlocksSound /\ Guarded)'
  BY <1>1 DEF IInv, BlocksSound, Guarded, Run, Enter, code
<1>5. Scanning'
  <2>1. prog.size \in Nat
    BY <1>1 DEF WellFormed
  <2> QED BY <2>1 DEF Scanning, Enter, code
<1>6. Outside'
  BY <1>2 DEF Outside, Enter, Text
<1> QED BY <1>3, <1>4, <1>5, <1>6 DEF IInv

\* What a block runs does not branch, and does not go past the block's end.
LEMMA InsideBlock ==
    ASSUME IInv, blk # Text
    PROVE  /\ blk \in Sites /\ ip \in Starts(prog) /\ WellFormed(prog)
           /\ ip \in Nat /\ blk \in Nat /\ resume[blk] \in Nat
           /\ blk < After(prog, ip) /\ After(prog, ip) <= resume[blk]
           /\ After(prog, ip) \in Starts(prog)
           /\ Succ(prog, ip) = {After(prog, ip)}
<1>1. /\ blk \in Sites /\ blk <= ip /\ ip < resume[blk]
      /\ blk \in Starts(prog) /\ ip \in Starts(prog) /\ resume[blk] \in Starts(prog)
      /\ WellFormed(prog)
  BY DEF IInv, TypeOK
<1>2. ip \in Run(blk, resume[blk])
  BY <1>1 DEF Run
<1>3. Faults(prog, ip) \/ Copyable(prog, ip)
  BY <1>1, <1>2 DEF IInv, BlocksSound
<1>4. ip \in Nat /\ blk \in Nat /\ resume[blk] \in Nat
  BY <1>1, Layout
<1>5. After(prog, ip) \in Nat /\ ip < After(prog, ip) /\ After(prog, ip) <= resume[blk]
  BY <1>1, Layout
<1> QED BY <1>1, <1>3, <1>4, <1>5, FallsThrough

LEMMA StepInBlock == IInv /\ (InBlock \/ TrapInBlock) => IInv'
<1> SUFFICES ASSUME IInv, InBlock \/ TrapInBlock PROVE IInv'
  OBVIOUS
<1> DEFINE next == After(prog, ip)
<1>1. /\ TypeOK /\ blk # Text /\ Advance /\ Leave
      /\ UNCHANGED <<prog, cursor, resume, moved, used>> /\ Sites' = Sites
  BY DEF IInv, InBlock, TrapInBlock, code, Sites
<1>2. /\ blk \in Sites /\ WellFormed(prog) /\ ip \in Starts(prog)
      /\ blk \in Nat /\ resume[blk] \in Nat /\ next \in Nat
      /\ blk < next /\ next <= resume[blk] /\ next \in Starts(prog)
  BY <1>1, InsideBlock, Layout
<1>3. TypeOK'
  <2>1. \A k \in DOMAIN hot' : hot'[k] \in 0..(Threshold + 1)
    BY <1>1, BumpTyped DEF InBlock, TrapInBlock, TypeOK
  <2>2. ip' \in Starts(prog) /\ beat' \in {0, 1}
    BY <1>1, <1>2 DEF Advance, TypeOK
  <2>3. blk' # Text => blk' \in Sites /\ blk' <= ip' /\ ip' < resume[blk']
    BY <1>1, <1>2 DEF Advance, Leave
  <2> QED BY <1>1, <2>1, <2>2, <2>3 DEF TypeOK
<1>4. (Covered(prog) /\ BlocksSound /\ Guarded)'
  BY <1>1 DEF IInv, BlocksSound, Guarded, Run
<1>5. Scanning'
  BY <1>1 DEF IInv, Scanning
<1>6. Outside'
  <2> SUFFICES ASSUME blk' = Text, NEW t \in Sites, t < next, next < resume[t]
               PROVE  FALSE
    BY <1>1 DEF Outside, Advance
  <2>1. next = resume[blk]
    BY <1>1, <1>2 DEF Leave
  <2>2. t \in Nat /\ resume[t] \in Nat
    BY <1>2, Layout DEF IInv, TypeOK
  <2>3. CASE t < blk
    BY <1>2, <2>1, <2>2, <2>3 DEF IInv, BlocksSound
  <2>4. CASE blk < t
    BY <1>2, <2>1, <2>2, <2>4 DEF IInv, BlocksSound
  <2> QED BY <1>2, <2>1, <2>2, <2>3, <2>4
<1> QED BY <1>3, <1>4, <1>5, <1>6 DEF IInv

-----------------------------------------------------------------------------
(* Steps of the scanner. *)

LEMMA StepScanOver == IInv /\ ScanOver => IInv'
<1> SUFFICES ASSUME IInv, ScanOver PROVE IInv'
  OBVIOUS
<1>1. /\ WellFormed(prog) /\ cursor < prog.size /\ cursor' = After(prog, cursor)
      /\ UNCHANGED <<prog, resume, moved, used, hot, ip, blk, beat>> /\ Sites' = Sites
  BY DEF IInv, TypeOK, ScanOver, control, Sites
<1>2. cursor \in Starts(prog) /\ cursor' \in Starts(prog) \cup {prog.size}
  BY <1>1 DEF IInv, TypeOK, WellFormed
<1>3. cursor \in Nat /\ cursor' \in Nat /\ cursor < cursor'
  BY <1>1, <1>2, Layout
<1>4. TypeOK'
  BY <1>1, <1>2 DEF IInv, TypeOK
<1>5. Scanning'
  <2>1. \A s \in Sites : resume[s] \in Nat /\ resume[s] <= cursor
    BY <1>1, Layout DEF IInv, TypeOK, Scanning
  <2> QED BY <1>1, <1>3, <2>1 DEF IInv, Scanning
<1>6. (Covered(prog) /\ BlocksSound /\ Guarded /\ Outside)'
  BY <1>1 DEF IInv, BlocksSound, Guarded, Outside, Run
<1> QED BY <1>4, <1>5, <1>6 DEF IInv

\* The bounds of a run.
LEMMA RunBounds ==
    ASSUME IInv, cursor < prog.size, NEW end \in Starts(prog), IsRun(cursor, end)
    PROVE  /\ cursor \in Nat /\ end \in Nat /\ cursor < end
           /\ \A s \in Sites : s \in Nat /\ resume[s] \in Nat /\ s + JmpLen <= resume[s]
                               /\ resume[s] <= cursor
<1>1. WellFormed(prog) /\ cursor \in Starts(prog)
  <2>1. WellFormed(prog) /\ cursor \in Starts(prog) \cup {prog.size}
    BY DEF IInv, TypeOK
  <2>2. prog.size \in Nat
    BY <2>1 DEF WellFormed
  <2> QED BY <2>1, <2>2
<1> QED
  BY <1>1, Layout DEF IInv, TypeOK, IsRun, Scanning, BlocksSound

LEMMA StepLeaveRun == IInv /\ LeaveRun => IInv'
<1> SUFFICES ASSUME IInv, LeaveRun PROVE IInv'
  OBVIOUS
<1>1. PICK end \in Starts(prog) : IsRun(cursor, end) /\ cursor' = end
  BY DEF LeaveRun
<1>2. /\ TypeOK /\ cursor < prog.size
      /\ UNCHANGED <<prog, resume, moved, hot, ip, blk, beat>> /\ Sites' = Sites
  BY DEF IInv, LeaveRun, control, Sites
<1>3. TypeOK'
  <2>1. used' \in 0..PoolBlocks
    BY <1>2, AllocTyped DEF LeaveRun
  <2> QED BY <1>1, <1>2, <2>1 DEF TypeOK
<1>4. Scanning'
  <2>1. cursor \in Nat /\ end \in Nat /\ cursor < end
        /\ \A s \in Sites : resume[s] \in Nat /\ resume[s] <= cursor
    BY <1>1, <1>2, RunBounds
  <2> QED BY <1>1, <1>2, <2>1 DEF IInv, Scanning
<1>5. (Covered(prog) /\ BlocksSound /\ Guarded /\ Outside)'
  BY <1>2 DEF IInv, BlocksSound, Guarded, Outside, Run
<1> QED BY <1>3, <1>4, <1>5 DEF IInv

\* A thunk lies behind all others, and its run has no entry but its first
\* instruction.
LEMMA StepTrampoline == IInv /\ Trampoline => IInv'
<1> SUFFICES ASSUME IInv, Trampoline PROVE IInv'
  OBVIOUS
<1>0. PICK end \in Starts(prog) : \E site \in Run(cursor, end) :
         IsRun(cursor, end) /\ Fits(site, end) /\ Overwrite(site, end) /\ cursor' = end
  BY DEF Trampoline
<1>1. PICK site \in Run(cursor, end) :
         IsRun(cursor, end) /\ Fits(site, end) /\ Overwrite(site, end) /\ cursor' = end
  BY <1>0
<1>2. /\ TypeOK /\ WellFormed(prog) /\ Covered(prog) /\ cursor < prog.size /\ Alloc
      /\ UNCHANGED <<prog, moved, hot, ip, blk, beat>>
      /\ ip = 0 /\ blk = Text /\ moved = {}
  BY DEF IInv, TypeOK, Trampoline, control, Scanning
<1>3. /\ cursor \in Nat /\ end \in Nat /\ cursor < end
      /\ \A s \in Sites : s \in Nat /\ resume[s] \in Nat /\ s + JmpLen <= resume[s]
                          /\ resume[s] <= cursor
  BY <1>1, <1>2, RunBounds
<1>4. site \in Starts(prog) /\ site \in Nat /\ cursor <= site /\ site < end /\ site + JmpLen <= end
  BY <1>1, <1>2, Layout DEF Run, Fits
<1>5. site \notin Sites
  BY <1>3, <1>4 DEF JmpLen
<1>6. /\ Sites' = Sites \cup {site}
      /\ resume'[site] = end /\ \A s \in Sites : resume'[s] = resume[s]
  BY <1>1, <1>5 DEF Overwrite, Sites
<1>7. TypeOK'
  <2>1. used' \in 0..PoolBlocks
    BY <1>2, AllocTyped
  <2> QED BY <1>1, <1>2, <1>4, <1>6, <2>1 DEF TypeOK
<1>8. BlocksSound'
  <2>1. \A s \in Sites' : s + JmpLen <= resume'[s]
    BY <1>3, <1>4, <1>6
  <2>2. ASSUME NEW s \in Sites', NEW a \in Run(s, resume'[s])
        PROVE  Faults(prog, a)
    <3>1. CASE s = site
      <4>1. a \in Nat
        BY <1>2, <2>2, Layout DEF Run
      <4>2. a \in Run(cursor, end)
        BY <1>3, <1>4, <1>6, <2>2, <3>1, <4>1 DEF Run
      <4> QED BY <1>1, <4>2 DEF IsRun
    <3>2. CASE s # site
      BY <1>2, <1>6, <2>2, <3>2 DEF IInv, BlocksSound
    <3> QED BY <3>1, <3>2
  <2>3. ASSUME NEW s \in Sites', NEW t \in Sites', s < t
        PROVE  resume'[s] <= t
    <3>1. CASE s = site
      BY <1>3, <1>4, <1>6, <2>3, <3>1 DEF JmpLen
    <3>2. CASE s # site /\ t = site
      BY <1>3, <1>4, <1>6, <3>2
    <3>3. CASE s # site /\ t # site
      BY <1>6, <2>3, <3>3 DEF IInv, BlocksSound
    <3> QED BY <3>1, <3>2, <3>3
  <2> QED BY <1>2, <2>1, <2>2, <2>3 DEF BlocksSound, Run
<1>9. Guarded'
  <2>1. ASSUME NEW s \in Sites', HasIndirect(prog)
        PROVE  prog.code[s].len >= JmpLen
    BY <1>1, <1>6, <2>1 DEF IInv, Guarded, Fits
  <2>2. ASSUME NEW s \in Sites', ~HasIndirect(prog), NEW t \in Targets(prog), s < t, t < resume'[s]
        PROVE  FALSE
    <3>1. CASE s = site
      <4>1. PICK b \in Starts(prog) : site <= b /\ b <= t /\ ~Faults(prog, b)
        BY <1>2, <1>4, <2>2, <3>1 DEF Covered
      <4>2. t \in Nat /\ b \in Nat
        <5>1. t \in Starts(prog)
          BY <1>2 DEF WellFormed, Targets
        <5> QED BY <1>2, <5>1, Layout
      <4>3. b \in Run(cursor, end)
        BY <1>3, <1>4, <1>6, <2>2, <3>1, <4>1, <4>2 DEF Run
      <4> QED BY <1>1, <4>1, <4>3 DEF IsRun
    <3>2. CASE s # site
      BY <1>6, <2>2, <3>2 DEF IInv, Guarded
    <3> QED BY <3>1, <3>2
  <2> QED BY <1>2, <2>1, <2>2 DEF Guarded
<1>10. Scanning'
  BY <1>1, <1>2, <1>3, <1>6 DEF Scanning
<1>11. Outside'
  BY <1>2, <1>3, <1>4, <1>6 DEF Outside
<1> QED BY <1>2, <1>7, <1>8, <1>9, <1>10, <1>11 DEF IInv

LEMMA StepIInv == IInv /\ [Next]_vars => IInv'
<1> SUFFICES ASSUME IInv, [Next]_vars PROVE IInv'
  OBVIOUS
<1>1. CASE ScanOver    BY <1>1, StepScanOver
<1>2. CASE Trampoline  BY <1>2, StepTrampoline
<1>3. CASE LeaveRun    BY <1>3, StepLeaveRun
<1>4. CASE Native      BY <1>4, StepNative
<1>5. CASE Emulate     BY <1>5, StepEmulate
<1>6. CASE Relocate    BY <1>6, StepRelocate
<1>7. CASE Decline     BY <1>7, StepEmulate
<1>8. CASE Enter       BY <1>8, StepEnter
<1>9. CASE InBlock     BY <1>9, StepInBlock
<1>10. CASE TrapInBlock  BY <1>10, StepInBlock
<1>11. CASE UNCHANGED vars
  BY <1>11 DEF vars, code, control, IInv, TypeOK, BlocksSound, Scanning, Guarded, Outside,
               Sites, Run
<1> QED
  BY <1>1, <1>2, <1>3, <1>4, <1>5, <1>6, <1>7, <1>8, <1>9, <1>10, <1>11 DEF Next

-----------------------------------------------------------------------------
(* The theorems. *)

\* The invariant of all of them: avxemu's patches keep to the functions they
\* are made in, if no branch enters a run of faulting instructions in the middle.
LEMMA AlwaysIInv ==
    ASSUME \A p \in Programs : Covered(p)
    PROVE  Spec => []IInv
<1>1. Init => IInv
  BY InitIInv
<1> QED BY <1>1, StepIInv, PTL DEF Spec

\* The state is well-typed: a block belongs to a site, the pool is not overrun,
\* and control in a block stays within what the block stands for.
THEOREM TypeCorrect ==
    ASSUME \A p \in Programs : Covered(p)
    PROVE  Spec => []TypeOK
<1>1. IInv => TypeOK
  BY DEF IInv
<1> QED BY <1>1, AlwaysIInv, PTL

\* No path of the program leads into the middle of a jump that emit_run or
\* avxemu_relocate_block has written.
THEOREM NeverMidJump ==
    ASSUME \A p \in Programs : Covered(p)
    PROVE  Spec => []NoMidJump
BY NoMidJumpFollows, AlwaysIInv, PTL

\* Blocks never overlap, and hold only what can run in the pool.
THEOREM BlocksStaySound ==
    ASSUME \A p \in Programs : Covered(p)
    PROVE  Spec => []BlocksSound
<1>1. IInv => BlocksSound
  BY DEF IInv
<1> QED BY <1>1, AlwaysIInv, PTL

\* The rewritten program implements the program: each instruction is run once,
\* in an order that the program allows, whatever has been patched or moved.
THEOREM Implements ==
    ASSUME \A p \in Programs : Covered(p)
    PROVE  Spec => ImplementsNative
<1>1. Init => Unpatched!NativeInit
  <2> SUFFICES ASSUME Init PROVE Unpatched!NativeInit
    OBVIOUS
  <2>1. WellFormed(prog)
    BY PatchConstants DEF Init
  <2> QED
    BY <2>1 DEF Init, Unpatched!NativeInit, Unpatched!WellFormed, WellFormed, Unpatched!Starts,
                Starts, Unpatched!After, After, Unpatched!Ends, Ends, Unpatched!Faults, Faults,
                Unpatched!Kinds, Kinds
<1>2. IInv /\ [Next]_vars => [Unpatched!Execute]_<<prog, ip, beat>>
  <2> SUFFICES ASSUME IInv, [Next]_vars
               PROVE  Unpatched!Execute \/ UNCHANGED <<prog, ip, beat>>
    OBVIOUS
  <2> USE DEF Unpatched!Execute, Unpatched!Succ, Succ, Unpatched!After, After, Unpatched!Ends, Ends
  <2>1. CASE ScanOver \/ Trampoline \/ LeaveRun \/ Relocate \/ Enter \/ UNCHANGED vars
    BY <2>1 DEF ScanOver, Trampoline, LeaveRun, Relocate, Enter, vars, code, control
  <2>2. CASE Native
    BY <2>2 DEF Native, code
  <2>3. CASE Emulate \/ Decline
    <3>1. WellFormed(prog) /\ ip \in Starts(prog) /\ Faults(prog, ip)
      BY <2>3 DEF IInv, TypeOK, Emulate, Decline
    <3>2. ~Ends(prog, ip)
      BY <3>1, FallsThrough
    <3> QED BY <2>3, <3>2 DEF Emulate, Decline, Advance, code
  <2>4. CASE InBlock \/ TrapInBlock
    <3>1. Succ(prog, ip) = {After(prog, ip)}
      BY <2>4, InsideBlock DEF InBlock, TrapInBlock
    <3> QED BY <2>4, <3>1 DEF InBlock, TrapInBlock, Advance, code
  <2> QED BY <2>1, <2>2, <2>3, <2>4 DEF Next
<1> QED
  BY <1>1, <1>2, AlwaysIInv, PTL DEF Spec, ImplementsNative, Unpatched!NativeSpec
=============================================================================
