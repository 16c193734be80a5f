--------------------------- MODULE KqStashProofs ---------------------------
(***************************************************************************)
(* Proofs about KqStash for any threads, kqueues, filters, calls and table *)
(* sizes: the table of stashed events is sound, and no call reports one    *)
(* filter twice; with a thread per kqueue, that no thread parks over a     *)
(* stashed event and no freed owner's event is returned; with room in the  *)
(* table, that no event is lost.                                           *)
(***************************************************************************)
EXTENDS KqStash, SequenceTheorems, FiniteSets, FiniteSetTheorems,
        WellFoundedInduction, TLAPS

\* Every non-empty set of positive numbers has a least element, which is what
\* a scan from the first slot stops at.
LEMMA LeastExists ==
  ASSUME NEW S \in SUBSET Nat, S # {}
  PROVE  \E i \in S : \A j \in S : i <= j
<1> DEFINE T == {1..i : i \in S}
<1>1. T \subseteq FiniteSubsetsOf(Nat) /\ T # {}
  <2>1. ASSUME NEW i \in S PROVE 1..i \in FiniteSubsetsOf(Nat)
    <3>1. i \in Nat
      OBVIOUS
    <3>2. IsFiniteSet(1..i)
      BY <3>1, FS_Interval
    <3> QED
      BY <3>1, <3>2 DEF FiniteSubsetsOf
  <2> QED
    BY <2>1
<1>2. \E x \in T : \A y \in T : ~ (<<y, x>> \in StrictSubsetOrdering(Nat))
  BY <1>1, FS_StrictSubsetOrderingWellFounded, WFMin
<1>3. PICK i \in S : \A j \in S : ~ (<<1..j, 1..i>> \in StrictSubsetOrdering(Nat))
  BY <1>2
<1>4. ASSUME NEW j \in S PROVE i <= j
  <2>1. SUFFICES ASSUME j < i PROVE FALSE
    OBVIOUS
  <2>2. 1..j \subseteq 1..i /\ i \in 1..i /\ i \notin 1..j
    BY <2>1
  <2>3. <<1..j, 1..i>> \in StrictSubsetOrdering(Nat)
    BY <2>2 DEF StrictSubsetOrdering
  <2> QED
    BY <1>3, <2>3
<1> QED
  BY <1>4

\* A set of that many numbers.
LEMMA Counted ==
  ASSUME NEW n \in Nat
  PROVE  IsFiniteSet(1..n) /\ Cardinality(1..n) = n
<1>1. n \in Int /\ 1 \in Int
  OBVIOUS
<1>2. IsFiniteSet(1..n) /\ Cardinality(1..n) = IF 1 > n THEN 0 ELSE n - 1 + 1
  BY <1>1, FS_Interval
<1>3. (IF 1 > n THEN 0 ELSE n - 1 + 1) = n
  OBVIOUS
<1> QED
  BY <1>2, <1>3

-----------------------------------------------------------------------------
(* The operators on a slot's events *)

\* What the events of a slot of kqueue kq must be.
Good(evs, kq) ==
    /\ evs \in Seq(Event)
    /\ Len(evs) <= MaxPending
    /\ \A m, n \in DOMAIN evs : evs[m].key = evs[n].key => m = n
    /\ \A j \in DOMAIN evs : Home[evs[j].key[1]] = kq

\* Stashing an event of the kqueue keeps its slot good: the event replaces the
\* one with its key, or is appended while there is room, or is dropped.
LEMMA StashGood ==
  ASSUME NEW kq, NEW evs, Good(evs, kq), NEW e \in Event, Home[e.key[1]] = kq
  PROVE  Good(Stash(evs, e), kq)
<1> USE StashConstants
<1>1. CASE \E j \in DOMAIN evs : evs[j].key = e.key
  <2> DEFINE i == CHOOSE j \in DOMAIN evs : evs[j].key = e.key
             new == [evs EXCEPT ![i] = e]
  <2>1. i \in DOMAIN evs /\ evs[i].key = e.key
    BY <1>1
  <2> HIDE DEF i
  <2>2. new \in Seq(Event) /\ Len(new) = Len(evs) /\ DOMAIN new = DOMAIN evs
    BY <2>1, ExceptSeq, LenProperties DEF Good
  <2>3. \A j \in DOMAIN evs : new[j].key = evs[j].key
    BY <2>1 DEF Good
  <2>4. Good(new, kq)
    BY <2>2, <2>3 DEF Good
  <2> QED
    BY <1>1, <2>4 DEF Stash, Put, i
<1>2. CASE ~ (\E j \in DOMAIN evs : evs[j].key = e.key) /\ Len(evs) < MaxPending
  <2> DEFINE new == Append(evs, e)
  <2>1. /\ new \in Seq(Event) /\ Len(new) = Len(evs) + 1
        /\ \A j \in 1..Len(evs) : new[j] = evs[j]
        /\ new[Len(evs) + 1] = e
    BY AppendProperties DEF Good
  <2>2. DOMAIN new = 1..Len(evs) + 1 /\ DOMAIN evs = 1..Len(evs) /\ Len(evs) \in Nat
    BY <2>1, LenProperties DEF Good
  <2> HIDE DEF new
  <2>3. Good(new, kq)
    BY <1>2, <2>1, <2>2 DEF Good
  <2> QED
    BY <1>2, <2>3 DEF Stash, new
<1>3. CASE ~ (\E j \in DOMAIN evs : evs[j].key = e.key) /\ ~ (Len(evs) < MaxPending)
  BY <1>3 DEF Stash
<1> QED
  BY <1>1, <1>2, <1>3

\* Taking the event of a deleted filter out of a slot keeps the slot good.
LEMMA WithoutGood ==
  ASSUME NEW kq, NEW evs, Good(evs, kq), NEW k
  PROVE  Good(Without(evs, k), kq)
<1>1. CASE \E j \in DOMAIN evs : evs[j].key = k
  <2> DEFINE g == CHOOSE j \in DOMAIN evs : evs[j].key = k
             new == [j \in 1..Len(evs) - 1 |-> IF j < g THEN evs[j] ELSE evs[j + 1]]
  <2>1. g \in 1..Len(evs) /\ Len(evs) \in Nat /\ DOMAIN evs = 1..Len(evs)
    BY <1>1, LenProperties DEF Good
  <2> HIDE DEF g
  <2>2. \A j \in 1..Len(evs) - 1 : evs[j] \in Event /\ evs[j + 1] \in Event
    BY <2>1, ElementOfSeq DEF Good
  <2>3. new \in Seq(Event) /\ Len(new) = Len(evs) - 1 /\ DOMAIN new = 1..Len(evs) - 1
    BY <2>1, <2>2, IsASeq, LenProperties
  <2>4. \A m, n \in 1..Len(evs) - 1 : new[m].key = new[n].key => m = n
    BY <2>1 DEF Good
  <2>5. \A j \in 1..Len(evs) - 1 : Home[new[j].key[1]] = kq
    BY <2>1 DEF Good
  <2>6. Good(new, kq)
    <3> HIDE DEF new
    <3>1. Len(new) <= MaxPending
      BY <2>1, <2>3, StashConstants DEF Good
    <3> QED
      BY <2>3, <2>4, <2>5, <3>1 DEF Good
  <2> QED
    BY <1>1, <2>6 DEF Without, g
<1>2. CASE ~ \E j \in DOMAIN evs : evs[j].key = k
  BY <1>2 DEF Without
<1> QED
  BY <1>1, <1>2

\* What kq_drain leaves behind after taking the first events keeps the slot good.
LEMMA RestGood ==
  ASSUME NEW kq, NEW evs, Good(evs, kq), NEW n \in Nat, n <= Len(evs)
  PROVE  Good(SubSeq(evs, n + 1, Len(evs)), kq)
<1> DEFINE new == SubSeq(evs, n + 1, Len(evs))
<1>1. Len(evs) \in Nat /\ DOMAIN evs = 1..Len(evs)
  BY LenProperties DEF Good
<1>2. new = [j \in 1..Len(evs) - n |-> evs[n + j]]
  BY <1>1 DEF Good
<1>3. new \in Seq(Event) /\ Len(new) = Len(evs) - n
  <2>1. \A j \in 1..Len(evs) - n : evs[n + j] \in Event
    BY <1>1, ElementOfSeq DEF Good
  <2> HIDE DEF new
  <2> QED
    BY <1>1, <1>2, <2>1, IsASeq
<1>4. DOMAIN new = 1..Len(evs) - n /\ \A j \in 1..Len(evs) - n : new[j] = evs[n + j]
  BY <1>2
<1> HIDE DEF new
<1>5. Len(new) <= MaxPending
  BY <1>1, <1>3, StashConstants DEF Good
<1>6. \A m \in DOMAIN new : n + m \in DOMAIN evs
  BY <1>1, <1>4
<1>7. \A h, m \in DOMAIN new : new[h].key = new[m].key => h = m
  BY <1>1, <1>4, <1>6 DEF Good
<1>8. \A m \in DOMAIN new : Home[new[m].key[1]] = kq
  BY <1>4, <1>6 DEF Good
<1> QED
  BY <1>3, <1>5, <1>7, <1>8 DEF Good, new

\* kq_stash finds the slot of its kqueue, or else an unused one, or else none.
LEMMA SlotForFinds ==
  ASSUME NEW kq
  PROVE  \/ SlotFor(kq) = 0 /\ \A j \in Slot : slotKq[j] \notin {kq, NoKq}
         \/ SlotFor(kq) \in Slot /\ slotKq[SlotFor(kq)] = kq
         \/ /\ SlotFor(kq) \in Slot /\ slotKq[SlotFor(kq)] = NoKq
            /\ \A j \in Slot : slotKq[j] # kq
<1> DEFINE mine == {i \in Slot : slotKq[i] = kq}
           free == {i \in Slot : slotKq[i] = NoKq}
           First(S) == CHOOSE i \in S : \A j \in S : i <= j
<1>1. ASSUME NEW S \in SUBSET Slot, S # {} PROVE First(S) \in S
  <2>1. \E i \in S : \A j \in S : i <= j
    BY <1>1, LeastExists, StashConstants DEF Slot
  <2> QED
    BY <2>1
<1>2. SlotFor(kq) = IF mine # {} THEN First(mine) ELSE IF free # {} THEN First(free) ELSE 0
  BY DEF SlotFor
<1>3. mine \in SUBSET Slot /\ free \in SUBSET Slot
  OBVIOUS
<1> HIDE DEF First
<1>4. CASE mine # {}
  BY <1>1, <1>2, <1>3, <1>4
<1>5. CASE mine = {} /\ free # {}
  BY <1>1, <1>2, <1>3, <1>5
<1>6. CASE mine = {} /\ free = {}
  BY <1>2, <1>6
<1> QED
  BY <1>4, <1>5, <1>6

-----------------------------------------------------------------------------
(* The operators on the kernel's filters *)

\* Filters that can fire have an owner, and live owners were created.
Notes ==
    /\ \A k \in Key : knote[k].on => knote[k].udata # 0
    /\ \A i \in live : gen[i] # 0

\* The change of a call keeps the kernel's filters well-formed.
LEMMA ChangedTyped ==
  ASSUME TypeOK, Notes, NEW c \in Call, c.op \in {"add", "delete", "disable"}
  PROVE  /\ Changed(c) \in [Key -> Note]
         /\ \A k \in Key : Changed(c)[k].on => Changed(c)[k].udata # 0
<1>1. c.key \in Key /\ c.key[1] \in Idents /\ c.mode \in Modes
  BY DEF Call, Key, Idents
<1>2. CASE Fails(c)
  <2>1. Changed(c) = knote
    BY <1>2 DEF Changed
  <2> QED
    BY <2>1 DEF TypeOK, Notes
<1>3. CASE ~Fails(c) /\ c.op = "add"
  <2> DEFINE n == [mode |-> c.mode, on |-> TRUE, act |-> FALSE, udata |-> gen[c.key[1]]]
  <2>1. Changed(c) = [knote EXCEPT ![c.key] = n]
    BY <1>3 DEF Changed
  <2>2. n \in Note /\ n.udata # 0
    BY <1>1, <1>3 DEF Fails, TypeOK, Notes, Note
  <2> HIDE DEF n
  <2> QED
    BY <1>1, <2>1, <2>2 DEF TypeOK, Notes
<1>4. CASE ~Fails(c) /\ c.op = "delete"
  <2>1. Changed(c) = [knote EXCEPT ![c.key] = NoNote]
    BY <1>4 DEF Changed
  <2>2. NoNote \in Note /\ ~NoNote.on
    BY StashConstants DEF Note, NoNote
  <2> QED
    BY <1>1, <2>1, <2>2 DEF TypeOK, Notes
<1>5. CASE ~Fails(c) /\ c.op = "disable"
  <2> DEFINE n == [knote[c.key] EXCEPT !.on = FALSE]
  <2>1. Changed(c) = [knote EXCEPT ![c.key] = n]
    BY <1>5 DEF Changed
  <2>2. knote[c.key] \in Note
    BY <1>1 DEF TypeOK
  <2>3. n \in Note /\ ~n.on
    BY <2>2 DEF Note
  <2> HIDE DEF n
  <2> QED
    BY <1>1, <2>1, <2>3 DEF TypeOK, Notes
<1> QED
  BY <1>2, <1>3, <1>4, <1>5

\* A scan keeps the filters well-formed, and what it returns are events of the
\* kqueue it scans.
LEMMA ScanTyped ==
  ASSUME TypeOK, Notes, NEW t \in Threads, NEW room, Scan(t, room)
  PROVE  /\ knote' \in [Key -> Note]
         /\ \A k \in Key : knote'[k].on => knote'[k].udata # 0
         /\ fresh' \in [Threads -> SUBSET Event]
         /\ \A e \in fresh'[t] : Home[e.key[1]] = Loop[t]
         /\ \A u \in Threads \ {t} : fresh'[u] = fresh[u]
<1>1. PICK S \in SUBSET Ready(Loop[t]), still \in BOOLEAN :
        /\ knote' = [k \in Key |-> IF k \in S THEN Fired(knote[k], still) ELSE knote[k]]
        /\ fresh' = [fresh EXCEPT ![t] = {[key |-> k, udata |-> knote[k].udata] : k \in S}]
  BY DEF Scan
<1>2. ASSUME NEW k \in Key
      PROVE  /\ Fired(knote[k], still) \in Note
             /\ Fired(knote[k], still).on => Fired(knote[k], still).udata # 0
  <2>1. knote[k] \in Note /\ (knote[k].on => knote[k].udata # 0)
    BY DEF TypeOK, Notes
  <2>2. NoNote \in Note /\ ~NoNote.on
    BY StashConstants DEF Note, NoNote
  <2>3. CASE knote[k].mode = "oneshot"
    BY <2>2, <2>3 DEF Fired
  <2>4. CASE knote[k].mode = "dispatch"
    BY <2>1, <2>4 DEF Fired, Note
  <2>5. CASE knote[k].mode \notin {"oneshot", "dispatch"}
    <3>1. Fired(knote[k], still) = [knote[k] EXCEPT !.act = still]
      BY <2>5 DEF Fired
    <3> QED
      BY <2>1, <3>1 DEF Note
  <2> QED
    BY <2>3, <2>4, <2>5
<1>3. ASSUME NEW k \in S
      PROVE  /\ [key |-> k, udata |-> knote[k].udata] \in Event
             /\ Home[k[1]] = Loop[t]
  <2>1. k \in Key /\ Home[k[1]] = Loop[t] /\ knote[k].on
    BY DEF Ready
  <2>2. knote[k].udata \in 1..MaxGen
    BY <2>1, StashConstants DEF TypeOK, Notes, Note
  <2> QED
    BY <2>1, <2>2 DEF Event
<1>4. knote' \in [Key -> Note] /\ \A k \in Key : knote'[k].on => knote'[k].udata # 0
  BY <1>1, <1>2 DEF TypeOK, Notes
<1>5. {[key |-> k, udata |-> knote[k].udata] : k \in S} \in SUBSET Event
  BY <1>3
<1> QED
  BY <1>1, <1>3, <1>4, <1>5 DEF TypeOK

-----------------------------------------------------------------------------
(* The inductive invariant *)

\* A call that is on its way to the kernel has a change.
Changes == \A t \in Threads : pc[t] \in {"check", "invalidate", "submit"} =>
                call[t].op \in {"add", "delete", "disable"}

\* g_kq_mu is held across steps by the thread inside kq_stash, which works on
\* the slot of its own kqueue.
Locked == \A t \in Threads :
             /\ (pc[t] = "stashing") <=> (mu = t)
             /\ pc[t] = "stashing" => slot[t] \in Slot /\ slotKq[slot[t]] = Loop[t]

\* When a thread has events in hand, and that they are its kqueue's.
Buffers == \A t \in Threads :
              /\ pc[t] \notin {"stash", "stashing", "merge", "return"} => fresh[t] = {}
              /\ pc[t] \notin {"wait", "merge", "return"} => kept[t] = {}
              /\ \A e \in fresh[t] : Home[e.key[1]] = Loop[t]

Slots == \A i \in Slot : Good(pend[i], slotKq[i])

IInv == /\ TypeOK /\ Changes /\ Notes /\ Locked /\ Buffers
        /\ Slots /\ OneSlotPerKq /\ FlagRaised /\ OneReportPerFilter

\* The initial states satisfy the inductive invariant.
LEMMA InitIInv == Init => IInv
<1> SUFFICES ASSUME Init PROVE IInv
  OBVIOUS
<1> USE StashConstants DEF Init
<1>1. TypeOK
  <2>1. NoCall \in Call
    BY DEF NoCall, Call
  <2>2. NoNote \in Note
    BY DEF NoNote, Note
  <2>3. <<>> \in Seq(Event)
    BY EmptySeq
  <2>4. call \in [Threads -> Call] /\ knote \in [Key -> Note] /\ pend \in [Slot -> Seq(Event)]
    BY <2>1, <2>2, <2>3
  <2>5. pc \in [Threads -> Stage] /\ slot \in [Threads -> Slot \cup {0}]
    BY DEF Stage
  <2>6. /\ slotKq \in [Slot -> Kqs \cup {NoKq}] /\ ok \in [Threads -> BOOLEAN]
        /\ gen \in [Idents -> 0..MaxGen]
    OBVIOUS
  <2>7. kept \in [Threads -> SUBSET Event] /\ fresh \in [Threads -> SUBSET Event]
    OBVIOUS
  <2> QED
    BY <2>4, <2>5, <2>6, <2>7 DEF TypeOK
<1>2. Changes /\ Locked /\ Buffers /\ OneReportPerFilter
  BY DEF Changes, Locked, Buffers, OneReportPerFilter
<1>3. Notes
  BY DEF Notes, NoNote
<1>4. Slots
  BY EmptySeq DEF Slots, Good
<1>5. OneSlotPerKq /\ FlagRaised
  BY DEF OneSlotPerKq, FlagRaised
<1> QED
  BY <1>1, <1>2, <1>3, <1>4, <1>5 DEF IInv

\* The steps that touch neither the table nor the events in flight: the
\* owners, and a thread on its way to the kernel.
LEMMA OuterStep ==
  ASSUME IInv,
         \/ \E t \in Threads : Invoke(t) \/ CheckFlag(t) \/ Submit(t)
         \/ \E t \in Threads, i \in Idents : Retire(t, i)
         \/ \E i \in Idents : Open(i)
         \/ \E k \in Key : Activate(k)
         \/ UNCHANGED vars
  PROVE  IInv'
<1> USE StashConstants
<1>1. ASSUME UNCHANGED <<table, mu, kept, fresh, slot>>, TypeOK', Changes', Notes',
             \A t \in Threads :
               \/ pc'[t] = pc[t]
               \/ /\ pc[t] \notin {"stash", "stashing", "merge", "return", "wait"}
                  /\ pc'[t] \notin {"stashing", "return"}
      PROVE  IInv'
  <2>1. Slots' /\ OneSlotPerKq' /\ FlagRaised'
    BY <1>1 DEF IInv, Slots, OneSlotPerKq, FlagRaised, table, Good
  <2>2. Locked'
    BY <1>1 DEF IInv, Locked, table
  <2>3. Buffers' /\ OneReportPerFilter'
    BY <1>1 DEF IInv, Buffers, OneReportPerFilter, KeysOf
  <2> QED
    BY <1>1, <2>1, <2>2, <2>3 DEF IInv
<1>2. ASSUME NEW t \in Threads, Invoke(t) PROVE IInv'
  <2>1. PICK c \in Calls :
          /\ call' = [call EXCEPT ![t] = c]
          /\ Goto(t, IF c.op \in {"delete", "disable"} THEN "check" ELSE Dispatch(c))
    BY <1>2 DEF Invoke
  <2>2. c \in Call /\ c.op \in {"add", "delete", "disable", "wait"}
    BY DEF Call
  <2>3. TypeOK'
    BY <1>2, <2>1, <2>2 DEF IInv, TypeOK, Invoke, Goto, Dispatch, Stage, table, outer
  <2>4. Changes' /\ Notes'
    BY <1>2, <2>1, <2>2 DEF IInv, TypeOK, Changes, Notes, Invoke, Goto, Dispatch, outer
  <2>5. /\ UNCHANGED <<table, mu, kept, fresh, slot>>
        /\ pc[t] = "idle" /\ pc'[t] \in {"check", "submit", "drain"}
        /\ \A u \in Threads \ {t} : pc'[u] = pc[u]
    BY <1>2, <2>1, <2>2 DEF Invoke, Goto, Dispatch, IInv, TypeOK
  <2> QED
    BY <1>1, <2>3, <2>4, <2>5
<1>3. ASSUME NEW t \in Threads, CheckFlag(t) PROVE IInv'
  <2>1. TypeOK' /\ Changes' /\ Notes'
    BY <1>3 DEF IInv, TypeOK, Changes, Notes, CheckFlag, Goto, Dispatch, Stage, table, local, outer
  <2>2. /\ UNCHANGED <<table, mu, kept, fresh, slot>>
        /\ pc[t] = "check" /\ pc'[t] \in {"invalidate", "submit", "drain"}
        /\ \A u \in Threads \ {t} : pc'[u] = pc[u]
    BY <1>3 DEF CheckFlag, Goto, Dispatch, IInv, TypeOK, local
  <2> QED
    BY <1>1, <2>1, <2>2
<1>4. ASSUME NEW t \in Threads, Submit(t) PROVE IInv'
  <2>1. call[t] \in Call /\ call[t].op \in {"add", "delete", "disable"}
    BY <1>4 DEF IInv, TypeOK, Changes, Submit
  <2>2. /\ Changed(call[t]) \in [Key -> Note]
        /\ \A k \in Key : Changed(call[t])[k].on => Changed(call[t])[k].udata # 0
    BY <2>1, ChangedTyped DEF IInv
  <2>3. TypeOK' /\ Changes' /\ Notes'
    BY <1>4, <2>2 DEF IInv, TypeOK, Changes, Notes, Submit, Goto, Stage, table
  <2>4. /\ UNCHANGED <<table, mu, kept, fresh, slot>>
        /\ pc[t] = "submit" /\ pc'[t] \in {"register", "wait"}
        /\ \A u \in Threads \ {t} : pc'[u] = pc[u]
    BY <1>4 DEF Submit, Goto, IInv, TypeOK
  <2> QED
    BY <1>1, <2>3, <2>4
<1>5. ASSUME NEW t \in Threads, NEW i \in Idents, Retire(t, i) PROVE IInv'
  <2>1. knote' \in [Key -> Note] /\ \A k \in Key : knote'[k].on => knote'[k].udata # 0
    <3>1. NoNote \in Note /\ ~NoNote.on
      BY DEF Note, NoNote
    <3> QED
      BY <1>5, <3>1 DEF Retire, IInv, TypeOK, Notes
  <2>2. TypeOK' /\ Changes' /\ Notes'
    BY <1>5, <2>1 DEF IInv, TypeOK, Changes, Notes, Retire, table, local
  <2> QED
    BY <1>1, <1>5, <2>2 DEF Retire, local
<1>6. ASSUME NEW i \in Idents, Open(i) PROVE IInv'
  <2>1. TypeOK' /\ Changes' /\ Notes'
    BY <1>6 DEF IInv, TypeOK, Changes, Notes, Open, table, local
  <2> QED
    BY <1>1, <1>6, <2>1 DEF Open, local
<1>7. ASSUME NEW k \in Key, Activate(k) PROVE IInv'
  <2>1. knote' \in [Key -> Note] /\ \A h \in Key : knote'[h].on => knote'[h].udata # 0
    <3>1. knote[k] \in Note
      BY DEF IInv, TypeOK
    <3>2. [knote[k] EXCEPT !.act = TRUE] \in Note
      BY <3>1 DEF Note
    <3> QED
      BY <1>7, <3>1, <3>2 DEF Activate, IInv, TypeOK, Notes, Note
  <2>2. TypeOK' /\ Changes' /\ Notes'
    BY <1>7, <2>1 DEF IInv, TypeOK, Changes, Notes, Activate, table, local
  <2> QED
    BY <1>1, <1>7, <2>2 DEF Activate, local
<1>8. CASE UNCHANGED vars
  <2>1. TypeOK' /\ Changes' /\ Notes'
    BY <1>8 DEF IInv, TypeOK, Changes, Notes, vars, table, local, outer
  <2> QED
    BY <1>1, <1>8, <2>1 DEF vars, local
<1> QED
  BY <1>2, <1>3, <1>4, <1>5, <1>6, <1>7, <1>8

\* The steps that move events between the kernel, a call and its caller.
LEMMA BufferStep ==
  ASSUME IInv, NEW t \in Threads,
         Register(t) \/ Wait(t) \/ WaitFails(t) \/ Merge(t) \/ Return(t)
  PROVE  IInv'
<1> USE StashConstants
<1>1. ASSUME UNCHANGED <<table, mu, slot>>, TypeOK', Notes',
             \A u \in Threads \ {t} : /\ pc'[u] = pc[u] /\ call'[u] = call[u]
                                      /\ kept'[u] = kept[u] /\ fresh'[u] = fresh[u],
             pc[t] \in {"register", "wait", "merge", "return"},
             pc'[t] \in {"idle", "stash", "merge", "return"},
             \A e \in fresh'[t] : Home[e.key[1]] = Loop[t],
             pc'[t] = "idle" => fresh'[t] = {},
             pc'[t] \in {"idle", "stash"} => kept'[t] = {},
             pc'[t] = "return" => KeysOf(kept'[t]) \cap KeysOf(fresh'[t]) = {}
      PROVE  IInv'
  <2>1. Slots' /\ OneSlotPerKq' /\ FlagRaised'
    BY <1>1 DEF IInv, Slots, OneSlotPerKq, FlagRaised, table, Good
  <2>2. Locked' /\ Changes'
    BY <1>1 DEF IInv, Locked, Changes, table
  <2>3. Buffers'
    BY <1>1 DEF IInv, Buffers
  <2>4. OneReportPerFilter'
    BY <1>1 DEF IInv, OneReportPerFilter, KeysOf
  <2> QED
    BY <1>1, <2>1, <2>2, <2>3, <2>4 DEF IInv
<1>2. KeysOf({}) = {}
  BY DEF KeysOf
<1>3. CASE Register(t)
  <2>1. /\ knote' \in [Key -> Note]
        /\ \A k \in Key : knote'[k].on => knote'[k].udata # 0
        /\ fresh' \in [Threads -> SUBSET Event]
        /\ \A e \in fresh'[t] : Home[e.key[1]] = Loop[t]
        /\ \A u \in Threads \ {t} : fresh'[u] = fresh[u]
    BY <1>3, ScanTyped DEF IInv, Register
  <2>2. TypeOK' /\ Notes'
    BY <1>3, <2>1 DEF IInv, TypeOK, Notes, Register, Goto, Stage, table
  <2>3. /\ pc[t] = "register" /\ pc'[t] \in {"return", "stash"}
        /\ kept' = kept /\ kept[t] = {}
        /\ pc'[t] = "return" => fresh'[t] = {}
        /\ UNCHANGED <<table, mu, slot, call>>
        /\ \A u \in Threads \ {t} : pc'[u] = pc[u]
    BY <1>3 DEF IInv, TypeOK, Buffers, Register, Goto
  <2> QED
    BY <1>1, <1>2, <2>1, <2>2, <2>3
<1>4. CASE Wait(t)
  <2>1. /\ knote' \in [Key -> Note]
        /\ \A k \in Key : knote'[k].on => knote'[k].udata # 0
        /\ fresh' \in [Threads -> SUBSET Event]
        /\ \A e \in fresh'[t] : Home[e.key[1]] = Loop[t]
        /\ \A u \in Threads \ {t} : fresh'[u] = fresh[u]
    BY <1>4, ScanTyped DEF IInv, Wait
  <2>2. TypeOK' /\ Notes'
    BY <1>4, <2>1 DEF IInv, TypeOK, Notes, Wait, Goto, Stage, table
  <2>3. /\ pc[t] = "wait" /\ pc'[t] \in {"return", "merge"} /\ kept' = kept
        /\ pc'[t] = "return" => fresh'[t] = {} \/ kept'[t] = {}
        /\ UNCHANGED <<table, mu, slot, call>>
        /\ \A u \in Threads \ {t} : pc'[u] = pc[u]
    BY <1>4 DEF IInv, TypeOK, Wait, Goto
  <2> QED
    BY <1>1, <1>2, <2>1, <2>2, <2>3
<1>5. CASE WaitFails(t)
  <2>1. TypeOK' /\ Notes'
    BY <1>5 DEF IInv, TypeOK, Notes, WaitFails, Goto, Stage, table, local, outer
  <2>2. /\ pc[t] = "wait" /\ pc'[t] = "return"
        /\ fresh[t] = {} /\ UNCHANGED <<table, mu, slot, call, kept, fresh>>
        /\ \A u \in Threads \ {t} : pc'[u] = pc[u]
    BY <1>5 DEF IInv, TypeOK, Buffers, WaitFails, Goto, local
  <2> QED
    BY <1>1, <1>2, <2>1, <2>2
<1>6. CASE Merge(t)
  <2>1. TypeOK' /\ Notes'
    BY <1>6 DEF IInv, TypeOK, Notes, Merge, Goto, Stage, table, outer
  <2>2. fresh' = [fresh EXCEPT ![t] = {e \in fresh[t] : e.key \notin KeysOf(kept[t])}]
    BY <1>6 DEF Merge
  <2>3. fresh'[t] = {e \in fresh[t] : e.key \notin KeysOf(kept[t])}
    BY <2>2 DEF IInv, TypeOK
  <2>4. /\ KeysOf(kept[t]) \cap KeysOf(fresh'[t]) = {}
        /\ \A e \in fresh'[t] : Home[e.key[1]] = Loop[t]
    BY <2>3 DEF KeysOf, IInv, Buffers
  <2>5. /\ pc[t] = "merge" /\ pc'[t] = "return"
        /\ UNCHANGED <<table, mu, slot, call, kept>>
        /\ \A u \in Threads \ {t} : pc'[u] = pc[u] /\ fresh'[u] = fresh[u]
    BY <1>6 DEF IInv, TypeOK, Merge, Goto
  <2> QED
    BY <1>1, <2>1, <2>4, <2>5
<1>7. CASE Return(t)
  <2>1. armed' \subseteq Key
    <3>1. call[t] \in Call
      BY DEF IInv, TypeOK
    <3>2. call[t].op = "add" => call[t].key \in Key
      BY <3>1 DEF Call
    <3> QED
      BY <1>7, <3>2 DEF Return, IInv, TypeOK
  <2>2. NoCall \in Call
    BY DEF NoCall, Call
  <2>3. TypeOK' /\ Notes'
    BY <1>7, <2>1, <2>2 DEF IInv, TypeOK, Notes, Return, Goto, Stage, table
  <2>4. /\ pc[t] = "return" /\ pc'[t] = "idle" /\ kept'[t] = {} /\ fresh'[t] = {}
        /\ UNCHANGED <<table, mu, slot>>
        /\ \A u \in Threads \ {t} : /\ pc'[u] = pc[u] /\ call'[u] = call[u]
                                    /\ kept'[u] = kept[u] /\ fresh'[u] = fresh[u]
    BY <1>7 DEF IInv, TypeOK, Return, Goto
  <2> QED
    BY <1>1, <2>3, <2>4
<1> QED
  BY <1>3, <1>4, <1>5, <1>6, <1>7

\* The critical sections of g_kq_mu.
LEMMA TableStep ==
  ASSUME IInv, NEW t \in Threads,
         Invalidate(t) \/ StashBegin(t) \/ StashOne(t) \/ StashEnd(t) \/ Drain(t)
  PROVE  IInv'
<1> USE StashConstants
<1>1. ASSUME Slots', OneSlotPerKq', FlagRaised', Locked', TypeOK', UNCHANGED <<call, outer>>,
             \A u \in Threads \ {t} : /\ pc'[u] = pc[u] /\ kept'[u] = kept[u]
                                      /\ fresh'[u] = fresh[u],
             pc'[t] \in {"submit", "stashing", "return", "drain", "wait"},
             pc'[t] = "submit" => call[t].op \in {"add", "delete", "disable"},
             pc'[t] # "stashing" => fresh'[t] = {},
             pc'[t] # "wait" => kept'[t] = {},
             fresh'[t] \subseteq fresh[t]
      PROVE  IInv'
  <2>1. Changes' /\ Notes'
    BY <1>1 DEF IInv, Changes, Notes, outer
  <2>2. Buffers'
    BY <1>1 DEF IInv, Buffers
  <2>3. OneReportPerFilter'
    BY <1>1 DEF IInv, OneReportPerFilter, KeysOf
  <2> QED
    BY <1>1, <2>1, <2>2, <2>3 DEF IInv
<1>2. CASE Invalidate(t)
  <2>1. pend' = [i \in Slot |-> IF slotKq[i] = Loop[t] THEN Without(pend[i], call[t].key)
                               ELSE pend[i]]
    BY <1>2 DEF Invalidate
  <2>2. ASSUME NEW i \in Slot PROVE Good(pend'[i], slotKq[i]) /\ (pend'[i] # <<>> => pend[i] # <<>>)
    <3>1. Good(pend[i], slotKq[i])
      BY DEF IInv, Slots
    <3>2. Without(<<>>, call[t].key) = <<>>
      BY DEF Without
    <3> QED
      BY <2>1, <3>1, <3>2, WithoutGood
  <2>3. UNCHANGED <<slotKq, any, mu, slot, call, kept, fresh, ok, outer>>
    BY <1>2 DEF Invalidate, local
  <2>4. /\ pc[t] = "invalidate" /\ pc' = [pc EXCEPT ![t] = Dispatch(call[t])]
        /\ mu = Nobody
    BY <1>2 DEF Invalidate, Goto
  <2>5. Dispatch(call[t]) = "submit" /\ call[t].op \in {"add", "delete", "disable"}
    BY <2>4 DEF Dispatch, IInv, Changes
  <2>6. Slots' /\ OneSlotPerKq' /\ FlagRaised'
    BY <2>2, <2>3, <2>4 DEF Slots, IInv, OneSlotPerKq, FlagRaised, Good
  <2>7. pend' \in [Slot -> Seq(Event)]
    BY <2>1, <2>2 DEF Good
  <2>8. TypeOK'
    BY <2>3, <2>4, <2>5, <2>7 DEF IInv, TypeOK, Stage, outer
  <2>9. fresh[t] = {} /\ kept[t] = {}
    BY <2>4, <2>5 DEF IInv, Buffers
  <2>10. Locked'
    BY <2>3, <2>4, <2>5, SMTT(60) DEF IInv, Locked, TypeOK
  <2> QED
    BY <1>1, <2>3, <2>4, <2>5, <2>6, <2>8, <2>9, <2>10 DEF IInv, TypeOK
<1>3. CASE StashBegin(t)
  <2>1. kept[t] = {} /\ pc[t] = "stash" /\ mu = Nobody
    BY <1>3 DEF StashBegin, IInv, Buffers
  <2>2. CASE SlotFor(Loop[t]) = 0
    <3>1. /\ fresh' = [fresh EXCEPT ![t] = {}] /\ pc' = [pc EXCEPT ![t] = "return"]
          /\ UNCHANGED <<slotKq, mu, slot, pend, any, call, ok, kept, outer>>
      BY <1>3, <2>2 DEF StashBegin, Goto
    <3>2. Slots' /\ OneSlotPerKq' /\ FlagRaised'
      BY <3>1 DEF IInv, Slots, OneSlotPerKq, FlagRaised, Good
    <3>3. TypeOK' /\ Locked'
      BY <3>1, <2>1 DEF IInv, TypeOK, Locked, Stage, outer
    <3> QED
      BY <1>1, <2>1, <3>1, <3>2, <3>3 DEF IInv, TypeOK
  <2>3. CASE SlotFor(Loop[t]) # 0
    <3> DEFINE i == SlotFor(Loop[t])
    <3>1. /\ i \in Slot
          /\ \/ slotKq[i] = Loop[t]
             \/ slotKq[i] = NoKq /\ \A j \in Slot : slotKq[j] # Loop[t]
      <4>1. \/ SlotFor(Loop[t]) = 0
            \/ SlotFor(Loop[t]) \in Slot /\ slotKq[SlotFor(Loop[t])] = Loop[t]
            \/ /\ SlotFor(Loop[t]) \in Slot /\ slotKq[SlotFor(Loop[t])] = NoKq
               /\ \A j \in Slot : slotKq[j] # Loop[t]
        BY SlotForFinds
      <4> QED
        BY <2>3, <4>1
    <3>2. PICK S \in SUBSET fresh[t] : fresh' = [fresh EXCEPT ![t] = S]
      BY <1>3, <2>3 DEF StashBegin
    <3>3. /\ slotKq' = [slotKq EXCEPT ![i] = Loop[t]] /\ slot' = [slot EXCEPT ![t] = i]
          /\ mu' = t /\ pc' = [pc EXCEPT ![t] = "stashing"]
          /\ UNCHANGED <<pend, any, call, ok, kept, outer>>
      BY <1>3, <2>3 DEF StashBegin, Goto
    <3> HIDE DEF i
    <3>4. Good(pend[i], Loop[t])
      <4>1. Good(pend[i], slotKq[i])
        BY <3>1 DEF IInv, Slots
      <4>2. CASE slotKq[i] = NoKq
        <5>1. \A j \in DOMAIN pend[i] : pend[i][j] \in Event /\ Home[pend[i][j].key[1]] = NoKq
          BY <4>1, <4>2, LenProperties, ElementOfSeq DEF Good
        <5>2. \A e \in Event : Home[e.key[1]] # NoKq
          <6>1. \A k \in Key : k[1] \in Idents
            BY DEF Key, Idents
          <6> QED
            BY <6>1 DEF Event
        <5> QED
          BY <4>1, <5>1, <5>2 DEF Good
      <4> QED
        BY <3>1, <4>1, <4>2
    <3>5. Slots' /\ OneSlotPerKq'
      <4>1. \A j \in Slot : slotKq'[j] = IF j = i THEN Loop[t] ELSE slotKq[j]
        BY <3>1, <3>3 DEF IInv, TypeOK
      <4>2. Slots'
        <5>1. ASSUME NEW j \in Slot PROVE Good(pend[j], slotKq'[j])
          BY <3>4, <4>1 DEF IInv, Slots
        <5> QED
          BY <3>3, <5>1 DEF Slots, Good
      <4>3. OneSlotPerKq'
        BY <3>1, <4>1 DEF OneSlotPerKq, IInv
      <4> QED
        BY <4>2, <4>3
    <3>6. TypeOK' /\ Locked' /\ FlagRaised'
      BY <2>1, <3>1, <3>2, <3>3 DEF IInv, TypeOK, Locked, FlagRaised, Stage, outer
    <3> QED
      BY <1>1, <2>1, <3>2, <3>3, <3>5, <3>6 DEF IInv, TypeOK
  <2> QED
    BY <2>2, <2>3
<1>4. CASE StashOne(t)
  <2>1. /\ pc[t] = "stashing" /\ mu = t /\ kept[t] = {}
        /\ slot[t] \in Slot /\ slotKq[slot[t]] = Loop[t]
    BY <1>4 DEF StashOne, IInv, Locked, Buffers
  <2>2. PICK e \in fresh[t] : /\ pend' = [pend EXCEPT ![slot[t]] = Stash(pend[slot[t]], e)]
                              /\ fresh' = [fresh EXCEPT ![t] = fresh[t] \ {e}]
    BY <1>4 DEF StashOne
  <2>3. UNCHANGED <<slotKq, any, mu, pc, call, ok, slot, kept, outer>>
    BY <1>4 DEF StashOne
  <2>4. Good(Stash(pend[slot[t]], e), Loop[t])
    <3>1. e \in Event /\ Home[e.key[1]] = Loop[t] /\ Good(pend[slot[t]], Loop[t])
      BY <2>1 DEF IInv, Slots, Buffers, TypeOK
    <3> QED
      BY <3>1, StashGood
  <2>5. \A i \in Slot : Good(pend'[i], slotKq[i])
    BY <2>1, <2>2, <2>4 DEF IInv, Slots, TypeOK
  <2>6. Slots' /\ OneSlotPerKq' /\ FlagRaised'
    BY <2>1, <2>3, <2>5 DEF Slots, Good, IInv, OneSlotPerKq, FlagRaised
  <2>7. pend' \in [Slot -> Seq(Event)]
    BY <2>2, <2>5 DEF Good, IInv, TypeOK
  <2>8. TypeOK' /\ Locked'
    BY <2>2, <2>3, <2>7 DEF IInv, TypeOK, Locked, outer
  <2> QED
    BY <1>1, <2>1, <2>2, <2>3, <2>6, <2>8 DEF IInv, TypeOK
<1>5. CASE StashEnd(t)
  <2>1. /\ pc[t] = "stashing" /\ mu = t /\ kept[t] = {} /\ fresh[t] = {}
        /\ any' = TRUE /\ mu' = Nobody /\ slot' = [slot EXCEPT ![t] = 0]
        /\ pc' = [pc EXCEPT ![t] = "return"]
        /\ UNCHANGED <<slotKq, pend, call, ok, kept, fresh, outer>>
    BY <1>5 DEF StashEnd, Goto, IInv, Locked, Buffers
  <2>2. Slots' /\ OneSlotPerKq' /\ FlagRaised'
    BY <2>1 DEF Slots, Good, IInv, OneSlotPerKq, FlagRaised
  <2>3. TypeOK' /\ Locked'
    BY <2>1 DEF IInv, TypeOK, Locked, Stage, outer
  <2> QED
    BY <1>1, <2>1, <2>2, <2>3 DEF IInv, TypeOK
<1>6. CASE Drain(t)
  <2>1. /\ pc[t] = "drain" /\ mu = Nobody /\ fresh[t] = {}
        /\ any' = (any /\ \E i \in Slot : pend'[i] # <<>>)
        /\ pc' = [pc EXCEPT ![t] = "wait"]
        /\ UNCHANGED <<slotKq, mu, call, ok, slot, fresh, outer>>
    BY <1>6 DEF Drain, Goto, IInv, Buffers
  <2>2. /\ \A i \in Slot : Good(pend'[i], slotKq[i])
        /\ pend' \in [Slot -> Seq(Event)]
        /\ kept' \in [Threads -> SUBSET Event]
        /\ \A u \in Threads \ {t} : kept'[u] = kept[u]
        /\ \A i \in Slot : pend'[i] # <<>> => pend[i] # <<>>
    <3> DEFINE full == {i \in Slot : slotKq[i] = Loop[t] /\ pend[i] # <<>>}
               i == CHOOSE j \in full : \A h \in full : j <= h
               take == Lesser(Len(pend[i]), call[t].n)
    <3>1. CASE full = {}
      BY <1>6, <3>1 DEF Drain, IInv, TypeOK, Slots
    <3>2. CASE full # {}
      <4>1. i \in Slot
        <5>1. full \in SUBSET Nat
          BY DEF Slot
        <5> QED
          BY <3>2, <5>1, LeastExists
      <4>2. /\ kept' = [kept EXCEPT ![t] =
                          {e \in {pend[i][j] : j \in 1..take} : Deliverable(e)}]
            /\ pend' = [pend EXCEPT ![i] = SubSeq(pend[i], take + 1, Len(pend[i]))]
        BY <1>6, <3>2 DEF Drain
      <4>3. pend[i] # <<>>
        <5>1. full \in SUBSET Nat
          BY DEF Slot
        <5>2. i \in full
          BY <3>2, <5>1, LeastExists
        <5> QED
          BY <5>2
      <4>4. take \in Nat /\ take <= Len(pend[i])
        <5> HIDE DEF i
        <5>1. Len(pend[i]) \in Nat
          BY <4>1, LenProperties DEF IInv, TypeOK
        <5>2. call[t].n \in Nat
          BY DEF IInv, TypeOK, Call
        <5> QED
          BY <5>1, <5>2 DEF Lesser
      <4> HIDE DEF i, take, full
      <4>5. Good(pend[i], slotKq[i])
        BY <4>1 DEF IInv, Slots
      <4>6. Good(SubSeq(pend[i], take + 1, Len(pend[i])), slotKq[i])
        BY <4>4, <4>5, RestGood
      <4>7. \A j \in 1..take : pend[i][j] \in Event
        BY <4>4, <4>5, LenProperties, ElementOfSeq DEF Good
      <4>8. {e \in {pend[i][j] : j \in 1..take} : Deliverable(e)} \in SUBSET Event
        BY <4>7
      <4>9. \A h \in Slot : pend'[h] = IF h = i THEN SubSeq(pend[i], take + 1, Len(pend[i]))
                                       ELSE pend[h]
        BY <4>1, <4>2 DEF IInv, TypeOK
      <4>10. \A h \in Slot : Good(pend'[h], slotKq[h]) /\ (pend'[h] # <<>> => pend[h] # <<>>)
        BY <4>3, <4>6, <4>9 DEF IInv, Slots
      <4>11. pend' \in [Slot -> Seq(Event)]
        BY <4>2, <4>6 DEF Good, IInv, TypeOK
      <4>12. /\ kept' \in [Threads -> SUBSET Event]
             /\ \A u \in Threads \ {t} : kept'[u] = kept[u]
        BY <4>2, <4>8 DEF IInv, TypeOK
      <4> QED
        BY <4>10, <4>11, <4>12
    <3> QED
      BY <3>1, <3>2
  <2>3. Slots' /\ OneSlotPerKq' /\ FlagRaised'
    BY <2>1, <2>2 DEF Slots, Good, IInv, OneSlotPerKq, FlagRaised
  <2>4. TypeOK' /\ Locked'
    BY <2>1, <2>2, ZenonT(60) DEF IInv, TypeOK, Locked, Stage, outer
  <2> QED
    BY <1>1, <2>1, <2>2, <2>3, <2>4 DEF IInv, TypeOK
<1> QED
  BY <1>2, <1>3, <1>4, <1>5, <1>6

-----------------------------------------------------------------------------
\* The inductive invariant holds throughout.
LEMMA InductiveInvariant == Spec => []IInv
<1>1. IInv /\ [Next]_vars => IInv'
  BY OuterStep, BufferStep, TableStep DEF Next, Kevent
<1> QED
  BY InitIInv, <1>1, PTL DEF Spec

\* Type correctness of kevent64_wrapper's stash.
THEOREM TypeCorrect == Spec => []TypeOK
<1>1. IInv => TypeOK
  BY DEF IInv
<1> QED
  BY InductiveInvariant, <1>1, PTL

\* The stash table is sound in every state: one slot per kqueue, one entry per
\* filter, no slot over capacity or with another kqueue's events, and
\* g_kq_stash_any raised while anything is stashed and g_kq_mu is free.
THEOREM StashIsSound == Spec => []StashSound
<1>1. IInv => StashSound
  BY DEF IInv, Slots, Good, StashSound, OneEntryPerKey, WithinCapacity, OwnFilters
<1> QED
  BY InductiveInvariant, <1>1, PTL

\* No return of kevent64 reports one filter twice.
THEOREM NoFilterTwice == Spec => []OneReportPerFilter
<1>1. IInv => OneReportPerFilter
  BY DEF IInv
<1> QED
  BY InductiveInvariant, <1>1, PTL

-----------------------------------------------------------------------------
(* What the operators on a slot's events keep and take *)

Of(evs) == {evs[j] : j \in DOMAIN evs}

\* Stashing adds at most the event it is given.
LEMMA StashAdds ==
  ASSUME NEW kq, NEW evs, Good(evs, kq), NEW e \in Event
  PROVE  Of(Stash(evs, e)) \subseteq Of(evs) \cup {e}
<1>1. CASE \E j \in DOMAIN evs : evs[j].key = e.key
  <2> DEFINE i == CHOOSE j \in DOMAIN evs : evs[j].key = e.key
  <2>1. Stash(evs, e) = [evs EXCEPT ![i] = e]
    BY <1>1 DEF Stash, Put
  <2> HIDE DEF i
  <2> QED
    BY <2>1 DEF Of, Good
<1>2. CASE ~ (\E j \in DOMAIN evs : evs[j].key = e.key) /\ Len(evs) < MaxPending
  <2> DEFINE new == Append(evs, e)
  <2>1. /\ Stash(evs, e) = new /\ DOMAIN new = 1..Len(evs) + 1 /\ DOMAIN evs = 1..Len(evs)
        /\ new[Len(evs) + 1] = e /\ \A j \in 1..Len(evs) : new[j] = evs[j]
        /\ Len(evs) \in Nat
    BY <1>2, AppendProperties, LenProperties DEF Good, Stash
  <2> HIDE DEF new
  <2>2. ASSUME NEW j \in DOMAIN new PROVE new[j] \in Of(evs) \cup {e}
    <3>1. CASE j = Len(evs) + 1
      BY <2>1, <3>1
    <3>2. CASE j \in 1..Len(evs)
      BY <2>1, <3>2 DEF Of
    <3> QED
      BY <2>1, <3>1, <3>2
  <2> QED
    BY <2>1, <2>2 DEF Of
<1>3. CASE ~ (\E j \in DOMAIN evs : evs[j].key = e.key) /\ ~ (Len(evs) < MaxPending)
  BY <1>3 DEF Stash
<1> QED
  BY <1>1, <1>2, <1>3

\* While there is room, no filter is lost by stashing an event.
LEMMA StashKeeps ==
  ASSUME NEW kq, NEW evs, Good(evs, kq), NEW e \in Event,
         e.key \in KeysOf(Of(evs)) \/ Len(evs) < MaxPending
  PROVE  KeysOf(Of(evs)) \cup {e.key} \subseteq KeysOf(Of(Stash(evs, e)))
<1>1. CASE \E j \in DOMAIN evs : evs[j].key = e.key
  <2> DEFINE i == CHOOSE j \in DOMAIN evs : evs[j].key = e.key
             new == [evs EXCEPT ![i] = e]
  <2>1. Stash(evs, e) = new /\ i \in DOMAIN evs /\ evs[i].key = e.key
    BY <1>1 DEF Stash, Put
  <2> HIDE DEF i
  <2>2. DOMAIN new = DOMAIN evs /\ new[i] = e /\ \A j \in DOMAIN evs : new[j].key = evs[j].key
    BY <2>1 DEF Good
  <2> HIDE DEF new
  <2>3. \A j \in DOMAIN evs : evs[j].key \in KeysOf(Of(new))
    BY <2>2 DEF KeysOf, Of
  <2>4. e.key \in KeysOf(Of(new))
    BY <2>1, <2>3
  <2> QED
    BY <2>1, <2>3, <2>4 DEF KeysOf, Of
<1>2. CASE ~ (\E j \in DOMAIN evs : evs[j].key = e.key)
  <2> DEFINE new == Append(evs, e)
  <2>1. Len(evs) < MaxPending
    BY <1>2 DEF KeysOf, Of
  <2>2. /\ Stash(evs, e) = new /\ DOMAIN new = 1..Len(evs) + 1 /\ DOMAIN evs = 1..Len(evs)
        /\ new[Len(evs) + 1] = e /\ \A j \in 1..Len(evs) : new[j] = evs[j]
        /\ Len(evs) \in Nat
    BY <1>2, <2>1, AppendProperties, LenProperties DEF Good, Stash
  <2> HIDE DEF new
  <2>3. Of(evs) \subseteq Of(new) /\ e \in Of(new)
    <3>1. \A j \in 1..Len(evs) : j \in 1..Len(evs) + 1
      BY <2>2
    <3>2. Len(evs) + 1 \in 1..Len(evs) + 1
      BY <2>2
    <3> QED
      BY <2>2, <3>1, <3>2 DEF Of
  <2> QED
    BY <2>2, <2>3 DEF KeysOf
<1> QED
  BY <1>1, <1>2

\* kq_invalidate_filter takes all of a filter's events and no other's.
LEMMA WithoutTakes ==
  ASSUME NEW kq, NEW evs, Good(evs, kq), NEW k
  PROVE  Of(Without(evs, k)) = {e \in Of(evs) : e.key # k}
<1>1. CASE \E j \in DOMAIN evs : evs[j].key = k
  <2> DEFINE g == CHOOSE j \in DOMAIN evs : evs[j].key = k
             new == [j \in 1..Len(evs) - 1 |-> IF j < g THEN evs[j] ELSE evs[j + 1]]
  <2>1. Without(evs, k) = new /\ evs[g].key = k
    BY <1>1 DEF Without
  <2>2. g \in 1..Len(evs) /\ Len(evs) \in Nat /\ DOMAIN evs = 1..Len(evs)
    BY <1>1, LenProperties DEF Good
  <2>3. /\ DOMAIN new = 1..Len(evs) - 1
        /\ \A j \in 1..Len(evs) - 1 : new[j] = IF j < g THEN evs[j] ELSE evs[j + 1]
    OBVIOUS
  <2> HIDE DEF g, new
  <2>4. \A j \in 1..Len(evs) : j # g => evs[j].key # k
    BY <2>1, <2>2 DEF Good
  <2>5. \A j \in 1..Len(evs) - 1 : \E m \in 1..Len(evs) : m # g /\ new[j] = evs[m]
    <3>1. ASSUME NEW j \in 1..Len(evs) - 1 PROVE \E m \in 1..Len(evs) : m # g /\ new[j] = evs[m]
      <4>1. CASE j < g
        <5>1. j \in 1..Len(evs) /\ j # g /\ new[j] = evs[j]
          BY <2>2, <2>3, <4>1
        <5> QED
          BY <5>1
      <4>2. CASE ~ (j < g)
        <5>1. j + 1 \in 1..Len(evs) /\ j + 1 # g /\ new[j] = evs[j + 1]
          BY <2>2, <2>3, <4>2
        <5> QED
          BY <5>1
      <4> QED
        BY <4>1, <4>2
    <3> QED
      BY <3>1
  <2>6. \A m \in 1..Len(evs) : m # g => \E j \in 1..Len(evs) - 1 : new[j] = evs[m]
    <3>1. ASSUME NEW m \in 1..Len(evs), m # g PROVE \E j \in 1..Len(evs) - 1 : new[j] = evs[m]
      <4>1. CASE m < g
        <5>1. m \in 1..Len(evs) - 1 /\ new[m] = evs[m]
          BY <2>2, <2>3, <4>1
        <5> QED
          BY <5>1
      <4>2. CASE ~ (m < g)
        <5>1. m - 1 \in 1..Len(evs) - 1 /\ ~ (m - 1 < g) /\ (m - 1) + 1 = m
          BY <2>2, <3>1, <4>2
        <5>2. new[m - 1] = evs[m]
          BY <2>3, <5>1
        <5> QED
          BY <5>1, <5>2
      <4> QED
        BY <4>1, <4>2
    <3> QED
      BY <3>1
  <2>7. Of(new) = {new[j] : j \in 1..Len(evs) - 1} /\ Of(evs) = {evs[j] : j \in 1..Len(evs)}
    BY <2>2, <2>3 DEF Of
  <2>8. Of(new) \subseteq {e \in Of(evs) : e.key # k}
    BY <2>4, <2>5, <2>7
  <2>9. ASSUME NEW e \in Of(evs), e.key # k PROVE e \in Of(new)
    <3>1. PICK m \in 1..Len(evs) : e = evs[m]
      BY <2>7, <2>9
    <3>2. m # g
      BY <2>1, <2>9, <3>1
    <3> QED
      BY <2>6, <2>7, <3>1, <3>2
  <2> QED
    BY <2>1, <2>8, <2>9
<1>2. CASE ~ \E j \in DOMAIN evs : evs[j].key = k
  BY <1>2 DEF Without, Of
<1> QED
  BY <1>1, <1>2

\* What kq_drain copies out and what it leaves are all that was there.
LEMMA RestSplits ==
  ASSUME NEW kq, NEW evs, Good(evs, kq), NEW n \in Nat, n <= Len(evs)
  PROVE  Of(evs) = {evs[j] : j \in 1..n} \cup Of(SubSeq(evs, n + 1, Len(evs)))
<1> DEFINE new == SubSeq(evs, n + 1, Len(evs))
<1>1. Len(evs) \in Nat /\ DOMAIN evs = 1..Len(evs)
  BY LenProperties DEF Good
<1>2. DOMAIN new = 1..Len(evs) - n /\ \A j \in 1..Len(evs) - n : new[j] = evs[n + j]
  BY <1>1 DEF Good
<1> HIDE DEF new
<1>3. \A j \in 1..Len(evs) - n : n + j \in 1..Len(evs)
  BY <1>1
<1>4. \A j \in 1..Len(evs) : j \in 1..n \/ (j - n \in 1..Len(evs) - n /\ n + (j - n) = j)
  BY <1>1
<1>5. \A j \in 1..n : j \in 1..Len(evs)
  BY <1>1
<1>6. Of(new) = {new[j] : j \in 1..Len(evs) - n} /\ Of(evs) = {evs[j] : j \in 1..Len(evs)}
  BY <1>1, <1>2 DEF Of
<1>7. Of(new) \subseteq Of(evs)
  BY <1>2, <1>3, <1>6
<1>8. ASSUME NEW j \in 1..Len(evs) PROVE evs[j] \in {evs[i] : i \in 1..n} \cup Of(new)
  <2>1. CASE j \in 1..n
    BY <2>1
  <2>2. CASE j - n \in 1..Len(evs) - n /\ n + (j - n) = j
    <3>1. new[j - n] = evs[j]
      BY <1>2, <2>2
    <3> QED
      BY <1>6, <2>2, <3>1
  <2> QED
    BY <1>4, <2>1, <2>2
<1> QED
  BY <1>5, <1>6, <1>7, <1>8 DEF new

\* kq_drain in full: it works on the one slot of its kqueue, and what leaves
\* the slot is copied out unless its descriptor is closed.
LEMMA DrainEffect ==
  ASSUME IInv, NEW t \in Threads, Drain(t)
  PROVE  /\ \A i \in Slot : Of(pend'[i]) \subseteq Held(i) /\ (pend[i] = <<>> => pend'[i] = <<>>)
         /\ \A i \in Slot : slotKq[i] # Loop[t] => pend'[i] = pend[i]
         /\ \A e \in kept'[t] :
                Deliverable(e) /\ \E i \in Slot : slotKq[i] = Loop[t] /\ e \in Held(i)
         /\ \A i \in Slot : \A e \in Held(i) :
                e \in Of(pend'[i]) \/ e \in kept'[t] \/ ~ Deliverable(e)
         /\ call[t].n >= MaxPending => \A i \in Slot : slotKq[i] = Loop[t] => pend'[i] = <<>>
<1> DEFINE full == {i \in Slot : slotKq[i] = Loop[t] /\ pend[i] # <<>>}
           i == CHOOSE j \in full : \A h \in full : j <= h
           take == Lesser(Len(pend[i]), call[t].n)
           out == {e \in {pend[i][j] : j \in 1..take} : Deliverable(e)}
           rest == SubSeq(pend[i], take + 1, Len(pend[i]))
<1>1. pend \in [Slot -> Seq(Event)] /\ kept \in [Threads -> SUBSET Event]
  BY DEF IInv, TypeOK
<1>2. CASE full = {}
  <2>1. kept' = [kept EXCEPT ![t] = {}] /\ pend' = pend
    BY <1>2 DEF Drain
  <2>2. \A h \in Slot : slotKq[h] = Loop[t] => pend[h] = <<>>
    BY <1>2
  <2>3. \A h \in Slot : slotKq[h] = Loop[t] => Held(h) = {}
    BY <2>2 DEF Held
  <2> QED
    BY <1>1, <2>1, <2>2 DEF Held, Of
<1>3. CASE full # {}
  <2>1. i \in full
    <3>1. full \in SUBSET Nat
      BY StashConstants DEF Slot
    <3> QED
      BY <1>3, <3>1, LeastExists
  <2>2. kept' = [kept EXCEPT ![t] = out] /\ pend' = [pend EXCEPT ![i] = rest]
    BY <1>3 DEF Drain
  <2> HIDE DEF i
  <2>3. i \in Slot /\ slotKq[i] = Loop[t] /\ Good(pend[i], slotKq[i])
    BY <2>1 DEF IInv, Slots
  <2>4. \A h \in Slot : slotKq[h] = Loop[t] => h = i
    BY <2>3, StashConstants DEF IInv, OneSlotPerKq, TypeOK
  <2>5. Len(pend[i]) \in Nat /\ DOMAIN pend[i] = 1..Len(pend[i]) /\ Len(pend[i]) <= MaxPending
    BY <2>3, LenProperties DEF Good
  <2>6. call[t].n \in Nat
    BY DEF IInv, TypeOK, Call
  <2>7. take \in Nat /\ take <= Len(pend[i]) /\ (call[t].n >= MaxPending => take = Len(pend[i]))
    BY <2>5, <2>6, StashConstants DEF Lesser
  <2> HIDE DEF take
  <2>8. Held(i) = {pend[i][j] : j \in 1..take} \cup Of(rest)
    <3>1. Of(pend[i]) = {pend[i][j] : j \in 1..take} \cup Of(rest)
      BY <2>3, <2>7, RestSplits
    <3> QED
      BY <3>1 DEF Held, Of
  <2>9. take = Len(pend[i]) => rest = <<>>
    <3>1. Len(pend[i]) + 1 > Len(pend[i])
      BY <2>5
    <3>2. pend[i] \in Seq(Event)
      BY <2>3 DEF Good
    <3> QED
      BY <2>5, <3>2
  <2> HIDE DEF rest
  <2>10. /\ kept'[t] = out /\ pend'[i] = rest
         /\ \A h \in Slot : h # i => pend'[h] = pend[h]
    BY <1>1, <2>2, <2>3
  <2>11. \A h \in Slot : h # i => Of(pend'[h]) = Held(h)
    BY <2>10 DEF Held, Of
  <2>12. \A h \in Slot : Of(pend'[h]) \subseteq Held(h) /\ (pend[h] = <<>> => pend'[h] = <<>>)
    <3>1. pend[i] # <<>>
      BY <2>1
    <3> QED
      BY <2>8, <2>10, <2>11, <3>1
  <2>13. \A e \in kept'[t] : Deliverable(e) /\ \E h \in Slot : slotKq[h] = Loop[t] /\ e \in Held(h)
    BY <2>3, <2>8, <2>10
  <2>14. \A h \in Slot : \A e \in Held(h) :
             e \in Of(pend'[h]) \/ e \in kept'[t] \/ ~ Deliverable(e)
    BY <2>8, <2>10, <2>11
  <2>15. call[t].n >= MaxPending => \A h \in Slot : slotKq[h] = Loop[t] => pend'[h] = <<>>
    BY <2>4, <2>7, <2>9, <2>10
  <2>16. \A h \in Slot : slotKq[h] # Loop[t] => pend'[h] = pend[h]
    BY <2>3, <2>10
  <2> QED
    BY <2>12, <2>13, <2>14, <2>15, <2>16
<1> QED
  BY <1>2, <1>3

-----------------------------------------------------------------------------
(***************************************************************************)
(* One thread per kqueue, as an event loop has it, and waits that ask for  *)
(* at least as many events as a slot holds: Bun asks for 1024 against 32.  *)
(***************************************************************************)
Apart == \A t, u \in Threads : Loop[t] = Loop[u] => t = u
Roomy == \A c \in Calls : c.op = "wait" => c.n >= MaxPending

\* A thread inside kevent64 has one of the calls, and a wait on its way to the
\* kernel has emptied its kqueue's slot.
Emptied ==
    \A t \in Threads :
        /\ pc[t] # "idle" => call[t] \in Calls
        /\ pc[t] = "wait" /\ call[t].op = "wait" =>
               \A i \in Slot : slotKq[i] = Loop[t] => pend[i] = <<>>

\* It stays empty, since no other thread stashes for that kqueue.
LEMMA EmptiedStep ==
  ASSUME Apart, Roomy, IInv, Emptied, [Next]_vars
  PROVE  Emptied'
<1> USE StashConstants
<1>1. ASSUME NEW t \in Threads, Invoke(t) PROVE Emptied'
  BY <1>1 DEF Invoke, Goto, Dispatch, Emptied, table, IInv, TypeOK
<1>2. ASSUME NEW t \in Threads, CheckFlag(t) \/ WaitFails(t) \/ Merge(t) PROVE Emptied'
  BY <1>2 DEF CheckFlag, WaitFails, Merge, Goto, Dispatch, Emptied, table, local, IInv, TypeOK
<1>3. ASSUME NEW t \in Threads, Register(t) \/ Wait(t) \/ Return(t) PROVE Emptied'
  BY <1>3 DEF Register, Wait, Return, Goto, Emptied, table, IInv, TypeOK
<1>4. ASSUME NEW t \in Threads, Submit(t) PROVE Emptied'
  BY <1>4 DEF Submit, Goto, Emptied, table, IInv, TypeOK, Changes
<1>5. ASSUME NEW t \in Threads, Invalidate(t) PROVE Emptied'
  <2>1. Without(<<>>, call[t].key) = <<>>
    BY DEF Without
  <2>2. \A i \in Slot : pend[i] = <<>> => pend'[i] = <<>>
    BY <1>5, <2>1 DEF Invalidate
  <2> QED
    BY <1>5, <2>2 DEF Invalidate, Goto, Dispatch, Emptied, local, IInv, TypeOK
<1>6. ASSUME NEW t \in Threads, StashBegin(t) PROVE Emptied'
  <2>1. pc[t] = "stash" /\ UNCHANGED <<pend, call>> /\ \A u \in Threads \ {t} : pc'[u] = pc[u]
    BY <1>6 DEF StashBegin, Goto, IInv, TypeOK
  <2>2. pc'[t] \in {"return", "stashing"}
    BY <1>6 DEF StashBegin, Goto, IInv, TypeOK
  <2>3. \A i \in Slot : slotKq'[i] = slotKq[i] \/ slotKq'[i] = Loop[t]
    BY <1>6 DEF StashBegin, IInv, TypeOK
  <2> QED
    BY <2>1, <2>2, <2>3 DEF Emptied, Apart
<1>7. ASSUME NEW t \in Threads, StashOne(t) PROVE Emptied'
  <2>1. /\ pc[t] = "stashing" /\ slotKq[slot[t]] = Loop[t]
        /\ \A i \in Slot : i # slot[t] => pend'[i] = pend[i]
        /\ UNCHANGED <<slotKq, pc, call>>
    BY <1>7 DEF StashOne, IInv, Locked, TypeOK
  <2> QED
    BY <2>1 DEF Emptied, Apart
<1>8. ASSUME NEW t \in Threads, StashEnd(t) PROVE Emptied'
  BY <1>8 DEF StashEnd, Goto, Emptied, IInv, TypeOK
<1>9. ASSUME NEW t \in Threads, Drain(t) PROVE Emptied'
  <2>1. /\ pc[t] = "drain" /\ UNCHANGED <<slotKq, call>>
        /\ \A u \in Threads \ {t} : pc'[u] = pc[u]
    BY <1>9 DEF Drain, Goto, IInv, TypeOK
  <2>2. call[t] \in Calls /\ (call[t].op = "wait" => call[t].n >= MaxPending)
    BY <2>1 DEF Emptied, Roomy
  <2>3. /\ \A i \in Slot : pend[i] = <<>> => pend'[i] = <<>>
        /\ call[t].n >= MaxPending => \A i \in Slot : slotKq[i] = Loop[t] => pend'[i] = <<>>
    BY <1>9, DrainEffect
  <2> QED
    BY <2>1, <2>2, <2>3 DEF Emptied
<1>10. ASSUME UNCHANGED <<table, pc, call>> PROVE Emptied'
  BY <1>10 DEF Emptied, table
<1>11. ASSUME NEW t \in Threads, NEW i \in Idents, Retire(t, i) PROVE Emptied'
  BY <1>10, <1>11 DEF Retire, local
<1>12. ASSUME NEW i \in Idents, Open(i) PROVE Emptied'
  BY <1>10, <1>12 DEF Open, local
<1>13. ASSUME NEW k \in Key, Activate(k) PROVE Emptied'
  BY <1>10, <1>13 DEF Activate, local
<1>14. ASSUME UNCHANGED vars PROVE Emptied'
  BY <1>10, <1>14 DEF vars, local
<1> QED
  BY <1>1, <1>2, <1>3, <1>4, <1>5, <1>6, <1>7, <1>8, <1>9, <1>11, <1>12, <1>13, <1>14 DEF Next, Kevent

\* With a thread per kqueue and roomy waits: a thread does not block in the
\* kernel while its kqueue's slot holds an event it could be given.
THEOREM NeverParksOverStash == ASSUME Apart, Roomy PROVE Spec => []NoParkOverStash
<1>1. Init => Emptied
  BY DEF Init, Emptied
<1>2. Emptied => NoParkOverStash
  BY DEF Emptied, NoParkOverStash, Held
<1> QED
  BY InductiveInvariant, <1>1, <1>2, EmptiedStep, PTL DEF Spec

-----------------------------------------------------------------------------
(***************************************************************************)
(* What keeps a freed owner's event from being returned, with one thread   *)
(* per kqueue and no ident reused while it has a stashed event: stashed    *)
(* timers have an owner who will delete them, a deletion leaves nothing of *)
(* its filter behind, and a new descriptor finds no event of an old one.   *)
(***************************************************************************)
Inside == {"register", "stash", "stashing", "wait", "merge", "return"}

\* The kernel has the filter and its owner is about to learn of it.
Adding(t, k) == pc[t] \in Inside /\ call[t].op = "add" /\ call[t].key = k /\ ok[t]

\* A timer's owner does not go before it has deleted the timer.
Owned(k) == k[1] \notin Fds => k \in armed \/ \E t \in Threads : Adding(t, k)

Current(e) == e.key[1] \in live /\ e.udata = gen[e.key[1]]

Calling ==
    \A t \in Threads :
        pc[t] # "idle" =>
            /\ call[t] \in Calls
            /\ call[t].op # "wait" => Home[call[t].key[1]] = Loop[t]
            /\ call[t].op = "add" => call[t].key[1] \in live
            /\ pc[t] = "drain" => call[t].op = "wait"

Filters ==
    \A k \in Key :
        /\ knote[k].mode = "none" => ~ knote[k].on
        /\ knote[k].on => k[1] \in live /\ knote[k].udata = gen[k[1]] /\ Owned(k)

ArmedLive == \A k \in armed : k[1] \in live

\* A stashed event may outlive its descriptor, but not meet the next one.
StashCurrent ==
    \A i \in Slot : \A e \in Held(i) :
        (e.key[1] \in live => e.udata = gen[e.key[1]]) /\ Owned(e.key)

HandCurrent ==
    \A t \in Threads : \A e \in kept[t] \cup fresh[t] :
        Current(e) /\ Owned(e.key) /\ Home[e.key[1]] = Loop[t]

\* What lets kq_invalidate_filter skip the lock.
FlagUp == \A i \in Slot : pend[i] # <<>> =>
              any \/ \E t \in Threads : pc[t] = "stashing" /\ slot[t] = i

\* From the moment a deletion has been through the stash, nothing of its filter
\* is left there, and from the moment the kernel has it, nothing anywhere.
DeletedAt(t) ==
    call[t].op = "delete" /\ pc[t] \in Inside \cup {"submit"} =>
        /\ \A i \in Slot : \A e \in Held(i) : e.key # call[t].key
        /\ \A e \in kept[t] \cup fresh[t] : e.key # call[t].key
        /\ pc[t] # "submit" => ~ knote[call[t].key].on
Deleted == \A t \in Threads : DeletedAt(t)

OwnersInv == /\ Calling /\ Filters /\ ArmedLive /\ StashCurrent
             /\ HandCurrent /\ FlagUp /\ Deleted

\* A slot holds events of filters of its kqueue.
LEMMA HeldHome ==
  ASSUME IInv, NEW i \in Slot, NEW e \in Held(i)
  PROVE  e \in Event /\ Home[e.key[1]] = slotKq[i]
BY ElementOfSeq, LenProperties DEF IInv, Slots, Good, Held

\* The steps of a thread inside kevent64 that leave the owners alone.
LEMMA ThreadOwners ==
  ASSUME Apart, IInv, OwnersInv, NEW t \in Threads, UNCHANGED <<live, gen, armed>>,
         \A u \in Threads \ {t} :
             /\ pc'[u] = pc[u] /\ call'[u] = call[u] /\ ok'[u] = ok[u]
             /\ kept'[u] = kept[u] /\ fresh'[u] = fresh[u],
         \A k : Adding(t, k) => Adding(t, k)',
         \A k \in Key :
             /\ knote'[k].mode = "none" => ~ knote'[k].on
             /\ knote'[k].on =>
                    \/ knote[k].on /\ knote'[k].udata = knote[k].udata
                    \/ /\ Home[k[1]] = Loop[t] /\ k[1] \in live
                       /\ knote'[k].udata = gen[k[1]] /\ Owned(k)',
         \A i \in Slot : Of(pend'[i]) \subseteq Held(i) \cup fresh[t],
         \A e \in kept'[t] \cup fresh'[t] :
             \/ e \in kept[t] \cup fresh[t]
             \/ Current(e) /\ Owned(e.key) /\ Home[e.key[1]] = Loop[t],
         pc'[t] # "idle" /\ (pc[t] = "idle" \/ call'[t] = call[t]),
         pc'[t] = "drain" => call'[t].op = "wait",
         pc[t] = "idle" =>
             /\ call'[t] \in Calls
             /\ call'[t].op # "wait" => Home[call'[t].key[1]] = Loop[t]
             /\ call'[t].op = "add" => call'[t].key[1] \in live,
         FlagUp', DeletedAt(t)'
  PROVE  OwnersInv'
<1>1. \A k : Owned(k) => Owned(k)'
  BY DEF Owned, Adding
<1>2. Calling'
  BY DEF OwnersInv, Calling
<1>3. Filters'
  BY <1>1 DEF OwnersInv, Filters
<1>4. ArmedLive'
  BY DEF OwnersInv, ArmedLive
<1>5. \A i \in Slot : Held(i)' \subseteq Held(i) \cup fresh[t]
  BY DEF Held, Of
<1>6. StashCurrent'
  BY <1>1, <1>5 DEF OwnersInv, StashCurrent, HandCurrent, Current
<1>7. HandCurrent'
  BY <1>1 DEF OwnersInv, HandCurrent, Current
<1>8. Deleted'
  <2>1. SUFFICES ASSUME NEW u \in Threads \ {t} PROVE DeletedAt(u)'
    BY DEF Deleted
  <2>2. SUFFICES ASSUME call[u].op = "delete", pc[u] \in Inside \cup {"submit"}
        PROVE  /\ \A i \in Slot : \A e \in Held(i)' : e.key # call[u].key
               /\ \A e \in kept[u] \cup fresh[u] : e.key # call[u].key
               /\ pc[u] # "submit" => ~ knote'[call[u].key].on
    BY <2>1 DEF DeletedAt
  <2>3. Home[call[u].key[1]] = Loop[u] /\ Loop[u] # Loop[t] /\ call[u].key \in Key
    <3>1. pc[u] # "idle"
      BY <2>2 DEF Inside
    <3>2. Loop[u] # Loop[t]
      BY <2>1 DEF Apart
    <3>3. call[u] \in Call
      BY DEF IInv, TypeOK
    <3> QED
      BY <2>2, <3>1, <3>2, <3>3 DEF OwnersInv, Calling, Call
  <2>4. \A e \in fresh[t] : e.key # call[u].key
    BY <2>3 DEF OwnersInv, HandCurrent
  <2>5. DeletedAt(u)
    BY DEF OwnersInv, Deleted
  <2> QED
    BY <1>5, <2>2, <2>3, <2>4, <2>5 DEF DeletedAt
<1> QED
  BY <1>2, <1>3, <1>4, <1>6, <1>7, <1>8 DEF OwnersInv

\* A step that leaves the table and the stages alone leaves the flag up.
LEMMA SameFlag ==
  ASSUME FlagUp, UNCHANGED <<pend, any>>,
         \A t \in Threads : pc[t] = "stashing" => pc'[t] = "stashing" /\ slot'[t] = slot[t]
  PROVE  FlagUp'
BY DEF FlagUp

\* The steps before the kernel is called.
LEMMA BeforeOwners ==
  ASSUME Apart, IInv, OwnersInv, IInv', NEW t \in Threads,
         Invoke(t) \/ CheckFlag(t) \/ Invalidate(t)
  PROVE  OwnersInv'
<1>1. /\ pc[t] \in {"idle", "check", "invalidate"} /\ UNCHANGED <<any, mu, ok, slot, kept, fresh, outer>>
      /\ \A u \in Threads \ {t} : pc'[u] = pc[u] /\ call'[u] = call[u]
  BY DEF Invoke, CheckFlag, Invalidate, Goto, table, local, IInv, TypeOK
<1>2. kept[t] = {} /\ fresh[t] = {} /\ ~ (\E k : Adding(t, k))
  BY <1>1 DEF IInv, Buffers, Adding, Inside
<1>3. CASE Invoke(t)
  <2>1. PICK c \in Calls :
          /\ c.op # "wait" => Home[c.key[1]] = Loop[t]
          /\ c.op = "add" => c.key[1] \in live
          /\ call' = [call EXCEPT ![t] = c]
          /\ Goto(t, IF c.op \in {"delete", "disable"} THEN "check" ELSE Dispatch(c))
    BY <1>3 DEF Invoke
  <2>2. pend' = pend /\ pc[t] = "idle"
    BY <1>3 DEF Invoke, table
  <2>3. call'[t] = c /\ (pc'[t] = "drain" => c.op = "wait") /\ pc'[t] \in {"check", "drain", "submit"}
        /\ (c.op = "delete" => pc'[t] = "check")
    BY <2>1 DEF Goto, Dispatch, IInv, TypeOK
  <2>4. DeletedAt(t)'
    BY <2>3 DEF DeletedAt, Inside
  <2>5. FlagUp'
    BY <1>1, <2>2, SameFlag DEF OwnersInv
  <2>6. \A i \in Slot : Of(pend'[i]) \subseteq Held(i)
    BY <2>2 DEF Of, Held
  <2> QED
    BY <1>1, <1>2, <2>1, <2>2, <2>3, <2>4, <2>5, <2>6, ThreadOwners
    DEF outer, OwnersInv, Filters
<1>4. CASE CheckFlag(t)
  <2>1. /\ pc[t] = "check" /\ UNCHANGED <<pend, slotKq, call>>
        /\ pc'[t] = IF any THEN "invalidate" ELSE Dispatch(call[t])
    BY <1>4 DEF CheckFlag, Goto, table, local, IInv, TypeOK
  <2>2. pc'[t] \in {"invalidate", "submit"}
    BY <2>1 DEF IInv, Changes, Dispatch
  <2>3. FlagUp'
    BY <1>1, <2>1, SameFlag DEF OwnersInv
  <2>4. \A i \in Slot : Held(i)' = Held(i) /\ Of(pend'[i]) \subseteq Held(i)
    BY <2>1 DEF Of, Held
  <2>5. DeletedAt(t)'
    <3>1. SUFFICES ASSUME ~ any, call[t].op = "delete", pc'[t] = "submit"
          PROVE  \A i \in Slot : \A e \in Held(i) : e.key # call[t].key
      BY <1>1, <1>2, <2>1, <2>2, <2>4 DEF DeletedAt, Inside
    <3>2. Home[call[t].key[1]] = Loop[t]
      BY <2>1, <3>1 DEF OwnersInv, Calling
    <3>3. ASSUME NEW i \in Slot, NEW e \in Held(i), e.key = call[t].key PROVE FALSE
      <4>1. slotKq[i] = Loop[t]
        BY <3>2, <3>3, HeldHome
      <4>2. pend[i] # <<>>
        BY <3>3 DEF Held
      <4>3. PICK u \in Threads : pc[u] = "stashing" /\ slot[u] = i
        BY <3>1, <4>2 DEF OwnersInv, FlagUp
      <4>4. u = t
        BY <4>1, <4>3 DEF IInv, Locked, Apart
      <4> QED
        BY <2>1, <4>3, <4>4
    <3> QED
      BY <3>3
  <2> QED
    BY <1>1, <1>2, <2>1, <2>2, <2>3, <2>4, <2>5, ThreadOwners
    DEF outer, OwnersInv, Filters
<1>5. CASE Invalidate(t)
  <2>1. /\ pc[t] = "invalidate" /\ mu = Nobody /\ UNCHANGED <<slotKq, call>>
        /\ pc'[t] = Dispatch(call[t])
        /\ \A i \in Slot : pend'[i] = IF slotKq[i] = Loop[t] THEN Without(pend[i], call[t].key)
                                      ELSE pend[i]
    BY <1>5 DEF Invalidate, Goto, local, IInv, TypeOK
  <2>2. pc'[t] = "submit" /\ call[t].op # "wait"
    BY <2>1 DEF IInv, Changes, Dispatch
  <2>3. \A i \in Slot : Of(pend'[i]) \subseteq {e \in Held(i) : slotKq[i] = Loop[t] => e.key # call[t].key}
    <3>1. \A i \in Slot : Of(Without(pend[i], call[t].key)) = {e \in Of(pend[i]) : e.key # call[t].key}
      BY WithoutTakes DEF IInv, Slots
    <3>2. \A i \in Slot : Of(pend[i]) = Held(i)
      BY DEF Of, Held
    <3> QED
      BY <2>1, <3>1, <3>2
  <2>4. DeletedAt(t)'
    <3>1. Home[call[t].key[1]] = Loop[t]
      BY <2>1, <2>2 DEF OwnersInv, Calling
    <3>2. \A i \in Slot : Held(i)' = Of(pend'[i])
      BY DEF Held, Of
    <3>3. \A i \in Slot : \A e \in Held(i)' : e.key # call[t].key
      BY <2>3, <3>1, <3>2, HeldHome
    <3> QED
      BY <1>1, <1>2, <2>1, <2>2, <3>3 DEF DeletedAt
  <2>5. FlagUp'
    <3>1. \A u \in Threads : pc[u] # "stashing"
      BY <2>1, StashConstants DEF IInv, Locked
    <3>2. \A i \in Slot : pend[i] # <<>> => any
      BY <3>1 DEF OwnersInv, FlagUp
    <3>3. Without(<<>>, call[t].key) = <<>>
      BY DEF Without
    <3> QED
      BY <1>1, <2>1, <3>2, <3>3 DEF FlagUp
  <2> QED
    BY <1>1, <1>2, <2>1, <2>2, <2>3, <2>4, <2>5, ThreadOwners
    DEF outer, OwnersInv, Filters
<1> QED
  BY <1>3, <1>4, <1>5

\* The kernel takes the change.
LEMMA SubmitOwners ==
  ASSUME Apart, IInv, OwnersInv, IInv', NEW t \in Threads, Submit(t)
  PROVE  OwnersInv'
<1> DEFINE c == call[t]
<1>1. /\ pc[t] = "submit" /\ pc'[t] \in {"register", "wait"}
      /\ knote' = Changed(c) /\ ok'[t] = ~Fails(c)
      /\ UNCHANGED <<table, mu, call, slot, kept, fresh, live, gen, armed>>
      /\ \A u \in Threads \ {t} : pc'[u] = pc[u] /\ ok'[u] = ok[u]
  BY DEF Submit, Goto, IInv, TypeOK
<1>2. kept[t] = {} /\ fresh[t] = {} /\ ~ (\E k : Adding(t, k))
  BY <1>1 DEF IInv, Buffers, Adding, Inside
<1>3. /\ c \in Call /\ c.op \in {"add", "delete", "disable"} /\ c.key \in Key
      /\ Home[c.key[1]] = Loop[t] /\ (c.op = "add" => c.key[1] \in live)
  <2>1. c \in Call /\ c.op \in {"add", "delete", "disable"}
    BY <1>1 DEF IInv, TypeOK, Changes
  <2> QED
    BY <1>1, <2>1 DEF OwnersInv, Calling, Call
<1>4. c.op = "add" => knote' = [knote EXCEPT ![c.key] = [mode |-> c.mode, on |-> TRUE,
                                  act |-> FALSE, udata |-> gen[c.key[1]]]]
  BY <1>1, <1>3 DEF Changed, Fails
<1>5. c.op = "delete" => knote' = knote \/ knote' = [knote EXCEPT ![c.key] = NoNote]
  BY <1>1 DEF Changed
<1>6. c.op = "disable" => knote' = knote \/ knote' = [knote EXCEPT ![c.key].on = FALSE]
  BY <1>1 DEF Changed
<1>7. knote \in [Key -> Note] /\ (c.op = "add" => c.mode # "none")
  BY <1>3, StashConstants DEF IInv, TypeOK, Call
<1>8. c.op = "add" => Owned(c.key)'
  BY <1>1, <1>3 DEF Owned, Adding, Inside, Fails
<1>9. \A k \in Key :
          /\ knote'[k].mode = "none" => ~ knote'[k].on
          /\ knote'[k].on =>
                 \/ knote[k].on /\ knote'[k].udata = knote[k].udata
                 \/ /\ Home[k[1]] = Loop[t] /\ k[1] \in live
                    /\ knote'[k].udata = gen[k[1]] /\ Owned(k)'
  <2>1. SUFFICES ASSUME NEW k \in Key
        PROVE  /\ knote'[k].mode = "none" => ~ knote'[k].on
               /\ knote'[k].on =>
                      \/ knote[k].on /\ knote'[k].udata = knote[k].udata
                      \/ /\ Home[k[1]] = Loop[t] /\ k[1] \in live
                         /\ knote'[k].udata = gen[k[1]] /\ Owned(k)'
    OBVIOUS
  <2>2. knote[k] \in Note /\ (knote[k].mode = "none" => ~ knote[k].on)
    BY <1>7 DEF OwnersInv, Filters
  <2>3. CASE knote'[k] = knote[k]
    BY <2>2, <2>3
  <2>4. CASE knote'[k] # knote[k]
    <3>1. k = c.key
      BY <1>3, <1>4, <1>5, <1>6, <1>7, <2>4
    <3>2. CASE c.op = "add"
      <4>1. /\ knote'[k].mode = c.mode /\ knote'[k].udata = gen[k[1]]
        BY <1>4, <1>7, <3>1, <3>2
      <4>2. Owned(k)'
        BY <1>1, <1>3, <3>1, <3>2 DEF Owned, Adding, Inside, Fails
      <4> QED
        BY <1>3, <1>7, <3>1, <3>2, <4>1, <4>2
    <3>3. CASE c.op = "delete"
      BY <1>5, <1>7, <2>4, <3>1, <3>3 DEF NoNote
    <3>4. CASE c.op = "disable"
      <4>1. knote'[k] = [knote[k] EXCEPT !.on = FALSE]
        BY <1>6, <1>7, <2>4, <3>1, <3>4
      <4> QED
        BY <2>2, <4>1 DEF Note
    <3> QED
      BY <1>3, <3>2, <3>3, <3>4
  <2> QED
    BY <2>3, <2>4
<1>10. c.op = "delete" => ~ knote'[c.key].on
  <2>1. knote[c.key].mode = "none" => ~ knote[c.key].on
    BY <1>3 DEF OwnersInv, Filters
  <2> QED
    BY <1>1, <1>3, <1>5, <1>7, <2>1 DEF Changed, Fails, NoNote
<1>11. \A i \in Slot : Held(i)' = Held(i) /\ Of(pend'[i]) \subseteq Held(i)
  BY <1>1 DEF Held, Of, table
<1>12. DeletedAt(t)'
  <2>1. DeletedAt(t)
    BY DEF OwnersInv, Deleted
  <2> QED
    BY <1>1, <1>2, <1>10, <1>11, <2>1 DEF DeletedAt
<1>13. FlagUp'
  BY <1>1, SameFlag DEF OwnersInv, table
<1> QED
  BY <1>1, <1>2, <1>9, <1>11, <1>12, <1>13, ThreadOwners

\* The kernel returns events, or none, and repeated ones are taken out.
LEMMA ScanOwners ==
  ASSUME Apart, IInv, OwnersInv, IInv', NEW t \in Threads,
         Register(t) \/ Wait(t) \/ WaitFails(t) \/ Merge(t)
  PROVE  OwnersInv'
<1>1. /\ pc[t] \in {"register", "wait", "merge"} /\ pc'[t] \in {"stash", "merge", "return"}
      /\ UNCHANGED <<table, mu, call, ok, slot, kept, live, gen, armed>>
      /\ \A u \in Threads \ {t} : pc'[u] = pc[u]
  BY DEF Register, Wait, WaitFails, Merge, Goto, local, outer, IInv, TypeOK
<1>2. /\ \A u \in Threads \ {t} : fresh'[u] = fresh[u]
      /\ \A e \in fresh'[t] : \/ e \in fresh[t]
                              \/ /\ e.key \in Key /\ Home[e.key[1]] = Loop[t]
                                 /\ knote[e.key].on /\ e.udata = knote[e.key].udata
      /\ \A k \in Key : \/ knote'[k] = knote[k]
                        \/ knote'[k] = NoNote
                        \/ \E a \in BOOLEAN : knote'[k] = [knote[k] EXCEPT !.act = a]
                        \/ knote'[k] = [knote[k] EXCEPT !.on = FALSE, !.act = FALSE]
  <2>1. CASE Register(t) \/ Wait(t)
    <3>1. PICK S \in SUBSET Ready(Loop[t]), still \in BOOLEAN :
            /\ knote' = [k \in Key |-> IF k \in S THEN Fired(knote[k], still) ELSE knote[k]]
            /\ fresh' = [fresh EXCEPT ![t] = {[key |-> k, udata |-> knote[k].udata] : k \in S}]
      BY <2>1 DEF Register, Wait, Scan
    <3>2. fresh'[t] = {[key |-> k, udata |-> knote[k].udata] : k \in S}
      BY <3>1 DEF IInv, TypeOK
    <3>3. \A k \in S : k \in Key /\ Home[k[1]] = Loop[t] /\ knote[k].on
      BY DEF Ready
    <3>4. ASSUME NEW k \in Key
          PROVE  \/ knote'[k] = knote[k]
                 \/ knote'[k] = NoNote
                 \/ \E a \in BOOLEAN : knote'[k] = [knote[k] EXCEPT !.act = a]
                 \/ knote'[k] = [knote[k] EXCEPT !.on = FALSE, !.act = FALSE]
      <4>1. \/ Fired(knote[k], still) = NoNote
            \/ Fired(knote[k], still) = [knote[k] EXCEPT !.act = still]
            \/ Fired(knote[k], still) = [knote[k] EXCEPT !.on = FALSE, !.act = FALSE]
        BY DEF Fired
      <4>2. knote'[k] = knote[k] \/ knote'[k] = Fired(knote[k], still)
        BY <3>1
      <4>3. CASE knote'[k] = [knote[k] EXCEPT !.act = still]
        BY <4>3
      <4> QED
        BY <4>1, <4>2, <4>3
    <3>5. \A u \in Threads \ {t} : fresh'[u] = fresh[u]
      BY <3>1 DEF IInv, TypeOK
    <3>6. \A e \in fresh'[t] : /\ e.key \in Key /\ Home[e.key[1]] = Loop[t]
                               /\ knote[e.key].on /\ e.udata = knote[e.key].udata
      BY <3>2, <3>3
    <3> QED
      BY <3>4, <3>5, <3>6
  <2>2. CASE WaitFails(t) \/ Merge(t)
    BY <2>2, ZenonT(60) DEF WaitFails, Merge, local, outer, IInv, TypeOK
  <2> QED
    BY <2>1, <2>2
<1>3. \A k \in Key : /\ knote'[k].mode = "none" => ~ knote'[k].on
                     /\ knote'[k].on => knote[k].on /\ knote'[k].udata = knote[k].udata
  <2>1. SUFFICES ASSUME NEW k \in Key
        PROVE  /\ knote'[k].mode = "none" => ~ knote'[k].on
               /\ knote'[k].on => knote[k].on /\ knote'[k].udata = knote[k].udata
    OBVIOUS
  <2>2. knote[k] \in Note /\ (knote[k].mode = "none" => ~ knote[k].on)
    BY DEF IInv, TypeOK, OwnersInv, Filters
  <2>3. CASE knote'[k] = NoNote
    BY <2>3 DEF NoNote
  <2>4. CASE \E a \in BOOLEAN : knote'[k] = [knote[k] EXCEPT !.act = a]
    BY <2>2, <2>4 DEF Note
  <2>5. CASE knote'[k] = [knote[k] EXCEPT !.on = FALSE, !.act = FALSE]
    BY <2>2, <2>5 DEF Note
  <2> QED
    BY <1>2, <2>2, <2>3, <2>4, <2>5
<1>4. \A e \in fresh'[t] : \/ e \in fresh[t]
                           \/ Current(e) /\ Owned(e.key) /\ Home[e.key[1]] = Loop[t]
  BY <1>2 DEF OwnersInv, Filters, Current
<1>5. \A i \in Slot : Held(i)' = Held(i) /\ Of(pend'[i]) \subseteq Held(i)
  BY <1>1 DEF Held, Of, table
<1>6. DeletedAt(t)'
  <2>1. SUFFICES ASSUME call[t].op = "delete"
        PROVE  /\ \A i \in Slot : \A e \in Held(i) : e.key # call[t].key
               /\ \A e \in kept[t] \cup fresh'[t] : e.key # call[t].key
               /\ ~ knote'[call[t].key].on
    BY <1>1, <1>5 DEF DeletedAt
  <2>2. /\ \A i \in Slot : \A e \in Held(i) : e.key # call[t].key
        /\ \A e \in kept[t] \cup fresh[t] : e.key # call[t].key
        /\ ~ knote[call[t].key].on
    BY <1>1, <2>1 DEF OwnersInv, Deleted, DeletedAt, Inside
  <2>3. call[t].key \in Key
    BY <2>1 DEF IInv, TypeOK, Call
  <2> QED
    BY <1>2, <1>3, <2>2, <2>3
<1>7. FlagUp'
  BY <1>1, SameFlag DEF OwnersInv, table
<1>8. \A k : Adding(t, k) => Adding(t, k)'
  BY <1>1 DEF Adding, Inside
<1> QED
  BY <1>1, <1>2, <1>3, <1>4, <1>5, <1>6, <1>7, <1>8, ThreadOwners

\* kq_stash and kq_drain move events between the table and the thread.
LEMMA TableOwners ==
  ASSUME Apart, IInv, OwnersInv, IInv', NEW t \in Threads,
         StashBegin(t) \/ StashOne(t) \/ StashEnd(t) \/ Drain(t)
  PROVE  OwnersInv'
<1>1. /\ pc[t] \in {"stash", "stashing", "drain"} /\ pc'[t] \in {"stashing", "return", "wait"}
      /\ UNCHANGED <<call, ok, knote, live, gen, armed>>
      /\ \A u \in Threads \ {t} : /\ pc'[u] = pc[u] /\ kept'[u] = kept[u]
                                  /\ fresh'[u] = fresh[u]
  <2>1. CASE StashBegin(t)
    BY <2>1, ZenonT(60) DEF StashBegin, Goto, outer, IInv, TypeOK
  <2>2. CASE StashOne(t)
    BY <2>2, ZenonT(60) DEF StashOne, Goto, outer, IInv, TypeOK
  <2>3. CASE StashEnd(t)
    BY <2>3, ZenonT(60) DEF StashEnd, Goto, outer, IInv, TypeOK
  <2>4. CASE Drain(t)
    BY <2>4, ZenonT(60) DEF Drain, Goto, outer, IInv, TypeOK
  <2> QED
    BY <2>1, <2>2, <2>3, <2>4
<1>2. \A k : Adding(t, k) => Adding(t, k)'
  BY <1>1 DEF Adding, Inside
<1>3. \A k \in Key : knote[k].mode = "none" => ~ knote[k].on
  BY DEF OwnersInv, Filters
<1>4. pc[t] = "drain" => call[t].op = "wait"
  BY DEF OwnersInv, Calling
<1>5. \A i \in Slot : Held(i)' = Of(pend'[i]) /\ Held(i) = Of(pend[i])
  BY DEF Held, Of
<1>6. DeletedAt(t)
  BY DEF OwnersInv, Deleted
<1>7. CASE StashBegin(t)
  <2>1. /\ pc[t] = "stash" /\ mu = Nobody /\ UNCHANGED <<pend, any, kept>>
        /\ fresh'[t] \subseteq fresh[t]
    BY <1>7 DEF StashBegin, IInv, TypeOK
  <2>2. FlagUp'
    <3>1. \A u \in Threads : pc[u] # "stashing"
      BY <2>1, StashConstants DEF IInv, Locked
    <3> QED
      BY <2>1, <3>1 DEF FlagUp, OwnersInv
  <2>3. DeletedAt(t)'
    BY <1>1, <1>5, <1>6, <2>1 DEF DeletedAt, Inside
  <2> QED
    BY <1>1, <1>2, <1>3, <1>5, <2>1, <2>2, <2>3, ThreadOwners
<1>8. CASE StashOne(t)
  <2>1. /\ pc[t] = "stashing" /\ slot[t] \in Slot /\ slotKq[slot[t]] = Loop[t] /\ mu = t
        /\ UNCHANGED <<slotKq, any, mu, pc, slot, kept>>
    BY <1>8 DEF StashOne, IInv, Locked
  <2>2. PICK e \in fresh[t] : /\ pend' = [pend EXCEPT ![slot[t]] = Stash(pend[slot[t]], e)]
                              /\ fresh' = [fresh EXCEPT ![t] = fresh[t] \ {e}]
    BY <1>8 DEF StashOne
  <2>3. fresh'[t] \subseteq fresh[t] /\ e \in Event
    BY <2>2 DEF IInv, TypeOK
  <2>4. \A i \in Slot : i # slot[t] => pend'[i] = pend[i]
    BY <2>1, <2>2 DEF IInv, TypeOK
  <2>5. Of(pend'[slot[t]]) \subseteq Held(slot[t]) \cup {e}
    <3>1. Good(pend[slot[t]], Loop[t])
      BY <2>1 DEF IInv, Slots
    <3>2. pend'[slot[t]] = Stash(pend[slot[t]], e)
      BY <2>1, <2>2 DEF IInv, TypeOK
    <3> QED
      BY <1>5, <2>1, <2>3, <3>1, <3>2, StashAdds
  <2>6. \A i \in Slot : Of(pend'[i]) \subseteq Held(i) \cup {e}
    BY <1>5, <2>4, <2>5
  <2>7. FlagUp'
    BY <2>1, <2>4 DEF FlagUp, OwnersInv
  <2>8. DeletedAt(t)'
    BY <1>1, <1>5, <1>6, <2>1, <2>2, <2>3, <2>6 DEF DeletedAt, Inside
  <2> QED
    BY <1>1, <1>2, <1>3, <2>1, <2>2, <2>3, <2>6, <2>7, <2>8, ThreadOwners
<1>9. CASE StashEnd(t)
  <2>1. /\ pc[t] = "stashing" /\ any' = TRUE /\ UNCHANGED <<pend, kept, fresh>>
    BY <1>9 DEF StashEnd
  <2>2. FlagUp'
    BY <2>1 DEF FlagUp
  <2>3. DeletedAt(t)'
    BY <1>1, <1>5, <1>6, <2>1 DEF DeletedAt, Inside
  <2> QED
    BY <1>1, <1>2, <1>3, <1>5, <2>1, <2>2, <2>3, ThreadOwners
<1>10. CASE Drain(t)
  <2>1. /\ pc[t] = "drain" /\ mu = Nobody /\ fresh' = fresh
        /\ any' = (any /\ \E i \in Slot : pend'[i] # <<>>)
    BY <1>10 DEF Drain
  <2>2. \A i \in Slot : Of(pend'[i]) \subseteq Held(i) /\ (pend[i] = <<>> => pend'[i] = <<>>)
    BY <1>10, DrainEffect
  <2>3. FlagUp'
    <3>1. \A u \in Threads : pc[u] # "stashing"
      BY <2>1, StashConstants DEF IInv, Locked
    <3> QED
      BY <2>1, <2>2, <3>1 DEF FlagUp, OwnersInv
  <2>4. ASSUME NEW e \in kept'[t] PROVE Current(e) /\ Owned(e.key) /\ Home[e.key[1]] = Loop[t]
    <3>1. PICK i \in Slot : slotKq[i] = Loop[t] /\ e \in Held(i) /\ Deliverable(e)
      BY <1>10, DrainEffect
    <3>2. /\ Owned(e.key) /\ Home[e.key[1]] = Loop[t]
          /\ (e.key[1] \in live => e.udata = gen[e.key[1]])
      BY <3>1, HeldHome DEF OwnersInv, StashCurrent
    <3>3. e.key[1] \in live
      <4>1. CASE e.key[1] \in Fds
        BY <3>1, <4>1 DEF Deliverable
      <4>2. CASE e.key \in armed
        BY <4>2 DEF OwnersInv, ArmedLive
      <4>3. ASSUME NEW u \in Threads, Adding(u, e.key) PROVE e.key[1] \in live
        BY <4>3 DEF Adding, Inside, OwnersInv, Calling
      <4> QED
        BY <3>2, <4>1, <4>2, <4>3 DEF Owned
    <3> QED
      BY <3>2, <3>3 DEF Current
  <2>5. DeletedAt(t)'
    BY <1>1, <1>4, <2>1 DEF DeletedAt
  <2> QED
    BY <1>1, <1>2, <1>3, <2>1, <2>2, <2>3, <2>4, <2>5, ThreadOwners
<1> QED
  BY <1>7, <1>8, <1>9, <1>10

\* The caller learns of its change: only a deleted filter loses its owner, and
\* by then the shim and the kernel have nothing of it.
LEMMA ReturnOwners ==
  ASSUME Apart, IInv, OwnersInv, IInv', NEW t \in Threads, Return(t)
  PROVE  OwnersInv'
<1> DEFINE c == call[t]
           gone(k) == c.op = "delete" /\ k = c.key
<1>1. /\ pc[t] = "return" /\ pc'[t] = "idle" /\ kept'[t] = {} /\ fresh'[t] = {}
      /\ armed' = CASE c.op = "add" /\ ok[t] -> armed \cup {c.key}
                    [] c.op = "delete"       -> armed \ {c.key}
                    [] OTHER                 -> armed
      /\ UNCHANGED <<table, mu, slot, knote, live, gen>>
      /\ \A u \in Threads \ {t} :
             /\ pc'[u] = pc[u] /\ call'[u] = call[u] /\ ok'[u] = ok[u]
             /\ kept'[u] = kept[u] /\ fresh'[u] = fresh[u]
  BY DEF Return, Goto, IInv, TypeOK
<1>2. \A i \in Slot : Held(i)' = Held(i)
  BY <1>1 DEF Held, table
<1>3. \A k : Owned(k) /\ ~ gone(k) => Owned(k)'
  <2>1. SUFFICES ASSUME NEW k, k[1] \notin Fds, Owned(k), ~ gone(k)
        PROVE  k \in armed' \/ \E u \in Threads : Adding(u, k)'
    BY DEF Owned
  <2>2. CASE k \in armed
    BY <1>1, <2>1, <2>2
  <2>3. ASSUME NEW u \in Threads, Adding(u, k)
        PROVE  k \in armed' \/ \E w \in Threads : Adding(w, k)'
    <3>1. CASE u = t
      BY <1>1, <2>3, <3>1 DEF Adding
    <3>2. CASE u # t
      BY <1>1, <2>3, <3>2 DEF Adding
    <3> QED
      BY <3>1, <3>2
  <2> QED
    BY <2>1, <2>2, <2>3 DEF Owned
<1>4. /\ c.op = "delete" =>
             /\ ~ knote[c.key].on /\ Home[c.key[1]] = Loop[t]
             /\ \A i \in Slot : \A e \in Held(i) : e.key # c.key
      /\ c.op = "add" => c.key[1] \in live
  BY <1>1 DEF OwnersInv, Deleted, DeletedAt, Calling, Inside
<1>5. Calling'
  BY <1>1 DEF OwnersInv, Calling
<1>6. Filters'
  BY <1>1, <1>3, <1>4 DEF OwnersInv, Filters
<1>7. ArmedLive'
  BY <1>1, <1>4 DEF OwnersInv, ArmedLive
<1>8. StashCurrent'
  <2>1. SUFFICES ASSUME NEW i \in Slot, NEW e \in Held(i)
        PROVE  (e.key[1] \in live => e.udata = gen[e.key[1]]) /\ Owned(e.key)'
    BY <1>1, <1>2 DEF StashCurrent
  <2>2. ~ gone(e.key)
    BY <1>4
  <2> HIDE DEF gone
  <2> QED
    BY <1>3, <2>2 DEF OwnersInv, StashCurrent
<1>9. HandCurrent'
  <2>1. SUFFICES ASSUME NEW u \in Threads, NEW e \in kept'[u] \cup fresh'[u]
        PROVE  Current(e)' /\ Owned(e.key)' /\ Home[e.key[1]] = Loop[u]
    BY DEF HandCurrent
  <2>2. u # t /\ e \in kept[u] \cup fresh[u]
    BY <1>1, <2>1
  <2>3. Current(e) /\ Owned(e.key) /\ Home[e.key[1]] = Loop[u]
    BY <2>2 DEF OwnersInv, HandCurrent
  <2>4. ~ gone(e.key)
    BY <1>4, <2>2, <2>3 DEF Apart
  <2> HIDE DEF gone
  <2> QED
    BY <1>1, <1>3, <2>3, <2>4 DEF Current
<1>10. FlagUp'
  BY <1>1, SameFlag DEF OwnersInv, table
<1>11. Deleted'
  BY <1>1, <1>2 DEF OwnersInv, Deleted, DeletedAt, Inside
<1> QED
  BY <1>5, <1>6, <1>7, <1>8, <1>9, <1>10, <1>11 DEF OwnersInv

\* The owners: an object goes when its thread is outside kevent64 and its timer
\* is deleted, and the next one comes when no event of the last is stashed.
LEMMA WorldOwners ==
  ASSUME Apart, ~ EarlyReuse, IInv, OwnersInv, IInv',
         \/ \E t \in Threads, i \in Idents : Retire(t, i)
         \/ \E i \in Idents : Open(i)
         \/ \E k \in Key : Activate(k)
         \/ UNCHANGED vars
  PROVE  OwnersInv'
<1>1. UNCHANGED <<table, mu, pc, local>>
  BY DEF Retire, Open, Activate, vars
<1>2. /\ \A i \in Slot : Held(i)' = Held(i)
      /\ \A t \in Threads : \A k : Adding(t, k)' = Adding(t, k)
  BY <1>1 DEF Held, table, Adding, local
<1>3. FlagUp'
  BY <1>1, SameFlag DEF OwnersInv, table, local
<1>4. ASSUME NEW t \in Threads, NEW i \in Idents, Retire(t, i) PROVE OwnersInv'
  <2>1. /\ pc[t] = "idle" /\ Home[i] = Loop[t] /\ i \in live /\ (i \in Timers => <<i, "timer">> \notin armed)
        /\ live' = live \ {i} /\ armed' = {k \in armed : k[1] # i} /\ gen' = gen
        /\ knote' = [k \in Key |-> IF k[1] = i /\ i \in Fds THEN NoNote ELSE knote[k]]
    BY <1>4 DEF Retire
  <2>2. kept[t] = {} /\ fresh[t] = {}
    BY <2>1 DEF IInv, Buffers
  <2>3. \A u \in Threads : Home[i] = Loop[u] => u = t
    BY <2>1 DEF Apart
  <2>4. \A k \in Key : k[1] = i /\ i \notin Fds => ~ Owned(k)
    <3>1. SUFFICES ASSUME NEW k \in Key, k[1] = i, i \notin Fds PROVE ~ Owned(k)
      OBVIOUS
    <3>2. k = <<i, "timer">> /\ k \notin armed
      BY <2>1, <3>1 DEF Key
    <3>3. ASSUME NEW u \in Threads, Adding(u, k) PROVE FALSE
      BY <2>1, <2>3, <3>1, <3>3 DEF Adding, Inside, OwnersInv, Calling
    <3> QED
      BY <3>1, <3>2, <3>3 DEF Owned
  <2>5. \A k : Owned(k) /\ k[1] # i => Owned(k)'
    BY <1>2, <2>1 DEF Owned
  <2>6. \A k \in Key : Owned(k) => Owned(k)'
    BY <2>4, <2>5 DEF Owned
  <2>7. Calling'
    BY <1>1, <2>1, <2>3 DEF OwnersInv, Calling, local
  <2>8. Filters'
    <3>1. SUFFICES ASSUME NEW k \in Key
          PROVE  /\ knote'[k].mode = "none" => ~ knote'[k].on
                 /\ knote'[k].on => k[1] \in live' /\ knote'[k].udata = gen[k[1]] /\ Owned(k)'
      BY <2>1 DEF Filters
    <3>2. CASE k[1] = i /\ i \in Fds
      BY <2>1, <3>2 DEF NoNote
    <3>3. CASE ~ (k[1] = i /\ i \in Fds)
      <4>1. knote'[k] = knote[k]
        BY <2>1, <3>3
      <4> QED
        BY <2>1, <2>4, <2>6, <3>3, <4>1 DEF OwnersInv, Filters
    <3> QED
      BY <3>2, <3>3
  <2>9. ArmedLive'
    BY <2>1 DEF OwnersInv, ArmedLive
  <2>10. StashCurrent'
    <3>1. \A h \in Slot : \A e \in Held(h) : e.key \in Key
      BY HeldHome DEF Event
    <3> QED
      BY <1>2, <2>1, <2>6, <3>1 DEF OwnersInv, StashCurrent
  <2>11. HandCurrent'
    <3>1. SUFFICES ASSUME NEW u \in Threads, NEW e \in kept[u] \cup fresh[u]
          PROVE  Current(e)' /\ Owned(e.key)' /\ Home[e.key[1]] = Loop[u]
      BY <1>1 DEF HandCurrent, local
    <3>2. Current(e) /\ Owned(e.key) /\ Home[e.key[1]] = Loop[u]
      BY DEF OwnersInv, HandCurrent
    <3>3. e.key[1] # i
      BY <2>2, <2>3, <3>1, <3>2
    <3> QED
      BY <2>1, <2>5, <3>2, <3>3 DEF Current
  <2>12. Deleted'
    <3>1. \A k \in Key : knote'[k].on => knote[k].on
      BY <2>1 DEF NoNote
    <3>2. \A u \in Threads : call[u].op = "delete" => call[u].key \in Key
      BY DEF IInv, TypeOK, Call
    <3> QED
      BY <1>1, <1>2, <3>1, <3>2 DEF OwnersInv, Deleted, DeletedAt, local
  <2> QED
    BY <1>3, <2>7, <2>8, <2>9, <2>10, <2>11, <2>12 DEF OwnersInv
<1>5. ASSUME NEW i \in Idents, Open(i) PROVE OwnersInv'
  <2>1. /\ i \notin live /\ \A k \in Stashed : k[1] # i
        /\ live' = live \cup {i} /\ gen' = [gen EXCEPT ![i] = gen[i] + 1]
        /\ UNCHANGED <<knote, armed>>
    BY <1>5 DEF Open
  <2>2. \A h \in Slot : \A e \in Held(h) : e.key[1] # i
    BY <2>1 DEF Stashed, KeysOf
  <2>3. \A k : Owned(k)' = Owned(k)
    BY <1>2, <2>1 DEF Owned
  <2>4. \A j : j # i => gen'[j] = gen[j]
    BY <2>1 DEF IInv, TypeOK
  <2>5. Calling' /\ ArmedLive'
    BY <1>1, <2>1 DEF OwnersInv, Calling, ArmedLive, local
  <2>6. Filters'
    BY <2>1, <2>3, <2>4 DEF OwnersInv, Filters
  <2>7. StashCurrent'
    BY <1>2, <2>1, <2>2, <2>3, <2>4 DEF OwnersInv, StashCurrent
  <2>8. HandCurrent'
    BY <1>1, <2>1, <2>3, <2>4 DEF OwnersInv, HandCurrent, Current, local
  <2>9. Deleted'
    BY <1>1, <1>2, <2>1 DEF OwnersInv, Deleted, DeletedAt, local
  <2> QED
    BY <1>3, <2>5, <2>6, <2>7, <2>8, <2>9 DEF OwnersInv
<1>6. ASSUME UNCHANGED <<live, gen, armed>>,
             \A k \in Key : /\ knote'[k].mode = knote[k].mode /\ knote'[k].on = knote[k].on
                            /\ knote'[k].udata = knote[k].udata
      PROVE  OwnersInv'
  <2>1. \A k : Owned(k)' = Owned(k)
    BY <1>2, <1>6 DEF Owned
  <2>2. Calling' /\ ArmedLive'
    BY <1>1, <1>6 DEF OwnersInv, Calling, ArmedLive, local
  <2>3. Filters' /\ StashCurrent' /\ HandCurrent'
    BY <1>1, <1>2, <1>6, <2>1 DEF OwnersInv, Filters, StashCurrent, HandCurrent, Current, local
  <2>4. \A u \in Threads : call[u].op = "delete" => call[u].key \in Key
    BY DEF IInv, TypeOK, Call
  <2>5. Deleted'
    BY <1>1, <1>2, <1>6, <2>4 DEF OwnersInv, Deleted, DeletedAt, local
  <2> QED
    BY <1>3, <2>2, <2>3, <2>5 DEF OwnersInv
<1>7. ASSUME NEW k \in Key, Activate(k) PROVE OwnersInv'
  <2>1. knote' = [knote EXCEPT ![k].act = TRUE] /\ UNCHANGED <<live, gen, armed>>
    BY <1>7 DEF Activate
  <2>2. knote \in [Key -> Note]
    BY DEF IInv, TypeOK
  <2> QED
    BY <1>6, <2>1, <2>2 DEF Note
<1> QED
  BY <1>4, <1>5, <1>6, <1>7 DEF vars, outer

\* With a thread per kqueue and no ident reused under a stashed event: no call
\* returns an event whose owner has been freed.
THEOREM NoFreedOwner ==
  ASSUME Apart, ~ EarlyReuse PROVE Spec => []NoDanglingUdata
<1>1. Init => OwnersInv
  <2> SUFFICES ASSUME Init PROVE OwnersInv
    OBVIOUS
  <2> USE DEF Init
  <2>1. \A i \in Slot : Held(i) = {}
    BY DEF Held
  <2>2. Calling /\ ArmedLive /\ HandCurrent /\ FlagUp
    BY DEF Calling, ArmedLive, HandCurrent, FlagUp
  <2>3. Filters /\ StashCurrent /\ Deleted
    BY <2>1 DEF Filters, NoNote, StashCurrent, Deleted, DeletedAt, Inside
  <2> QED
    BY <2>2, <2>3 DEF OwnersInv
<1>2. IInv /\ OwnersInv /\ IInv' /\ [Next]_vars => OwnersInv'
  BY BeforeOwners, SubmitOwners, ScanOwners, TableOwners, ReturnOwners, WorldOwners
  DEF Next, Kevent
<1>3. OwnersInv => NoDanglingUdata
  BY DEF OwnersInv, HandCurrent, Current, NoDanglingUdata, Result
<1> QED
  BY InductiveInvariant, <1>1, <1>2, <1>3, PTL DEF Spec

-----------------------------------------------------------------------------
(***************************************************************************)
(* "What we MUST NOT do is drop EV_ONESHOT or EV_DISPATCH events": with a  *)
(* slot for every kqueue and room for one event of each of its filters,    *)
(* kq_stash never does.                                                    *)
(***************************************************************************)
FiltersOf(kq) == {k \in Key : Home[k[1]] = kq}

Fits == /\ IsFiniteSet(Kqs) /\ Cardinality(Kqs) <= TableSize
        /\ \A kq \in Kqs : /\ IsFiniteSet(FiltersOf(kq))
                           /\ Cardinality(FiltersOf(kq)) <= MaxPending

\* The kernel returns one event per filter.
OneEach == \A t \in Threads : \A e, f \in fresh[t] : e.key = f.key => e = f

\* An injection into a finite set: there are no more arguments than values.
LEMMA NoMore ==
  ASSUME NEW S, NEW T, IsFiniteSet(T), NEW f \in [S -> T],
         \A x, y \in S : f[x] = f[y] => x = y
  PROVE  IsFiniteSet(S) /\ Cardinality(S) <= Cardinality(T)
<1>1. f \in Injection(S, T)
  BY DEF Injection, IsInjective
<1> QED
  BY <1>1, FS_Injection

\* Every kqueue gets a slot.
LEMMA SlotForThere ==
  ASSUME Fits, IInv, NEW kq \in Kqs
  PROVE  SlotFor(kq) # 0
<1>1. SUFFICES ASSUME \A j \in Slot : slotKq[j] \notin {kq, NoKq} PROVE FALSE
  BY SlotForFinds, StashConstants DEF Slot
<1> DEFINE others == Kqs \ {kq}
<1>2. slotKq \in [Slot -> others] /\ \A i, j \in Slot : slotKq[i] = slotKq[j] => i = j
  BY <1>1 DEF IInv, TypeOK, OneSlotPerKq
<1>3. IsFiniteSet(others) /\ Cardinality(others) = Cardinality(Kqs) - 1 /\ Cardinality(Kqs) \in Nat
  BY FS_RemoveElement, FS_CardinalityType DEF Fits
<1>4. Cardinality(Slot) = TableSize
  BY Counted, StashConstants DEF Slot
<1> HIDE DEF others
<1>5. Cardinality(Slot) <= Cardinality(others)
  BY <1>2, <1>3, NoMore
<1> QED
  BY <1>3, <1>4, <1>5, StashConstants DEF Fits

\* A slot has room for an event of a filter it has none of.
LEMMA RoomForMore ==
  ASSUME Fits, NEW kq \in Kqs, NEW evs, Good(evs, kq), NEW e \in Event,
         Home[e.key[1]] = kq, e.key \notin KeysOf(Of(evs))
  PROVE  Len(evs) < MaxPending
<1> DEFINE others == FiltersOf(kq) \ {e.key}
           f == [j \in 1..Len(evs) |-> evs[j].key]
<1>1. Len(evs) \in Nat /\ DOMAIN evs = 1..Len(evs) /\ \A j \in 1..Len(evs) : evs[j] \in Event
  BY LenProperties, ElementOfSeq DEF Good
<1>2. f \in [1..Len(evs) -> others]
  BY <1>1 DEF Good, Event, FiltersOf, KeysOf, Of
<1>3. \A i, j \in 1..Len(evs) : f[i] = f[j] => i = j
  BY <1>1 DEF Good
<1>4. e.key \in FiltersOf(kq)
  BY DEF FiltersOf, Event
<1>5. /\ IsFiniteSet(others) /\ Cardinality(others) = Cardinality(FiltersOf(kq)) - 1
      /\ Cardinality(FiltersOf(kq)) \in Nat
  BY <1>4, FS_RemoveElement, FS_CardinalityType DEF Fits
<1>6. Cardinality(1..Len(evs)) = Len(evs)
  BY <1>1, Counted
<1> HIDE DEF others, f
<1>7. Cardinality(1..Len(evs)) <= Cardinality(others)
  BY <1>2, <1>3, <1>5, NoMore
<1> QED
  BY <1>1, <1>5, <1>6, <1>7, StashConstants DEF Fits

\* No call has more events to stash than a slot holds.
LEMMA HandFits ==
  ASSUME Fits, IInv, OneEach, NEW t \in Threads
  PROVE  IsFiniteSet(fresh[t]) /\ Cardinality(fresh[t]) <= MaxPending
         /\ Cardinality(fresh[t]) \in Nat
<1> DEFINE f == [e \in fresh[t] |-> e.key]
<1>1. f \in [fresh[t] -> FiltersOf(Loop[t])]
  BY DEF IInv, TypeOK, Buffers, FiltersOf, Event
<1>2. \A e, g \in fresh[t] : f[e] = f[g] => e = g
  BY DEF OneEach
<1>3. /\ IsFiniteSet(FiltersOf(Loop[t])) /\ Cardinality(FiltersOf(Loop[t])) <= MaxPending
      /\ Cardinality(FiltersOf(Loop[t])) \in Nat
  BY StashConstants, FS_CardinalityType DEF Fits
<1> HIDE DEF f
<1>4. IsFiniteSet(fresh[t]) /\ Cardinality(fresh[t]) <= Cardinality(FiltersOf(Loop[t]))
  BY <1>1, <1>2, <1>3, NoMore
<1> QED
  BY <1>3, <1>4, FS_CardinalityType, StashConstants

LEMMA OneEachStep == ASSUME IInv, OneEach, [Next]_vars PROVE OneEach'
<1>1. ASSUME NEW t \in Threads, \A u \in Threads \ {t} : fresh'[u] = fresh[u],
             fresh'[t] \subseteq fresh[t]
      PROVE  OneEach'
  BY <1>1 DEF OneEach
<1>2. ASSUME NEW t \in Threads, Register(t) \/ Wait(t) PROVE OneEach'
  <2>1. PICK S \in SUBSET Ready(Loop[t]) :
          fresh' = [fresh EXCEPT ![t] = {[key |-> k, udata |-> knote[k].udata] : k \in S}]
    BY <1>2 DEF Register, Wait, Scan
  <2> QED
    BY <2>1 DEF OneEach, IInv, TypeOK
<1>3. ASSUME NEW t \in Threads, StashBegin(t) \/ StashOne(t) \/ Merge(t) \/ Return(t) PROVE OneEach'
  BY <1>1, <1>3, SMTT(60) DEF StashBegin, StashOne, Merge, Return, IInv, TypeOK
<1>4. ASSUME UNCHANGED fresh PROVE OneEach'
  BY <1>4 DEF OneEach
<1>5. ASSUME NEW t \in Threads,
             \/ Invoke(t) \/ CheckFlag(t) \/ Invalidate(t) \/ Submit(t) \/ StashEnd(t)
             \/ Drain(t) \/ WaitFails(t)
      PROVE  OneEach'
  BY <1>4, <1>5 DEF Invoke, CheckFlag, Invalidate, Submit, StashEnd, Drain, WaitFails, local
<1>6. ASSUME \/ \E t \in Threads, i \in Idents : Retire(t, i)
             \/ \E i \in Idents : Open(i)
             \/ \E k \in Key : Activate(k)
             \/ UNCHANGED vars
      PROVE  OneEach'
  BY <1>4, <1>6 DEF Retire, Open, Activate, vars, local
<1> QED
  BY <1>2, <1>3, <1>5, <1>6 DEF Next, Kevent

\* The filter has an event in the table or in some call's hands.
Flying(k) == \/ \E i \in Slot : \E e \in Held(i) : e.key = k
             \/ \E t \in Threads : \E e \in kept[t] \cup fresh[t] : e.key = k

\* How it may cease to: returned, deleted, or its descriptor closed.
Lands(k) == \E t \in Threads : \/ pc[t] = "return" /\ k \in KeysOf(Result(t))
                               \/ pc[t] = "invalidate" /\ call[t].key = k
                               \/ pc[t] = "drain" /\ k[1] \in Fds \ live

LEMMA FlightStep ==
  ASSUME Fits, IInv, OneEach, NEW k, Flying(k), ~ Lands(k), [Next]_vars
  PROVE  Flying(k)'
<1> USE StashConstants
<1>1. \A i \in Slot : Held(i)' = Of(pend'[i]) /\ Held(i) = Of(pend[i])
  BY DEF Held, Of
<1>2. ASSUME UNCHANGED <<pend, kept, fresh>> PROVE Flying(k)'
  BY <1>2 DEF Flying, Held
<1>3. ASSUME NEW t \in Threads, UNCHANGED pend,
             \A u \in Threads \ {t} : kept'[u] = kept[u] /\ fresh'[u] = fresh[u],
             \A e \in kept[t] \cup fresh[t] : \E f \in kept'[t] \cup fresh'[t] : f.key = e.key
      PROVE  Flying(k)'
  <2>1. CASE \E i \in Slot : \E e \in Held(i) : e.key = k
    BY <1>3, <2>1 DEF Flying, Held
  <2>2. ASSUME NEW u \in Threads, NEW e \in kept[u] \cup fresh[u], e.key = k PROVE Flying(k)'
    BY <1>3, <2>2 DEF Flying
  <2> QED
    BY <2>1, <2>2 DEF Flying
<1>4. ASSUME NEW t \in Threads, Invalidate(t) PROVE Flying(k)'
  <2>1. /\ pc[t] = "invalidate" /\ UNCHANGED <<kept, fresh>>
        /\ \A i \in Slot : pend'[i] = IF slotKq[i] = Loop[t] THEN Without(pend[i], call[t].key)
                                      ELSE pend[i]
    BY <1>4 DEF Invalidate, local
  <2>2. k # call[t].key
    BY <2>1 DEF Lands
  <2>3. \A i \in Slot : Of(Without(pend[i], call[t].key)) = {e \in Of(pend[i]) : e.key # call[t].key}
    BY WithoutTakes DEF IInv, Slots
  <2>4. \A i \in Slot : \A e \in Held(i) : e.key = k => e \in Held(i)'
    BY <1>1, <2>1, <2>2, <2>3
  <2> QED
    BY <2>1, <2>4 DEF Flying
<1>5. ASSUME NEW t \in Threads, Register(t) \/ Wait(t) PROVE Flying(k)'
  <2>1. /\ UNCHANGED <<table, kept>> /\ fresh[t] = {}
        /\ \A u \in Threads \ {t} : fresh'[u] = fresh[u]
    BY <1>5 DEF Register, Wait, Scan, IInv, TypeOK, Buffers
  <2> QED
    BY <1>3, <2>1 DEF table
<1>6. ASSUME NEW t \in Threads, StashBegin(t) PROVE Flying(k)'
  <2>1. SlotFor(Loop[t]) # 0
    BY SlotForThere
  <2>2. PICK S \in SUBSET fresh[t] :
          /\ Cardinality(S) = Lesser(MaxPending, Cardinality(fresh[t]))
          /\ fresh' = [fresh EXCEPT ![t] = S]
    BY <1>6, <2>1 DEF StashBegin
  <2>3. S = fresh[t]
    <3>1. Cardinality(S) = Cardinality(fresh[t])
      BY <2>2, HandFits DEF Lesser
    <3> QED
      BY <3>1, HandFits, FS_Subset
  <2>4. UNCHANGED <<pend, kept, fresh>>
    BY <1>6, <2>2, <2>3 DEF StashBegin, IInv, TypeOK
  <2> QED
    BY <1>2, <2>4
<1>7. ASSUME NEW t \in Threads, StashOne(t) PROVE Flying(k)'
  <2>1. /\ slot[t] \in Slot /\ slotKq[slot[t]] = Loop[t] /\ kept' = kept
    BY <1>7 DEF StashOne, IInv, Locked
  <2>2. PICK e \in fresh[t] : /\ pend' = [pend EXCEPT ![slot[t]] = Stash(pend[slot[t]], e)]
                              /\ fresh' = [fresh EXCEPT ![t] = fresh[t] \ {e}]
    BY <1>7 DEF StashOne
  <2>3. /\ Good(pend[slot[t]], Loop[t]) /\ e \in Event /\ Home[e.key[1]] = Loop[t]
        /\ Loop[t] \in Kqs
    BY <2>1, <2>2 DEF IInv, Slots, Buffers, TypeOK
  <2>4. KeysOf(Of(pend[slot[t]])) \cup {e.key} \subseteq KeysOf(Of(Stash(pend[slot[t]], e)))
    BY <2>3, RoomForMore, StashKeeps
  <2>5. /\ pend'[slot[t]] = Stash(pend[slot[t]], e)
        /\ \A i \in Slot : i # slot[t] => pend'[i] = pend[i]
        /\ fresh'[t] = fresh[t] \ {e} /\ \A u \in Threads \ {t} : fresh'[u] = fresh[u]
    BY <2>1, <2>2 DEF IInv, TypeOK
  <2>6. \A i \in Slot : KeysOf(Held(i)) \subseteq KeysOf(Of(pend'[i]))
    BY <1>1, <2>4, <2>5
  <2>7. e.key \in KeysOf(Of(pend'[slot[t]]))
    BY <2>4, <2>5
  <2>8. \A i \in Slot : k \in KeysOf(Of(pend'[i])) => Flying(k)'
    BY <1>1 DEF Flying, KeysOf
  <2>9. CASE \E i \in Slot : \E f \in Held(i) : f.key = k
    BY <2>6, <2>8, <2>9 DEF KeysOf
  <2>10. ASSUME NEW u \in Threads, NEW f \in kept[u] \cup fresh[u], f.key = k PROVE Flying(k)'
    <3>1. CASE u = t /\ f = e
      BY <2>1, <2>7, <2>8, <2>10, <3>1
    <3>2. CASE ~ (u = t /\ f = e)
      <4>1. f \in kept'[u] \cup fresh'[u]
        BY <2>1, <2>5, <2>10, <3>2
      <4> QED
        BY <2>10, <4>1 DEF Flying
    <3> QED
      BY <3>1, <3>2
  <2> QED
    BY <2>9, <2>10 DEF Flying
<1>8. ASSUME NEW t \in Threads, Drain(t) PROVE Flying(k)'
  <2>1. /\ pc[t] = "drain" /\ fresh' = fresh /\ kept[t] = {}
        /\ \A u \in Threads \ {t} : kept'[u] = kept[u]
    BY <1>8 DEF Drain, IInv, TypeOK, Buffers
  <2>2. \A i \in Slot : \A e \in Held(i) : e.key = k => e \in Held(i)' \/ e \in kept'[t]
    <3>1. \A i \in Slot : \A e \in Held(i) :
              e \in Of(pend'[i]) \/ e \in kept'[t] \/ ~ Deliverable(e)
      BY <1>8, DrainEffect
    <3> QED
      BY <1>1, <2>1, <3>1 DEF Deliverable, Lands
  <2> QED
    BY <2>1, <2>2 DEF Flying
<1>9. ASSUME NEW t \in Threads, Merge(t) PROVE Flying(k)'
  <2>1. /\ UNCHANGED <<table, kept>> /\ \A u \in Threads \ {t} : fresh'[u] = fresh[u]
        /\ fresh'[t] = {e \in fresh[t] : e.key \notin KeysOf(kept[t])}
    BY <1>9 DEF Merge, IInv, TypeOK
  <2> QED
    BY <1>3, <2>1 DEF table, KeysOf
<1>10. ASSUME NEW t \in Threads, Return(t) PROVE Flying(k)'
  <2>1. /\ UNCHANGED pend /\ pc[t] = "return"
        /\ \A u \in Threads \ {t} : kept'[u] = kept[u] /\ fresh'[u] = fresh[u]
    BY <1>10 DEF Return, table, IInv, TypeOK
  <2>2. \A e \in kept[t] \cup fresh[t] : e.key # k
    BY <2>1 DEF Lands, KeysOf, Result
  <2> QED
    BY <2>1, <2>2 DEF Flying, Held
<1>11. ASSUME NEW t \in Threads,
              Invoke(t) \/ CheckFlag(t) \/ Submit(t) \/ StashEnd(t) \/ WaitFails(t)
       PROVE  Flying(k)'
  BY <1>2, <1>11 DEF Invoke, CheckFlag, Submit, StashEnd, WaitFails, table, local
<1>12. ASSUME \/ \E t \in Threads, i \in Idents : Retire(t, i)
              \/ \E i \in Idents : Open(i)
              \/ \E j \in Key : Activate(j)
              \/ UNCHANGED vars
       PROVE  Flying(k)'
  BY <1>2, <1>12 DEF Retire, Open, Activate, vars, table, local
<1> QED
  BY <1>4, <1>5, <1>6, <1>7, <1>8, <1>9, <1>10, <1>11, <1>12 DEF Next, Kevent

\* With a slot for every kqueue and room in it for each of its filters: an event
\* the kernel has given up is held until it is returned, deleted or closed.
THEOREM EveryFireSurvives == ASSUME Fits PROVE Spec => FiresSurvive
<1>1. Init => OneEach
  BY DEF Init, OneEach
<1>2. IInv /\ OneEach /\ [Next]_vars => [\A k \in InFlight : FireSurvives(k)]_vars
  <2> SUFFICES ASSUME IInv, OneEach, [Next]_vars, NEW k \in InFlight
               PROVE  FireSurvives(k)
    OBVIOUS
  <2>1. Flying(k)
    BY DEF InFlight, Stashed, KeysOf, Flying
  <2>2. Flying(k)' => k \in InFlight'
    BY DEF InFlight, Stashed, KeysOf, Flying
  <2> QED
    BY <2>1, <2>2, FlightStep DEF FireSurvives, Lands
<1> QED
  BY InductiveInvariant, OneEachStep, <1>1, <1>2, PTL DEF Spec, FiresSurvive
=============================================================================
