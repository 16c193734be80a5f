------------------------- MODULE MachPortMapProofs -------------------------
(***************************************************************************)
(* Proofs about MachPortMap for any threads, ports, portsets, users and    *)
(* table size: g_mp_map pairs each port with one existing portset, and no  *)
(* portset is leaked.  With one user per port, also what a registration    *)
(* and a fired event rely on: the port is in the portset the map has for   *)
(* it, what was accepted can fire, a told reply is still queued, and no    *)
(* slot is burned.                                                         *)
(***************************************************************************)
EXTENDS MachPortMap, FiniteSets, FiniteSetTheorems, WellFoundedInduction, TLAPS

\* Every non-empty set of positive numbers has a least element, which is what
\* a scan from the first slot stops at.
LEMMA LeastExists ==
  ASSUME NEW S \in SUBSET Nat, S # {}
  PROVE  \E i \in S : \A j \in S : i <= j
<1> DEFINE T == {1..i : i \in S}
<1>1. T \subseteq FiniteSubsetsOf(Nat) /\ T # {}
  <2>1. ASSUME NEW i \in S PROVE 1..i \in FiniteSubsetsOf(Nat)
    <3>1. i \in Nat
      OBVIOUS
    <3>2. IsFiniteSet(1..i)
      BY <3>1, FS_Interval
    <3> QED
      BY <3>1, <3>2 DEF FiniteSubsetsOf
  <2> QED
    BY <2>1
<1>2. \E x \in T : \A y \in T : ~ (<<y, x>> \in StrictSubsetOrdering(Nat))
  BY <1>1, FS_StrictSubsetOrderingWellFounded, WFMin
<1>3. PICK i \in S : \A j \in S : ~ (<<1..j, 1..i>> \in StrictSubsetOrdering(Nat))
  BY <1>2
<1>4. ASSUME NEW j \in S PROVE i <= j
  <2>1. SUFFICES ASSUME j < i PROVE FALSE
    OBVIOUS
  <2>2. 1..j \subseteq 1..i /\ i \in 1..i /\ i \notin 1..j
    BY <2>1
  <2>3. <<1..j, 1..i>> \in StrictSubsetOrdering(Nat)
    BY <2>2 DEF StrictSubsetOrdering
  <2> QED
    BY <1>3, <2>3
<1> QED
  BY <1>4

\* A thread that is registering has a port, and a portset it has created and
\* not yet given away exists.
Hands == \A t \in Threads :
            /\ pc[t] \in {"create", "install", "handback", "unwrap", "submit"} =>
                   port[t] \in Ports
            /\ pc[t] \in {"install", "handback", "unwrap"} => pset[t] \in psets

IInv == TypeOK /\ MapSound /\ NoPsetLeak /\ Hands

\* The scans of g_mp_map stop at an entry they look for.
LEMMA FirstFinds == ASSUME NEW S \in SUBSET Slot, S # {} PROVE First(S) \in S
<1>1. \E i \in S : \A j \in S : i <= j
  BY LeastExists, MapConstants DEF Slot
<1> QED
  BY <1>1 DEF First

\* The initial states satisfy the inductive invariant.
LEMMA InitIInv == Init => IInv
<1> SUFFICES ASSUME Init PROVE IInv
  OBVIOUS
<1> USE MapConstants DEF Init, Empty
<1>1. TypeOK
  BY DEF TypeOK, Stage
<1>2. Used = {} /\ \A t \in Threads : Mine(t) = {}
  BY DEF Used, Mine
<1> QED
  BY <1>1, <1>2 DEF IInv, MapSound, NoPsetLeak, Hands

\* An entry in use holds a port and an existing portset.
LEMMA UsedEntry ==
  ASSUME IInv, NEW i \in Used
  PROVE  i \in Slot /\ map[i] \in Entry /\ map[i].pset \in psets
BY DEF IInv, TypeOK, MapSound, Used, Empty

\* Steps that leave the map, the portsets and the portsets in hand alone.
LEMMA QuietStep ==
  ASSUME IInv, TypeOK', Hands', UNCHANGED <<map, psets>>,
         \A t \in Threads : Mine(t)' = Mine(t)
  PROVE  IInv'
<1>1. Used' = Used
  BY DEF Used
<1>2. MapSound'
  BY <1>1 DEF IInv, MapSound
<1>3. NoPsetLeak'
  BY <1>1 DEF IInv, NoPsetLeak
<1> QED
  BY <1>2, <1>3 DEF IInv

\* mp_release_locked keeps the map sound and leaks nothing.
LEMMA ReleaseStep ==
  ASSUME IInv, NEW i \in Used, Release(i), \A t \in Threads : Mine(t)' = Mine(t)
  PROVE  /\ MapSound' /\ NoPsetLeak'
         /\ map' \in [Slot -> Entry \cup {Empty}]
         /\ psets' \subseteq Psets
         /\ member' \in [Ports -> Psets \cup {None}]
         /\ filter' \in [Psets -> {"none", "oneshot", "keep"}]
         /\ \A t \in Threads : \A s \in Mine(t) : s \in psets => s \in psets'
<1> DEFINE s == map[i].pset
<1>1. i \in Slot /\ map[i] \in Entry /\ s \in psets /\ s \in Psets
  BY UsedEntry DEF IInv, TypeOK
<1>2. /\ map' = [map EXCEPT ![i] = Empty] /\ psets' = psets \ {s}
      /\ filter' = [filter EXCEPT ![s] = "none"]
  BY DEF Release, DestroyPset
<1>3. Used' = Used \ {i} /\ \A j \in Used' : map'[j] = map[j]
  BY <1>1, <1>2 DEF Used, IInv, TypeOK, Empty
<1>4. \A j \in Used' : map[j].pset # s
  BY <1>3 DEF IInv, MapSound
<1>5. MapSound'
  BY <1>2, <1>3, <1>4 DEF IInv, MapSound
<1>6. \A t \in Threads : s \notin Mine(t)
  BY DEF IInv, NoPsetLeak
<1>7. NoPsetLeak'
  <2>1. ASSUME NEW r \in psets'
        PROVE  (\E j \in Used' : map'[j].pset = r) \/ (\E t \in Threads : r \in Mine(t)')
    <3>1. r \in psets /\ r # s
      BY <1>2
    <3> QED
      BY <1>3, <3>1 DEF IInv, NoPsetLeak
  <2>2. ASSUME NEW t \in Threads, NEW r \in Mine(t)'
        PROVE  /\ \A j \in Used' : map'[j].pset # r
               /\ \A u \in Threads \ {t} : r \notin Mine(u)'
    BY <1>3 DEF IInv, NoPsetLeak
  <2> QED
    BY <2>1, <2>2 DEF NoPsetLeak
<1>8. map' \in [Slot -> Entry \cup {Empty}]
  BY <1>1, <1>2 DEF IInv, TypeOK
<1>9. member' \in [Ports -> Psets \cup {None}]
  BY <1>1 DEF Release, DestroyPset, IInv, TypeOK, Entry
<1>10. filter' \in [Psets -> {"none", "oneshot", "keep"}]
  BY <1>1, <1>2 DEF IInv, TypeOK
<1> QED
  BY <1>2, <1>5, <1>6, <1>7, <1>8, <1>9, <1>10 DEF IInv, TypeOK

\* Steps of the shim that touch neither map nor portsets, and the callers'.
LEMMA CallerStep ==
  ASSUME IInv,
         \/ \E t \in Threads : CreateFails(t) \/ Submit(t) \/ Translate(t) \/ Drain(t)
         \/ \E t \in Threads, p \in Ports : Fire(t, p) \/ Delete(t, p) \/ Receive(t, p)
         \/ \E p \in Ports : CreatePort(p) \/ DestroyPort(p) \/ Send(p)
         \/ UNCHANGED vars
  PROVE  IInv'
<1> USE MapConstants
<1>1. ASSUME NEW t \in Threads, CreateFails(t) PROVE IInv'
  <2>1. TypeOK' /\ Hands' /\ UNCHANGED <<map, psets>>
    BY <1>1 DEF IInv, TypeOK, Hands, CreateFails, Goto, Stage, locals, kernel, owner
  <2>2. \A u \in Threads : Mine(u)' = Mine(u)
    BY <1>1 DEF IInv, TypeOK, CreateFails, Goto, Mine, locals
  <2> QED
    BY <2>1, <2>2, QuietStep
<1>2. ASSUME NEW t \in Threads, Submit(t) PROVE IInv'
  <2>1. TypeOK' /\ Hands' /\ UNCHANGED <<map, psets>>
    BY <1>2 DEF IInv, TypeOK, Hands, Submit, Goto, Stage
  <2>2. \A u \in Threads : Mine(u)' = Mine(u)
    BY <1>2 DEF IInv, TypeOK, Submit, Goto, Mine
  <2> QED
    BY <2>1, <2>2, QuietStep
<1>3. ASSUME NEW t \in Threads, Translate(t) PROVE IInv'
  <2> DEFINE known == OfPset(pset[t])
             e == IF known = {} THEN Empty ELSE map[First(known)]
  <2>1. e.port \in Ports \cup {None} /\ e.noDrain \in BOOLEAN
    <3>1. CASE known = {}
      BY <3>1 DEF Empty
    <3>2. CASE known # {}
      <4>1. known \in SUBSET Slot /\ known \subseteq Used
        BY DEF OfPset, Used
      <4>2. First(known) \in Used
        BY <3>2, <4>1, FirstFinds
      <4> QED
        BY <3>2, <4>2, UsedEntry DEF Entry
    <3> QED
      BY <3>1, <3>2
  <2>2. /\ port' = [port EXCEPT ![t] = e.port] /\ noDrain' = [noDrain EXCEPT ![t] = e.noDrain]
        /\ pc[t] = "fired" /\ pc' = [pc EXCEPT ![t] = IF e.noDrain THEN "release" ELSE "drain"]
        /\ UNCHANGED <<map, pset, other, kernel, owner>>
    BY <1>3 DEF Translate, Goto
  <2> HIDE DEF e
  <2>3. TypeOK' /\ Hands' /\ UNCHANGED <<map, psets>>
    BY <2>1, <2>2 DEF IInv, TypeOK, Hands, Stage, kernel, owner
  <2>4. \A u \in Threads : Mine(u)' = Mine(u)
    BY <2>2 DEF IInv, TypeOK, Mine
  <2> QED
    BY <2>3, <2>4, QuietStep
<1>4. ASSUME NEW t \in Threads, Drain(t) PROVE IInv'
  <2>1. TypeOK' /\ Hands' /\ UNCHANGED <<map, psets>>
    BY <1>4 DEF IInv, TypeOK, Hands, Drain, Deliver, Goto, Stage
  <2>2. \A u \in Threads : Mine(u)' = Mine(u)
    BY <1>4 DEF IInv, TypeOK, Drain, Deliver, Goto, Mine
  <2> QED
    BY <2>1, <2>2, QuietStep
<1>5. ASSUME NEW t \in Threads, NEW p \in Ports, Fire(t, p) PROVE IInv'
  <2>1. TypeOK' /\ Hands' /\ UNCHANGED <<map, psets>>
    BY <1>5 DEF IInv, TypeOK, Hands, Fire, Goto, Stage, owner
  <2>2. \A u \in Threads : Mine(u)' = Mine(u)
    BY <1>5 DEF IInv, TypeOK, Fire, Goto, Mine
  <2> QED
    BY <2>1, <2>2, QuietStep
<1>6. ASSUME NEW t \in Threads, NEW p \in Ports, Delete(t, p) \/ Receive(t, p) PROVE IInv'
  <2>1. TypeOK' /\ Hands' /\ UNCHANGED <<map, psets, pc, pset>>
    BY <1>6 DEF IInv, TypeOK, Hands, Delete, Receive, locals, kernel
  <2>2. \A u \in Threads : Mine(u)' = Mine(u)
    BY <2>1 DEF Mine
  <2> QED
    BY <2>1, <2>2, QuietStep
<1>7. ASSUME NEW p \in Ports, CreatePort(p) \/ DestroyPort(p) \/ Send(p) PROVE IInv'
  <2>1. TypeOK' /\ Hands' /\ UNCHANGED <<map, psets, pc, pset>>
    BY <1>7 DEF IInv, TypeOK, Hands, CreatePort, DestroyPort, Send, locals, owner
  <2>2. \A u \in Threads : Mine(u)' = Mine(u)
    BY <2>1 DEF Mine
  <2> QED
    BY <2>1, <2>2, QuietStep
<1>8. CASE UNCHANGED vars
  <2>1. TypeOK' /\ Hands' /\ UNCHANGED <<map, psets, pc, pset>>
    BY <1>8 DEF IInv, TypeOK, Hands, vars, locals, kernel, owner
  <2>2. \A u \in Threads : Mine(u)' = Mine(u)
    BY <2>1 DEF Mine
  <2> QED
    BY <2>1, <2>2, QuietStep
<1> QED
  BY <1>1, <1>2, <1>3, <1>4, <1>5, <1>6, <1>7, <1>8

\* mp_lookup_pset and mp_release_by_pset: a stale or a spent mapping goes.
LEMMA ReleasingStep ==
  ASSUME IInv,
         \/ \E t \in Threads, p \in Ports : Lookup(t, p)
         \/ \E t \in Threads : ReleaseFired(t)
  PROVE  IInv'
<1> USE MapConstants
<1>1. ASSUME NEW t \in Threads, NEW p \in Ports, Lookup(t, p) PROVE IInv'
  <2>1. /\ pc[t] = "idle" /\ port' = [port EXCEPT ![t] = p]
        /\ \E stage \in {"create", "submit"} : pc' = [pc EXCEPT ![t] = stage]
        /\ UNCHANGED <<other, noDrain, alive, queue, owner>>
    BY <1>1 DEF Lookup, Goto
  <2>2. \A u \in Threads \ {t} : pset'[u] = pset[u]
    BY <1>1 DEF Lookup, IInv, TypeOK
  <2>3. \A u \in Threads : Mine(u)' = Mine(u)
    BY <2>1, <2>2 DEF Mine, IInv, TypeOK
  <2>4. CASE OfPort(p) = {}
    <3>1. UNCHANGED <<map, pset, psets, member, filter>>
      BY <1>1, <2>4 DEF Lookup
    <3>2. TypeOK' /\ Hands'
      BY <2>1, <3>1 DEF IInv, TypeOK, Hands, Stage, owner
    <3> QED
      BY <2>3, <3>1, <3>2, QuietStep
  <2>5. CASE OfPort(p) # {}
    <3> DEFINE i == First(OfPort(p))
    <3>1. i \in Used
      <4>1. OfPort(p) \in SUBSET Slot /\ OfPort(p) \subseteq Used
        BY DEF OfPort, Used
      <4> QED
        BY <2>5, <4>1, FirstFinds
    <3> HIDE DEF i
    <3>2. CASE Stale(i)
      <4>1. Release(i) /\ UNCHANGED pset /\ pc' = [pc EXCEPT ![t] = "create"]
        BY <1>1, <2>5, <3>2 DEF Lookup, Goto, i
      <4>2. /\ MapSound' /\ NoPsetLeak'
            /\ map' \in [Slot -> Entry \cup {Empty}]
            /\ psets' \subseteq Psets
            /\ member' \in [Ports -> Psets \cup {None}]
            /\ filter' \in [Psets -> {"none", "oneshot", "keep"}]
            /\ \A u \in Threads : \A s \in Mine(u) : s \in psets => s \in psets'
        BY <2>3, <3>1, <4>1, ReleaseStep
      <4>3. TypeOK'
        BY <2>1, <4>1, <4>2 DEF IInv, TypeOK, Stage, owner
      <4>4. Hands'
        BY <2>1, <4>1, <4>2 DEF IInv, TypeOK, Hands, Mine
      <4> QED
        BY <4>2, <4>3, <4>4 DEF IInv
    <3>3. CASE ~Stale(i)
      <4>1. /\ pset' = [pset EXCEPT ![t] = map[i].pset] /\ UNCHANGED <<map, psets, member, filter>>
            /\ pc' = [pc EXCEPT ![t] = "submit"]
        BY <1>1, <2>5, <3>3 DEF Lookup, Goto, i
      <4>2. map[i].pset \in Psets
        BY <3>1, UsedEntry DEF Entry
      <4>3. TypeOK' /\ Hands'
        BY <2>1, <4>1, <4>2 DEF IInv, TypeOK, Hands, Stage, owner
      <4> QED
        BY <2>3, <4>1, <4>3, QuietStep
    <3> QED
      BY <3>2, <3>3
  <2> QED
    BY <2>4, <2>5
<1>2. ASSUME NEW t \in Threads, ReleaseFired(t) PROVE IInv'
  <2>1. /\ pc[t] = "release" /\ pc' = [pc EXCEPT ![t] = "idle"]
        /\ port' \in [Threads -> Ports \cup {None}] /\ pset' \in [Threads -> Psets \cup {None}]
        /\ noDrain' \in [Threads -> BOOLEAN] /\ reg' \in [Ports -> {"no", "yes", "deleted"}]
        /\ told' \subseteq Ports /\ UNCHANGED <<other, alive, queue>>
        /\ \A u \in Threads \ {t} : port'[u] = port[u] /\ pset'[u] = pset[u]
    BY <1>2 DEF ReleaseFired, Deliver, Goto, IInv, TypeOK
  <2>2. \A u \in Threads : Mine(u)' = Mine(u)
    BY <2>1 DEF Mine, IInv, TypeOK
  <2>3. CASE OfPset(pset[t]) = {}
    <3>1. UNCHANGED <<map, psets, member, filter>>
      BY <1>2, <2>3 DEF ReleaseFired
    <3>2. TypeOK' /\ Hands'
      BY <2>1, <3>1 DEF IInv, TypeOK, Hands, Stage
    <3> QED
      BY <2>2, <3>1, <3>2, QuietStep
  <2>4. CASE OfPset(pset[t]) # {}
    <3> DEFINE i == First(OfPset(pset[t]))
    <3>1. i \in Used
      <4>1. OfPset(pset[t]) \in SUBSET Slot /\ OfPset(pset[t]) \subseteq Used
        BY DEF OfPset, Used
      <4> QED
        BY <2>4, <4>1, FirstFinds
    <3> HIDE DEF i
    <3>2. Release(i)
      BY <1>2, <2>4 DEF ReleaseFired, i
    <3>3. /\ MapSound' /\ NoPsetLeak'
          /\ map' \in [Slot -> Entry \cup {Empty}]
          /\ psets' \subseteq Psets
          /\ member' \in [Ports -> Psets \cup {None}]
          /\ filter' \in [Psets -> {"none", "oneshot", "keep"}]
          /\ \A u \in Threads : \A s \in Mine(u) : s \in psets => s \in psets'
      BY <2>2, <3>1, <3>2, ReleaseStep
    <3>4. TypeOK'
      BY <2>1, <3>3 DEF IInv, TypeOK, Stage
    <3>5. Hands'
      BY <2>1, <3>3 DEF IInv, TypeOK, Hands, Mine
    <3> QED
      BY <3>3, <3>4, <3>5 DEF IInv
  <2> QED
    BY <2>3, <2>4
<1> QED
  BY <1>1, <1>2

\* Allocating a portset: it is in nobody else's hands and not in the map.
LEMMA CreateStep == ASSUME IInv, NEW t \in Threads, Create(t) PROVE IInv'
<1>1. PICK s \in Psets \ psets :
        /\ psets' = psets \cup {s}
        /\ member' = [member EXCEPT ![port[t]] = s]
        /\ pset' = [pset EXCEPT ![t] = s]
  BY DEF Create
<1>2. /\ pc[t] = "create" /\ pc' = [pc EXCEPT ![t] = "install"]
      /\ UNCHANGED <<map, port, other, noDrain, alive, queue, filter, owner>>
  BY DEF Create, Goto
<1>3. TypeOK' /\ Hands'
  BY <1>1, <1>2 DEF IInv, TypeOK, Hands, Stage, owner
<1>4. /\ Mine(t)' = {s} /\ Mine(t) = {}
      /\ \A u \in Threads \ {t} : Mine(u)' = Mine(u)
  BY <1>1, <1>2 DEF Mine, IInv, TypeOK
<1>5. Used' = Used
  BY <1>2 DEF Used
<1>6. \A u \in Threads \ {t} : s \notin Mine(u)
  BY <1>1 DEF Mine, IInv, Hands
<1>7. \A i \in Used : map[i].pset # s
  BY <1>1 DEF IInv, MapSound
<1>8. MapSound'
  BY <1>1, <1>2, <1>5 DEF IInv, MapSound
<1>9. NoPsetLeak'
  <2>1. ASSUME NEW r \in psets'
        PROVE  (\E i \in Used' : map'[i].pset = r) \/ (\E u \in Threads : r \in Mine(u)')
    <3>1. CASE r = s
      BY <1>4, <3>1
    <3>2. CASE r \in psets
      BY <1>2, <1>4, <1>5, <3>2 DEF IInv, NoPsetLeak
    <3> QED
      BY <1>1, <3>1, <3>2
  <2>2. ASSUME NEW u \in Threads, NEW r \in Mine(u)'
        PROVE  /\ \A i \in Used' : map'[i].pset # r
               /\ \A w \in Threads \ {u} : r \notin Mine(w)'
    BY <1>2, <1>4, <1>5, <1>6, <1>7 DEF IInv, NoPsetLeak
  <2> QED
    BY <2>1, <2>2 DEF NoPsetLeak
<1> QED
  BY <1>3, <1>8, <1>9 DEF IInv

\* Giving up the portset in hand: Unwrap and HandBack destroy it.
LEMMA DropStep ==
  ASSUME IInv, NEW t \in Threads, HandBack(t) \/ Unwrap(t)
  PROVE  IInv'
<1> USE MapConstants
<1> DEFINE s == pset[t]
<1>1. /\ pc[t] \in {"handback", "unwrap"} /\ pc' = [pc EXCEPT ![t] = "submit"]
      /\ psets' = psets \ {s} /\ filter' = [filter EXCEPT ![s] = "none"]
      /\ UNCHANGED <<map, port, noDrain, alive, queue, owner>>
  BY DEF HandBack, Unwrap, Goto, DestroyPset
<1>2. port[t] \in Ports /\ s \in psets /\ s \in Psets /\ Mine(t) = {s}
  BY <1>1 DEF IInv, Hands, TypeOK, Mine
<1>3. member' \in [Ports -> Psets \cup {None}]
  BY <1>2 DEF HandBack, Unwrap, DestroyPset, IInv, TypeOK
<1>4. /\ other' \in [Threads -> Psets \cup {None}] /\ pset' \in [Threads -> Psets \cup {None}]
      /\ \A u \in Threads \ {t} : pset'[u] = pset[u]
  BY DEF HandBack, Unwrap, IInv, TypeOK
<1>5. TypeOK'
  BY <1>1, <1>2, <1>3, <1>4 DEF IInv, TypeOK, Stage, owner
<1>6. Mine(t)' = {} /\ \A u \in Threads \ {t} : Mine(u)' = Mine(u)
  BY <1>1, <1>4 DEF Mine, IInv, TypeOK
<1>7. Used' = Used
  BY <1>1 DEF Used
<1>8. /\ \A i \in Used : map[i].pset # s
      /\ \A u \in Threads \ {t} : s \notin Mine(u)
  BY <1>2 DEF IInv, NoPsetLeak
<1>9. Hands'
  BY <1>1, <1>2, <1>4, <1>8 DEF IInv, Hands, TypeOK, Mine
<1>10. MapSound'
  BY <1>1, <1>7, <1>8 DEF IInv, MapSound
<1>11. NoPsetLeak'
  <2>1. ASSUME NEW r \in psets'
        PROVE  (\E i \in Used' : map'[i].pset = r) \/ (\E u \in Threads : r \in Mine(u)')
    <3>1. r \in psets /\ r # s
      BY <1>1
    <3> QED
      BY <1>1, <1>2, <1>6, <1>7, <3>1 DEF IInv, NoPsetLeak
  <2>2. ASSUME NEW u \in Threads, NEW r \in Mine(u)'
        PROVE  /\ \A i \in Used' : map'[i].pset # r
               /\ \A w \in Threads \ {u} : r \notin Mine(w)'
    BY <1>1, <1>6, <1>7 DEF IInv, NoPsetLeak
  <2> QED
    BY <2>1, <2>2 DEF NoPsetLeak
<1> QED
  BY <1>5, <1>9, <1>10, <1>11 DEF IInv

\* Putting the portset in hand into the map: the port has no other mapping, and
\* an entry that is reclaimed gives up its portset.
LEMMA InstallStep == ASSUME IInv, NEW t \in Threads, Install(t) PROVE IInv'
<1> USE MapConstants
<1> DEFINE p == port[t]
           s == pset[t]
           theirs == OfPort(p)
           free   == Slot \ Used
           stale  == {i \in Used : Stale(i)}
<1>1. /\ pc[t] = "install" /\ UNCHANGED <<port, pset, noDrain, alive, queue, owner>>
      /\ p \in Ports /\ s \in psets /\ s \in Psets /\ Mine(t) = {s}
  BY DEF Install, IInv, Hands, TypeOK, Mine
<1>2. CASE theirs # {}
  <2>1. First(theirs) \in Used
    <3>1. theirs \in SUBSET Slot /\ theirs \subseteq Used
      BY DEF OfPort, Used
    <3> QED
      BY <1>2, <3>1, FirstFinds
  <2>2. map[First(theirs)].pset \in Psets
    BY <2>1, UsedEntry DEF Entry
  <2>3. /\ other' = [other EXCEPT ![t] = map[First(theirs)].pset]
        /\ pc' = [pc EXCEPT ![t] = "handback"] /\ UNCHANGED <<map, psets, member, filter>>
    BY <1>2 DEF Install, Goto
  <2>4. TypeOK' /\ Hands' /\ \A u \in Threads : Mine(u)' = Mine(u)
    BY <1>1, <2>2, <2>3 DEF IInv, TypeOK, Hands, Stage, owner, Mine
  <2> QED
    BY <2>3, <2>4, QuietStep
<1>3. CASE theirs = {} /\ free = {} /\ stale = {}
  <2>1. pc' = [pc EXCEPT ![t] = "unwrap"] /\ UNCHANGED <<map, other, psets, member, filter>>
    BY <1>3 DEF Install, Goto
  <2>2. TypeOK' /\ Hands' /\ \A u \in Threads : Mine(u)' = Mine(u)
    BY <1>1, <2>1 DEF IInv, TypeOK, Hands, Stage, owner, Mine
  <2> QED
    BY <2>1, <2>2, QuietStep
<1>4. ASSUME NEW i \in Slot, theirs = {}, map' = [map EXCEPT ![i] = Mapping(t)],
             psets' = IF i \in Used THEN psets \ {map[i].pset} ELSE psets,
             pc' = [pc EXCEPT ![t] = "submit"], UNCHANGED other,
             member' \in [Ports -> Psets \cup {None}],
             filter' \in [Psets -> {"none", "oneshot", "keep"}]
      PROVE  IInv'
  <2>1. Mapping(t) \in Entry /\ Mapping(t).port = p /\ Mapping(t).pset = s
    BY <1>1 DEF Mapping, Entry
  <2> HIDE DEF p, s
  <2>2. TypeOK'
    BY <1>1, <1>4, <2>1 DEF IInv, TypeOK, Stage, owner
  <2>3. Mine(t)' = {} /\ \A u \in Threads \ {t} : Mine(u)' = Mine(u)
    BY <1>1, <1>4 DEF Mine, IInv, TypeOK
  <2>4. /\ Used' = Used \cup {i}
        /\ map'[i] = Mapping(t) /\ \A j \in Slot \ {i} : map'[j] = map[j]
    BY <1>1, <1>4, <2>1 DEF Used, IInv, TypeOK
  <2>5. /\ \A j \in Used : map[j].pset # s /\ map[j].port # p
        /\ \A u \in Threads \ {t} : s \notin Mine(u)
    BY <1>1, <1>4 DEF IInv, NoPsetLeak, OfPort
  <2>6. \A j \in Used \ {i} : /\ map[j].pset \in psets'
                              /\ i \in Used => map[j].pset # map[i].pset
    BY <1>4 DEF IInv, MapSound
  <2>7. Used \subseteq Slot /\ s \in psets'
    BY <1>1, <1>4, <2>5 DEF Used
  <2>8. MapSound'
    <3>1. ASSUME NEW j \in Used', NEW h \in Used',
                 map'[j].port = map'[h].port \/ map'[j].pset = map'[h].pset
          PROVE  j = h
      <4>1. CASE j # i /\ h # i
        BY <2>4, <2>7, <3>1, <4>1 DEF IInv, MapSound
      <4>2. CASE j = i /\ h # i
        BY <2>1, <2>4, <2>5, <2>7, <3>1, <4>2
      <4>3. CASE j # i /\ h = i
        BY <2>1, <2>4, <2>5, <2>7, <3>1, <4>3
      <4> QED
        BY <4>1, <4>2, <4>3
    <3>2. ASSUME NEW j \in Used' PROVE map'[j].pset \in psets'
      BY <2>1, <2>4, <2>6, <2>7
    <3> QED
      BY <3>1, <3>2 DEF MapSound
  <2>9. Hands'
    <3>1. ASSUME NEW u \in Threads, u # t, pc[u] \in {"install", "handback", "unwrap"}
          PROVE  pset[u] \in psets'
      <4>1. pset[u] \in Mine(u) /\ pset[u] \in psets
        BY <3>1 DEF Mine, IInv, Hands
      <4>2. i \in Used => map[i].pset # pset[u]
        BY <4>1 DEF IInv, NoPsetLeak
      <4> QED
        BY <1>4, <4>1, <4>2
    <3> QED
      BY <1>1, <1>4, <3>1 DEF IInv, Hands, TypeOK, p
  <2>10. NoPsetLeak'
    <3>1. ASSUME NEW r \in psets'
          PROVE  (\E j \in Used' : map'[j].pset = r) \/ (\E u \in Threads : r \in Mine(u)')
      <4>1. CASE r = s
        BY <2>1, <2>4, <4>1
      <4>2. CASE r # s
        <5>1. r \in psets /\ (i \in Used => r # map[i].pset)
          BY <1>4
        <5>2. (\E j \in Used \ {i} : map[j].pset = r) \/ (\E u \in Threads \ {t} : r \in Mine(u))
          BY <1>1, <4>2, <5>1 DEF IInv, NoPsetLeak
        <5> QED
          BY <2>3, <2>4, <2>7, <5>2
      <4> QED
        BY <4>1, <4>2
    <3>2. ASSUME NEW u \in Threads, NEW r \in Mine(u)'
          PROVE  /\ \A j \in Used' : map'[j].pset # r
                 /\ \A w \in Threads \ {u} : r \notin Mine(w)'
      <4>1. u # t /\ r \in Mine(u) /\ r # s
        BY <2>3, <2>5
      <4> QED
        BY <2>1, <2>3, <2>4, <2>7, <4>1 DEF IInv, NoPsetLeak
    <3> QED
      BY <3>1, <3>2 DEF NoPsetLeak
  <2> QED
    BY <2>2, <2>8, <2>9, <2>10 DEF IInv
<1>5. CASE theirs = {} /\ free # {}
  <2>1. First(free) \in free
    BY <1>5, FirstFinds
  <2>2. /\ map' = [map EXCEPT ![First(free)] = Mapping(t)]
        /\ pc' = [pc EXCEPT ![t] = "submit"] /\ UNCHANGED <<other, psets, member, filter>>
    BY <1>5 DEF Install, Goto
  <2> QED
    BY <1>4, <1>5, <2>1, <2>2 DEF IInv, TypeOK
<1>6. CASE theirs = {} /\ free = {} /\ stale # {}
  <2> DEFINE i == First(stale)
  <2>1. i \in Slot /\ i \in Used
    BY <1>6, FirstFinds DEF Used
  <2>2. /\ DestroyPset(map[i].pset, [member EXCEPT ![map[i].port] = None])
        /\ map' = [map EXCEPT ![i] = Mapping(t)]
        /\ pc' = [pc EXCEPT ![t] = "submit"] /\ UNCHANGED other
    BY <1>6 DEF Install, Goto
  <2> HIDE DEF i
  <2>3. map[i].pset \in Psets
    BY <2>1, UsedEntry DEF Entry
  <2>4. /\ psets' = psets \ {map[i].pset}
        /\ member' \in [Ports -> Psets \cup {None}]
        /\ filter' \in [Psets -> {"none", "oneshot", "keep"}]
    BY <2>2, <2>3 DEF DestroyPset, IInv, TypeOK
  <2> QED
    BY <1>4, <1>6, <2>1, <2>2, <2>4
<1> QED
  BY <1>2, <1>3, <1>5, <1>6

-----------------------------------------------------------------------------
\* The inductive invariant holds throughout.
LEMMA InductiveInvariant == Spec => []IInv
<1>1. IInv /\ [Next]_vars => IInv'
  BY CallerStep, ReleasingStep, CreateStep, DropStep, InstallStep DEF Next, Register, Return
<1> QED
  BY InitIInv, <1>1, PTL DEF Spec

\* Type correctness of the port translation.
THEOREM TypeCorrect == Spec => []TypeOK
<1>1. IInv => TypeOK
  BY DEF IInv
<1> QED
  BY InductiveInvariant, <1>1, PTL

\* g_mp_map never holds a port or a portset twice, nor a portset that is gone,
\* although every registration leaves and re-enters g_mp_mu.
THEOREM MapIsSound == Spec => []MapSound
<1>1. IInv => MapSound
  BY DEF IInv
<1> QED
  BY InductiveInvariant, <1>1, PTL

\* Every portset is in the map or about to be installed or destroyed by the one
\* thread that allocated it.
THEOREM NoPortsetLeaked == Spec => []NoPsetLeak
<1>1. IInv => NoPsetLeak
  BY DEF IInv
<1> QED
  BY InductiveInvariant, <1>1, PTL

-----------------------------------------------------------------------------
(***************************************************************************)
(* One user per port, as a loop has for its wakeup port and a caller for   *)
(* its reply port.  Then nobody moves a port while its user is in the shim,*)
(* and what a mapping says of its port can be trusted.                     *)
(***************************************************************************)
OneUser == \A t, u \in Threads : t # u => User[t] \cap User[u] = {}

Registering(t) == pc[t] \in {"create", "install", "unwrap", "submit"}
Returning(t) == pc[t] \in {"fired", "drain", "release"}

\* The port is in the portset that the map has for it.
Mapped(p) == \E i \in Used : map[i].port = p /\ map[i].pset = member[p]

\* A registration's port is unmapped until its portset is installed, and then
\* mapped to the portset that is registered.
Registers ==
    \A t \in Threads :
        /\ pc[t] # "handback"
        /\ pc[t] \in {"idle", "create"} => pset[t] = None
        /\ Registering(t) => port[t] \in User[t] /\ port[t] \in alive
        /\ pc[t] \in {"create", "install", "unwrap"} => OfPort(port[t]) = {}
        /\ pc[t] \in {"install", "unwrap"} => member[port[t]] = pset[t]
        /\ pc[t] = "submit" /\ pset[t] = None => OfPort(port[t]) = {}
        /\ pc[t] = "submit" /\ pset[t] # None =>
               Mapped(port[t]) /\ member[port[t]] = pset[t]

\* The message a portset fired for is on its port until it is received.
FiredFor(t, p) ==
    /\ p \in User[t] /\ p \in alive
    /\ Mapped(p) /\ member[p] = pset[t] /\ queue[p] = 1 /\ reg[p] # "no"
    /\ pc[t] = "drain" => port[t] = p /\ Kind[p] = "wakeup"
    /\ pc[t] = "release" => port[t] = p /\ Kind[p] = "reply"
Returns == \A t \in Threads : Returning(t) => \E p \in Ports : FiredFor(t, p)

\* A port in a portset is mapped, or its user is about to install it.
Members ==
    \A p \in Ports :
        /\ member[p] # None =>
               \/ Mapped(p)
               \/ \E t \in Threads : pc[t] \in {"install", "unwrap"} /\ port[t] = p
        /\ p \notin alive => member[p] = None /\ reg[p] = "no" /\ p \notin told
        /\ Mapped(p) => \/ reg[p] # "no"
                        \/ \E t \in Threads : pc[t] = "submit" /\ port[t] = p

Modes == \A i \in Used : map[i].noDrain = (Kind[map[i].port] = "reply")

\* What is registered is mapped and has its filter, unless that has just fired.
Registered ==
    \A p \in Ports :
        reg[p] # "no" =>
            /\ Mapped(p)
            /\ Kind[p] = "wakeup" => filter[member[p]] = "keep"
            /\ filter[member[p]] = "none" =>
                   \E t \in Threads : Returning(t) /\ pset[t] = member[p]

Replies == \A p \in told : queue[p] = 1 /\ Kind[p] = "reply"

UserInv == /\ IInv /\ Registers /\ Returns /\ Members /\ Modes
           /\ Registered /\ Replies

\* The initial states satisfy it.
LEMMA InitUser == Init => UserInv
<1> SUFFICES ASSUME Init PROVE UserInv
  OBVIOUS
<1>1. Used = {}
  BY DEF Init, Used, Empty
<1>2. Registers /\ Returns
  BY DEF Init, Registers, Returns, Registering, Returning
<1>3. Members /\ Modes /\ Registered /\ Replies
  BY <1>1 DEF Init, Members, Modes, Registered, Replies, Mapped
<1> QED
  BY <1>2, <1>3, InitIInv DEF UserInv

\* A mapped port is a member of its portset, which is nobody's new one, and no
\* other port is in it.
LEMMA MappedAlone ==
  ASSUME UserInv, NEW p \in Ports, Mapped(p)
  PROVE  /\ member[p] \in psets /\ member[p] # None /\ p \in alive
         /\ \A q \in Ports \ {p} : member[q] # member[p]
<1>1. PICK i \in Used : map[i].port = p /\ map[i].pset = member[p]
  BY DEF Mapped
<1>2. member[p] \in psets /\ member[p] # None
  BY <1>1, MapConstants DEF UserInv, IInv, MapSound, TypeOK
<1>3. p \in alive
  BY <1>2 DEF UserInv, Members
<1>4. ASSUME NEW q \in Ports \ {p}, member[q] = member[p] PROVE FALSE
  <2>1. CASE Mapped(q)
    <3>1. PICK j \in Used : map[j].port = q /\ map[j].pset = member[p]
      BY <1>4, <2>1 DEF Mapped
    <3> QED
      BY <1>1, <3>1 DEF UserInv, IInv, MapSound
  <2>2. ASSUME NEW t \in Threads, pc[t] \in {"install", "unwrap"}, port[t] = q PROVE FALSE
    <3>1. pset[t] = member[p]
      BY <1>4, <2>2 DEF UserInv, Registers
    <3>2. member[p] \in Mine(t)
      BY <2>2, <3>1 DEF Mine
    <3> QED
      BY <1>1, <3>2 DEF UserInv, IInv, NoPsetLeak
  <2> QED
    BY <1>2, <1>4, <2>1, <2>2 DEF UserInv, Members
<1> QED
  BY <1>2, <1>3, <1>4

\* Steps that leave the map and the members alone leave what is mapped alone.
LEMMA SameMap ==
  ASSUME UNCHANGED <<map, member>>
  PROVE  /\ Used' = Used
         /\ \A p \in Ports : Mapped(p)' = Mapped(p)
         /\ \A p : OfPort(p)' = OfPort(p)
<1>1. Used' = Used
  BY DEF Used
<1> QED
  BY <1>1 DEF Mapped, OfPort

\* The thread that uses a port is alone in being about it.
LEMMA Sole ==
  ASSUME UserInv, OneUser, NEW t \in Threads, NEW p \in Ports, p \in User[t],
         NEW u \in Threads, u # t
  PROVE  /\ Registering(u) => port[u] # p
         /\ \A q \in Ports : FiredFor(u, q) => q # p
BY DEF UserInv, Registers, OneUser, FiredFor

\* A registration that goes on without a portset, and one the kernel takes.
LEMMA SubmitUser ==
  ASSUME UserInv, OneUser, NEW t \in Threads, CreateFails(t) \/ Submit(t), IInv'
  PROVE  UserInv'
<1> USE MapConstants
<1>1. CASE CreateFails(t)
  <2>1. /\ pc[t] = "create" /\ pc' = [pc EXCEPT ![t] = "submit"]
        /\ UNCHANGED <<map, locals, kernel, owner>>
    BY <1>1 DEF CreateFails, Goto
  <2>2. /\ Used' = Used /\ \A p \in Ports : Mapped(p)' = Mapped(p)
        /\ \A p : OfPort(p)' = OfPort(p)
    BY <2>1, SameMap DEF kernel
  <2>3. pc \in [Threads -> Stage]
    BY DEF UserInv, IInv, TypeOK
  <2>4. Registers'
    BY <2>1, <2>2, <2>3 DEF UserInv, Registers, Registering, locals, kernel, owner, IInv, Hands
  <2>5. Returns'
    BY <2>1, <2>2, <2>3 DEF UserInv, Returns, Returning, FiredFor, locals, kernel, owner
  <2>6. Members'
    BY <2>1, <2>2, <2>3 DEF UserInv, Members, locals, kernel, owner
  <2>7. Registered'
    BY <2>1, <2>2, <2>3 DEF UserInv, Registered, Returning, locals, kernel, owner
  <2> QED
    BY <2>1, <2>2, <2>4, <2>5, <2>6, <2>7
    DEF UserInv, Modes, Replies, kernel, owner
<1>2. CASE Submit(t)
  <2> DEFINE p == port[t]
             s == pset[t]
  <2>1. /\ pc[t] = "submit" /\ pc' = [pc EXCEPT ![t] = "idle"]
        /\ port' = [port EXCEPT ![t] = None] /\ pset' = [pset EXCEPT ![t] = None]
        /\ UNCHANGED <<map, other, noDrain, alive, psets, member, queue, told>>
    BY <1>2 DEF Submit, Goto
  <2>2. /\ Used' = Used /\ \A q \in Ports : Mapped(q)' = Mapped(q)
        /\ \A q : OfPort(q)' = OfPort(q)
    BY <2>1, SameMap
  <2>3. /\ pc \in [Threads -> Stage] /\ port \in [Threads -> Ports \cup {None}]
        /\ pset \in [Threads -> Psets \cup {None}] /\ psets \subseteq Psets
        /\ filter \in [Psets -> {"none", "oneshot", "keep"}]
        /\ reg \in [Ports -> {"no", "yes", "deleted"}] /\ member \in [Ports -> Psets \cup {None}]
    BY DEF UserInv, IInv, TypeOK
  <2>4. p \in Ports /\ p \in User[t] /\ p \in alive
    BY <2>1 DEF UserInv, IInv, Hands, Registers, Registering
  <2>5. \A u \in Threads \ {t} : (Registering(u) => port[u] # p) /\ \A q \in Ports : FiredFor(u, q) => q # p
    BY <2>4, Sole
  <2>6. \/ /\ s = None /\ OfPort(p) = {} /\ UNCHANGED <<filter, reg>>
        \/ /\ s \in psets /\ s # None /\ Mapped(p) /\ member[p] = s
           /\ filter' = [filter EXCEPT ![s] = IF Kind[p] = "reply" THEN "oneshot" ELSE "keep"]
           /\ reg' = [reg EXCEPT ![p] = "yes"]
    <3>1. CASE s = None
      BY <1>2, <2>1, <2>3, <3>1 DEF Submit, UserInv, Registers
    <3>2. CASE s # None
      <4>1. Mapped(p) /\ member[p] = s
        BY <2>1, <3>2 DEF UserInv, Registers
      <4>2. s \in psets
        BY <2>4, <4>1, MappedAlone
      <4> QED
        BY <1>2, <3>2, <4>1, <4>2 DEF Submit
    <3> QED
      BY <3>1, <3>2
  <2> HIDE DEF p, s
  <2>7. Registers'
    BY <2>1, <2>2, <2>3, <2>4 DEF UserInv, Registers, Registering, p
  <2>8. Returns'
    <3>1. SUFFICES ASSUME NEW u \in Threads, Returning(u)' PROVE \E q \in Ports : FiredFor(u, q)'
      BY DEF Returns
    <3>2. u # t /\ Returning(u)
      BY <2>1, <2>3, <3>1 DEF Returning
    <3>3. PICK q \in Ports : FiredFor(u, q)
      BY <3>2 DEF UserInv, Returns
    <3> QED
      BY <2>1, <2>2, <2>3, <2>4, <2>6, <3>2, <3>3 DEF FiredFor, Returning
  <2>9. Members'
    <3>1. ASSUME NEW q \in Ports, Mapped(q)'
          PROVE  reg'[q] # "no" \/ \E u \in Threads : pc'[u] = "submit" /\ port'[u] = q
      <4>1. CASE q = p
        <5>1. ~ (s = None /\ OfPort(p) = {})
          BY <2>2, <3>1, <4>1 DEF Mapped, OfPort
        <5> QED
          BY <2>3, <2>4, <2>6, <4>1, <5>1
      <4>2. CASE q # p
        BY <2>1, <2>2, <2>3, <2>4, <2>6, <3>1, <4>2 DEF UserInv, Members, p
      <4> QED
        BY <4>1, <4>2
    <3> QED
      BY <2>1, <2>2, <2>3, <2>4, <2>6, <3>1 DEF UserInv, Members
  <2>10. Registered'
    <3>1. SUFFICES ASSUME NEW q \in Ports, reg'[q] # "no"
          PROVE  /\ Mapped(q) /\ (Kind[q] = "wakeup" => filter'[member[q]] = "keep")
                 /\ filter'[member[q]] = "none" =>
                        \E u \in Threads : Returning(u)' /\ pset'[u] = member[q]
      BY <2>1, <2>2 DEF Registered
    <3>2. \A u \in Threads : Returning(u) => Returning(u)' /\ u # t
      BY <2>1, <2>3 DEF Returning
    <3>3. CASE q = p
      BY <2>2, <2>3, <2>4, <2>6, <3>1, <3>2, <3>3 DEF UserInv, Registered, Mapped, OfPort
    <3>4. CASE q # p
      <4>1. reg[q] # "no" /\ Mapped(q)
        BY <2>3, <2>4, <2>6, <3>1, <3>4 DEF UserInv, Registered
      <4>2. filter'[member[q]] = filter[member[q]]
        BY <2>3, <2>4, <2>6, <3>4, <4>1, MappedAlone
      <4> QED
        BY <2>1, <2>3, <3>2, <4>1, <4>2 DEF UserInv, Registered
    <3> QED
      BY <3>3, <3>4
  <2> QED
    BY <2>1, <2>2, <2>7, <2>8, <2>9, <2>10 DEF UserInv, Modes, Replies
<1> QED
  BY <1>1, <1>2

\* A portset fires, and is translated back into the port it was made for.
LEMMA FireUser ==
  ASSUME UserInv, OneUser, NEW t \in Threads, NEW p \in Ports, Fire(t, p), IInv'
  PROVE  UserInv'
<1> USE MapConstants
<1> DEFINE s == member[p]
<1>1. /\ pc[t] = "idle" /\ pc' = [pc EXCEPT ![t] = "fired"] /\ pset' = [pset EXCEPT ![t] = s]
      /\ p \in User[t] /\ p \in alive /\ s # None /\ queue[p] = 1 /\ filter[s] # "none"
      /\ filter' = [filter EXCEPT ![s] = IF @ = "oneshot" THEN "none" ELSE @]
      /\ UNCHANGED <<map, port, other, noDrain, alive, psets, member, queue, owner>>
  BY DEF Fire, Goto
<1>2. /\ Used' = Used /\ \A q \in Ports : Mapped(q)' = Mapped(q)
      /\ \A q : OfPort(q)' = OfPort(q)
  BY <1>1, SameMap
<1>3. /\ pc \in [Threads -> Stage] /\ pset \in [Threads -> Psets \cup {None}]
      /\ filter \in [Psets -> {"none", "oneshot", "keep"}] /\ s \in Psets
  BY <1>1 DEF UserInv, IInv, TypeOK
<1> HIDE DEF s
<1>4. \A u \in Threads : Registering(u) => u # t /\ port[u] # p
  BY <1>1, Sole DEF Registering
<1>5. Mapped(p) /\ reg[p] # "no"
  BY <1>1, <1>4 DEF UserInv, Members, Registering, s
<1>6. Registers'
  BY <1>1, <1>2, <1>3 DEF UserInv, Registers, Registering, owner
<1>7. Returns'
  <2>1. SUFFICES ASSUME NEW u \in Threads, Returning(u)' PROVE \E q \in Ports : FiredFor(u, q)'
    BY DEF Returns
  <2>2. CASE u = t
    BY <1>1, <1>2, <1>3, <1>5, <2>2 DEF FiredFor, owner, s
  <2>3. CASE u # t
    <3>1. Returning(u)
      BY <1>1, <1>3, <2>1, <2>3 DEF Returning
    <3>2. PICK q \in Ports : FiredFor(u, q)
      BY <3>1 DEF UserInv, Returns
    <3> QED
      BY <1>1, <1>2, <1>3, <2>3, <3>2 DEF FiredFor, owner
  <2> QED
    BY <2>2, <2>3
<1>8. Members'
  BY <1>1, <1>2, <1>3 DEF UserInv, Members, owner
<1>9. Registered'
  <2>1. SUFFICES ASSUME NEW q \in Ports, reg[q] # "no"
        PROVE  /\ Mapped(q) /\ (Kind[q] = "wakeup" => filter'[member[q]] = "keep")
               /\ filter'[member[q]] = "none" =>
                      \E u \in Threads : Returning(u)' /\ pset'[u] = member[q]
    BY <1>1, <1>2 DEF Registered, owner
  <2>2. \A u \in Threads : Returning(u) => Returning(u)' /\ pset'[u] = pset[u]
    BY <1>1, <1>3 DEF Returning
  <2>3. Returning(t)' /\ pset'[t] = s
    BY <1>1, <1>3 DEF Returning
  <2>4. CASE q = p
    BY <1>1, <1>3, <1>5, <2>1, <2>3, <2>4 DEF UserInv, Registered, s
  <2>5. CASE q # p
    <3>1. Mapped(q) /\ member[q] # s
      BY <1>5, <2>1, <2>5, MappedAlone DEF UserInv, Registered, s
    <3> QED
      BY <1>1, <1>3, <2>1, <2>2, <3>1 DEF UserInv, Registered
  <2> QED
    BY <2>4, <2>5
<1> QED
  BY <1>1, <1>2, <1>6, <1>7, <1>8, <1>9 DEF UserInv, Modes, Replies, owner

\* The entry of a portset that fired is the fired port's.
LEMMA FiredEntry ==
  ASSUME UserInv, NEW t \in Threads, NEW p \in Ports, FiredFor(t, p)
  PROVE  /\ OfPset(pset[t]) # {}
         /\ LET i == First(OfPset(pset[t]))
            IN  /\ i \in Used /\ map[i].port = p /\ map[i].pset = pset[t]
                /\ map[i].noDrain = (Kind[p] = "reply")
                /\ OfPort(p) = {i}
<1>1. PICK j \in Used : map[j].port = p /\ map[j].pset = pset[t]
  BY DEF FiredFor, Mapped
<1>2. OfPset(pset[t]) = {j} /\ OfPort(p) = {j}
  BY <1>1 DEF UserInv, IInv, MapSound, OfPset, OfPort
<1>3. j \in Slot /\ {j} \in SUBSET Slot
  BY DEF Used
<1>4. First({j}) = j
  BY <1>3, FirstFinds
<1> QED
  BY <1>1, <1>2, <1>4 DEF UserInv, Modes

LEMMA TranslateUser ==
  ASSUME UserInv, OneUser, NEW t \in Threads, Translate(t), IInv'
  PROVE  UserInv'
<1> USE MapConstants
<1>1. PICK p \in Ports : FiredFor(t, p)
  BY DEF Translate, UserInv, Returns, Returning
<1>2. /\ pc[t] = "fired" /\ port' = [port EXCEPT ![t] = p]
      /\ pc' = [pc EXCEPT ![t] = IF Kind[p] = "reply" THEN "release" ELSE "drain"]
      /\ UNCHANGED <<map, pset, other, kernel, owner>>
  BY <1>1, FiredEntry DEF Translate, Goto
<1>3. /\ Used' = Used /\ \A q \in Ports : Mapped(q)' = Mapped(q)
      /\ \A q : OfPort(q)' = OfPort(q)
  BY <1>2, SameMap DEF kernel
<1>4. pc \in [Threads -> Stage] /\ port \in [Threads -> Ports \cup {None}]
  BY DEF UserInv, IInv, TypeOK
<1>5. Registers'
  BY <1>2, <1>3, <1>4 DEF UserInv, Registers, Registering, kernel
<1>6. Returns'
  <2>1. SUFFICES ASSUME NEW u \in Threads, Returning(u)' PROVE \E q \in Ports : FiredFor(u, q)'
    BY DEF Returns
  <2>2. CASE u = t
    <3>1. Kind[p] \in {"wakeup", "reply"}
      OBVIOUS
    <3> QED
      BY <1>1, <1>2, <1>3, <1>4, <2>2, <3>1 DEF FiredFor, kernel, owner
  <2>3. CASE u # t
    <3>1. Returning(u)
      BY <1>2, <1>4, <2>1, <2>3 DEF Returning
    <3>2. PICK q \in Ports : FiredFor(u, q)
      BY <3>1 DEF UserInv, Returns
    <3> QED
      BY <1>2, <1>3, <1>4, <2>3, <3>2 DEF FiredFor, kernel, owner
  <2> QED
    BY <2>2, <2>3
<1>7. Members'
  BY <1>2, <1>3, <1>4 DEF UserInv, Members, kernel, owner
<1>8. Registered'
  BY <1>2, <1>3, <1>4 DEF UserInv, Registered, Returning, kernel, owner
<1> QED
  BY <1>2, <1>3, <1>5, <1>6, <1>7, <1>8 DEF UserInv, Modes, Replies, kernel, owner

\* A wakeup is received: nothing is on any other port of the portset.
LEMMA DrainUser ==
  ASSUME UserInv, OneUser, NEW t \in Threads, Drain(t), IInv'
  PROVE  UserInv'
<1> USE MapConstants
<1>1. PICK p \in Ports : FiredFor(t, p)
  BY DEF Drain, UserInv, Returns, Returning
<1>2. /\ pc[t] = "drain" /\ pc' = [pc EXCEPT ![t] = "idle"] /\ Kind[p] = "wakeup" /\ port[t] = p
      /\ p \in User[t] /\ p \in alive /\ Mapped(p) /\ member[p] = pset[t]
      /\ port' = [port EXCEPT ![t] = None] /\ pset' = [pset EXCEPT ![t] = None]
      /\ queue' = [q \in Ports |-> IF member[q] = pset[t] THEN 0 ELSE queue[q]]
      /\ UNCHANGED <<map, other, alive, psets, member, filter, reg, told>>
  BY <1>1 DEF Drain, Deliver, Goto, FiredFor
<1>3. \A q \in Ports \ {p} : queue'[q] = queue[q]
  BY <1>2, MappedAlone
<1>4. /\ Used' = Used /\ \A q \in Ports : Mapped(q)' = Mapped(q)
      /\ \A q : OfPort(q)' = OfPort(q)
  BY <1>2, SameMap
<1>5. /\ pc \in [Threads -> Stage] /\ port \in [Threads -> Ports \cup {None}]
      /\ pset \in [Threads -> Psets \cup {None}] /\ member \in [Ports -> Psets \cup {None}]
  BY DEF UserInv, IInv, TypeOK
<1>6. \A u \in Threads \ {t} : \A q \in Ports : FiredFor(u, q) => q # p
  BY <1>2, Sole
<1>7. Registers'
  BY <1>2, <1>4, <1>5 DEF UserInv, Registers, Registering
<1>8. Returns'
  <2>1. SUFFICES ASSUME NEW u \in Threads, Returning(u)' PROVE \E q \in Ports : FiredFor(u, q)'
    BY DEF Returns
  <2>2. u # t /\ Returning(u)
    BY <1>2, <1>5, <2>1 DEF Returning
  <2>3. PICK q \in Ports : FiredFor(u, q)
    BY <2>2 DEF UserInv, Returns
  <2> QED
    BY <1>2, <1>3, <1>4, <1>5, <1>6, <2>2, <2>3 DEF FiredFor
<1>9. Members'
  BY <1>2, <1>4, <1>5 DEF UserInv, Members
<1>10. Registered'
  <2>1. SUFFICES ASSUME NEW q \in Ports, reg[q] # "no", filter[member[q]] = "none"
        PROVE  \E u \in Threads : Returning(u)' /\ pset'[u] = member[q]
    BY <1>2, <1>4 DEF Registered, UserInv
  <2>2. Mapped(q) /\ Kind[q] # "wakeup"
    BY <2>1 DEF UserInv, Registered
  <2>3. member[q] # pset[t]
    BY <1>2, <2>2, MappedAlone
  <2>4. PICK u \in Threads : Returning(u) /\ pset[u] = member[q]
    BY <2>1 DEF UserInv, Registered
  <2> QED
    BY <1>2, <1>5, <2>3, <2>4 DEF Returning
<1>11. Replies'
  BY <1>2, <1>3 DEF UserInv, Replies, IInv, TypeOK
<1> QED
  BY <1>2, <1>4, <1>7, <1>8, <1>9, <1>10, <1>11 DEF UserInv, Modes

\* What the owners of ports do, and a send.
LEMMA OwnerUser ==
  ASSUME UserInv, OneUser, IInv', UNCHANGED <<map, pc, locals, psets, filter>>,
         \/ \E t \in Threads, p \in Ports : Delete(t, p) \/ Receive(t, p)
         \/ \E p \in Ports : CreatePort(p) \/ DestroyPort(p) \/ Send(p)
  PROVE  UserInv'
<1> USE MapConstants
<1>1. Used' = Used /\ \A p : OfPort(p)' = OfPort(p)
  BY DEF Used, OfPort
<1>2. /\ queue \in [Ports -> 0..1] /\ reg \in [Ports -> {"no", "yes", "deleted"}]
      /\ member \in [Ports -> Psets \cup {None}]
  BY DEF UserInv, IInv, TypeOK
<1>3. ASSUME UNCHANGED <<member, alive>>,
             \A p \in Ports : \/ queue'[p] = queue[p]
                              \/ queue'[p] = 1
                              \/ /\ p \notin told'
                                 /\ \A t \in Threads : Returning(t) => ~ FiredFor(t, p),
             \A p \in Ports : reg'[p] = reg[p] \/ (reg[p] = "yes" /\ reg'[p] = "deleted"),
             told' \subseteq told
      PROVE  UserInv'
  <2>1. \A p \in Ports : Mapped(p)' = Mapped(p)
    BY <1>3, SameMap
  <2>2. Registers'
    BY <1>1, <1>3, <2>1 DEF UserInv, Registers, Registering, locals
  <2>3. Returns'
    <3>1. SUFFICES ASSUME NEW t \in Threads, Returning(t) PROVE \E p \in Ports : FiredFor(t, p)'
      BY DEF Returns, Returning
    <3>2. PICK p \in Ports : FiredFor(t, p)
      BY <3>1 DEF UserInv, Returns
    <3> QED
      BY <1>3, <2>1, <3>1, <3>2 DEF FiredFor, locals
  <2>4. Members'
    BY <1>3, <2>1 DEF UserInv, Members, locals
  <2>5. Registered'
    BY <1>3, <2>1 DEF UserInv, Registered, Returning, locals
  <2>6. Replies'
    BY <1>3 DEF UserInv, Replies, IInv, TypeOK
  <2> QED
    BY <1>1, <2>2, <2>3, <2>4, <2>5, <2>6 DEF UserInv, Modes
<1>4. ASSUME NEW t \in Threads, NEW p \in Ports, Delete(t, p) PROVE UserInv'
  BY <1>2, <1>3, <1>4 DEF Delete, kernel
<1>5. ASSUME NEW t \in Threads, NEW p \in Ports, Receive(t, p) PROVE UserInv'
  <2>1. \A u \in Threads : Returning(u) => ~ FiredFor(u, p)
    BY <1>5 DEF Receive, FiredFor, OneUser, Returning
  <2> QED
    BY <1>2, <1>3, <1>5, <2>1 DEF Receive
<1>6. ASSUME NEW p \in Ports, Send(p) PROVE UserInv'
  BY <1>2, <1>3, <1>6 DEF Send, owner
<1>7. ASSUME NEW p \in Ports, CreatePort(p) PROVE UserInv'
  <2>1. alive' = alive \cup {p} /\ UNCHANGED <<member, queue, owner>>
    BY <1>7 DEF CreatePort
  <2>2. \A q \in Ports : Mapped(q)' = Mapped(q)
    BY <2>1, SameMap
  <2>3. Registers'
    BY <1>1, <2>1, <2>2 DEF UserInv, Registers, Registering, locals
  <2>4. Returns'
    <3>1. SUFFICES ASSUME NEW t \in Threads, Returning(t) PROVE \E q \in Ports : FiredFor(t, q)'
      BY DEF Returns, Returning
    <3>2. PICK q \in Ports : FiredFor(t, q)
      BY <3>1 DEF UserInv, Returns
    <3> QED
      BY <2>1, <2>2, <3>2 DEF FiredFor, locals, owner
  <2>5. Members'
    BY <2>1, <2>2 DEF UserInv, Members, locals, owner
  <2>6. Registered'
    BY <2>1, <2>2 DEF UserInv, Registered, Returning, locals, owner
  <2> QED
    BY <1>1, <2>1, <2>3, <2>4, <2>5, <2>6 DEF UserInv, Modes, Replies, owner
<1>8. ASSUME NEW p \in Ports, DestroyPort(p) PROVE UserInv'
  <2>1. /\ p \in alive /\ alive' = alive \ {p} /\ member' = [member EXCEPT ![p] = None]
        /\ queue' = [queue EXCEPT ![p] = 0] /\ reg' = [reg EXCEPT ![p] = "no"]
        /\ told' = told \ {p}
        /\ \A t \in Threads : p \in User[t] => pc[t] = "idle"
    BY <1>8 DEF DestroyPort
  <2>2. ~ Mapped(p)' /\ \A q \in Ports \ {p} : Mapped(q)' = Mapped(q)
    <3>1. \A i \in Used : map[i].pset \in Psets
      BY UsedEntry DEF UserInv, Entry
    <3> QED
      BY <1>1, <1>2, <2>1, <3>1 DEF Mapped
  <2>3. /\ \A t \in Threads : Registering(t) => port[t] # p
        /\ \A t \in Threads : Returning(t) => ~ FiredFor(t, p)
    BY <2>1 DEF UserInv, Registers, Registering, Returning, FiredFor
  <2>4. Registers'
    BY <1>1, <1>2, <2>1, <2>2, <2>3 DEF UserInv, IInv, Hands, Registers, Registering, locals
  <2>5. Returns'
    <3>1. SUFFICES ASSUME NEW t \in Threads, Returning(t) PROVE \E q \in Ports : FiredFor(t, q)'
      BY DEF Returns, Returning
    <3>2. PICK q \in Ports : FiredFor(t, q)
      BY <3>1 DEF UserInv, Returns
    <3> QED
      BY <1>2, <2>1, <2>2, <2>3, <3>1, <3>2 DEF FiredFor, locals
  <2>6. Members'
    BY <1>2, <2>1, <2>2 DEF UserInv, Members, locals
  <2>7. Registered'
    BY <1>2, <2>1, <2>2 DEF UserInv, Registered, Returning, locals
  <2>8. Replies'
    BY <1>2, <2>1 DEF UserInv, Replies, IInv, TypeOK
  <2> QED
    BY <1>1, <2>4, <2>5, <2>6, <2>7, <2>8 DEF UserInv, Modes
<1> QED
  BY <1>4, <1>5, <1>6, <1>7, <1>8

\* Only its port is in a mapped portset, so that destroying it moves no other.
LEMMA DestroyMapped ==
  ASSUME UserInv, NEW i \in Used,
         DestroyPset(map[i].pset, [member EXCEPT ![map[i].port] = None])
  PROVE  /\ map[i].port \in Ports /\ map[i].pset \in Psets
         /\ member' = [member EXCEPT ![map[i].port] = None]
         /\ psets' = psets \ {map[i].pset}
         /\ filter' = [filter EXCEPT ![map[i].pset] = "none"]
         /\ \A p \in Ports \ {map[i].port} : Mapped(p) => member[p] # map[i].pset
<1> USE MapConstants
<1> DEFINE q == map[i].port
           s == map[i].pset
<1>1. i \in Slot /\ q \in Ports /\ s \in Psets
  BY UsedEntry DEF UserInv, Entry
<1>2. ASSUME NEW p \in Ports \ {q}, member[p] = s PROVE FALSE
  <2>1. ~ Mapped(p)
    BY <1>2 DEF Mapped, UserInv, IInv, MapSound
  <2>2. ASSUME NEW u \in Threads, pc[u] \in {"install", "unwrap"}, port[u] = p PROVE FALSE
    <3>1. s \in Mine(u)
      BY <1>2, <2>2 DEF UserInv, Registers, Mine
    <3> QED
      BY <3>1 DEF UserInv, IInv, NoPsetLeak
  <2> QED
    BY <1>1, <1>2, <2>1, <2>2 DEF UserInv, Members
<1>3. member \in [Ports -> Psets \cup {None}]
  BY DEF UserInv, IInv, TypeOK
<1>4. member' = [member EXCEPT ![q] = None]
  <2>1. member' = [p \in Ports |-> IF [member EXCEPT ![q] = None][p] = s THEN None
                                   ELSE [member EXCEPT ![q] = None][p]]
    BY DEF DestroyPset
  <2> QED
    BY <1>1, <1>2, <1>3, <2>1
<1> QED
  BY <1>1, <1>2, <1>4 DEF DestroyPset

\* mp_release_locked unmaps its port and no other.
LEMMA ReleaseMapped ==
  ASSUME UserInv, NEW i \in Used, Release(i), NEW q \in Ports, q = map[i].port
  PROVE  /\ map[i].pset \in Psets
         /\ member' = [member EXCEPT ![q] = None]
         /\ filter' = [filter EXCEPT ![map[i].pset] = "none"]
         /\ Used' = Used \ {i} /\ \A j \in Used' : map'[j] = map[j]
         /\ OfPort(q)' = {} /\ ~ Mapped(q)'
         /\ \A p \in Ports \ {q} :
                /\ Mapped(p)' = Mapped(p) /\ OfPort(p)' = OfPort(p)
                /\ Mapped(p) => member[p] # map[i].pset
<1> DEFINE s == map[i].pset
<1>1. i \in Slot /\ map' = [map EXCEPT ![i] = Empty] /\ map \in [Slot -> Entry \cup {Empty}]
  BY UsedEntry DEF Release, UserInv, IInv, TypeOK
<1>2. /\ s \in Psets /\ member' = [member EXCEPT ![q] = None]
      /\ filter' = [filter EXCEPT ![s] = "none"]
      /\ \A p \in Ports \ {q} : Mapped(p) => member[p] # s
  BY DestroyMapped DEF Release
<1>3. Used' = Used \ {i} /\ \A j \in Used' : map'[j] = map[j]
  BY <1>1 DEF Used, Empty
<1>4. \A j \in Used' : map[j].port # q
  BY <1>3 DEF UserInv, IInv, MapSound
<1>5. OfPort(q)' = {} /\ ~ Mapped(q)'
  BY <1>3, <1>4 DEF OfPort, Mapped
<1>6. ASSUME NEW p \in Ports \ {q} PROVE Mapped(p)' = Mapped(p) /\ OfPort(p)' = OfPort(p)
  <2>1. member'[p] = member[p]
    BY <1>2 DEF UserInv, IInv, TypeOK
  <2>2. OfPort(p)' = OfPort(p)
    BY <1>3 DEF OfPort
  <2>3. Mapped(p)' = Mapped(p)
    BY <1>3, <2>1 DEF Mapped
  <2> QED
    BY <2>2, <2>3
<1> QED
  BY <1>2, <1>3, <1>5, <1>6

\* A registration begins: a valid mapping is used, a stale one goes.
LEMMA LookupUser ==
  ASSUME UserInv, OneUser, NEW t \in Threads, NEW p \in Ports, Lookup(t, p), IInv'
  PROVE  UserInv'
<1> USE MapConstants
<1>1. /\ pc[t] = "idle" /\ p \in User[t] /\ p \in alive /\ port' = [port EXCEPT ![t] = p]
      /\ UNCHANGED <<other, noDrain, alive, queue, owner>>
  BY DEF Lookup
<1>2. /\ pc \in [Threads -> Stage] /\ port \in [Threads -> Ports \cup {None}]
      /\ pset \in [Threads -> Psets \cup {None}] /\ member \in [Ports -> Psets \cup {None}]
      /\ filter \in [Psets -> {"none", "oneshot", "keep"}] /\ map \in [Slot -> Entry \cup {Empty}]
  BY DEF UserInv, IInv, TypeOK
<1>3. \A u \in Threads \ {t} : (Registering(u) => port[u] # p) /\ \A q \in Ports : FiredFor(u, q) => q # p
  BY <1>1, Sole
<1>4. pset[t] = None
  BY <1>1 DEF UserInv, Registers
<1>5. CASE OfPort(p) = {}
  <2>1. pc' = [pc EXCEPT ![t] = "create"] /\ UNCHANGED <<map, pset, psets, member, filter>>
    BY <1>5 DEF Lookup, Goto
  <2>2. /\ Used' = Used /\ \A q \in Ports : Mapped(q)' = Mapped(q)
        /\ \A q : OfPort(q)' = OfPort(q)
    BY <2>1, SameMap
  <2>3. Registers'
    BY <1>1, <1>2, <1>4, <1>5, <2>1, <2>2 DEF UserInv, Registers, Registering, IInv, Hands
  <2>4. Returns'
    BY <1>1, <1>2, <2>1, <2>2 DEF UserInv, Returns, Returning, FiredFor, owner
  <2>5. Members'
    BY <1>1, <1>2, <2>1, <2>2 DEF UserInv, Members, owner
  <2>6. Registered'
    BY <1>1, <1>2, <2>1, <2>2 DEF UserInv, Registered, Returning, owner
  <2> QED
    BY <1>1, <2>1, <2>2, <2>3, <2>4, <2>5, <2>6 DEF UserInv, Modes, Replies, owner
<1>6. CASE OfPort(p) # {}
  <2> DEFINE i == First(OfPort(p))
  <2>1. i \in Used /\ map[i].port = p
    <3>1. OfPort(p) \in SUBSET Slot
      BY DEF OfPort, Used
    <3>2. i \in OfPort(p)
      BY <1>6, <3>1, FirstFinds
    <3> QED
      BY <3>2 DEF OfPort
  <2>2. Mapped(p) <=> member[p] = map[i].pset
    BY <2>1 DEF Mapped, UserInv, IInv, MapSound
  <2>3. CASE Stale(i)
    <3>1. Release(i) /\ pc' = [pc EXCEPT ![t] = "create"] /\ UNCHANGED pset
      BY <1>6, <2>3 DEF Lookup, Goto
    <3>2. ~ Mapped(p)
      BY <1>1, <2>1, <2>2, <2>3 DEF Stale
    <3> HIDE DEF i
    <3>3. /\ map[i].pset \in Psets
          /\ member' = [member EXCEPT ![p] = None]
          /\ filter' = [filter EXCEPT ![map[i].pset] = "none"]
          /\ Used' = Used \ {i} /\ \A j \in Used' : map'[j] = map[j]
          /\ OfPort(p)' = {} /\ ~ Mapped(p)'
          /\ \A q \in Ports \ {p} : /\ Mapped(q)' = Mapped(q) /\ OfPort(q)' = OfPort(q)
                                    /\ Mapped(q) => member[q] # map[i].pset
      BY <2>1, <3>1, ReleaseMapped
    <3>4. Registers'
      BY <1>1, <1>2, <1>3, <1>4, <3>1, <3>3 DEF UserInv, Registers, Registering, IInv, Hands
    <3>5. Returns'
      <4>1. SUFFICES ASSUME NEW u \in Threads, Returning(u)' PROVE \E q \in Ports : FiredFor(u, q)'
        BY DEF Returns
      <4>2. u # t /\ Returning(u)
        BY <1>2, <3>1, <4>1 DEF Returning
      <4>3. PICK q \in Ports : FiredFor(u, q)
        BY <4>2 DEF UserInv, Returns
      <4> QED
        BY <1>1, <1>2, <1>3, <3>1, <3>3, <4>2, <4>3 DEF FiredFor, owner
    <3>6. Members'
      BY <1>1, <1>2, <3>1, <3>3 DEF UserInv, Members, owner
    <3>7. Registered'
      <4>1. SUFFICES ASSUME NEW q \in Ports, reg[q] # "no"
            PROVE  /\ Mapped(q)' /\ (Kind[q] = "wakeup" => filter'[member'[q]] = "keep")
                   /\ filter'[member'[q]] = "none" =>
                          \E u \in Threads : Returning(u)' /\ pset'[u] = member'[q]
        BY <1>1 DEF Registered, owner
      <4>2. q # p /\ Mapped(q)
        BY <3>2, <4>1 DEF UserInv, Registered
      <4>3. member'[q] = member[q] /\ filter'[member[q]] = filter[member[q]]
        BY <1>2, <3>3, <4>2, MappedAlone
      <4>4. \A u \in Threads : Returning(u) => Returning(u)' /\ pset'[u] = pset[u]
        BY <1>1, <1>2, <3>1 DEF Returning
      <4> QED
        BY <3>3, <4>1, <4>2, <4>3, <4>4 DEF UserInv, Registered
    <3> QED
      BY <1>1, <3>3, <3>4, <3>5, <3>6, <3>7 DEF UserInv, Modes, Replies, owner
  <2>4. CASE ~ Stale(i)
    <3>1. /\ pset' = [pset EXCEPT ![t] = map[i].pset] /\ pc' = [pc EXCEPT ![t] = "submit"]
          /\ UNCHANGED <<map, psets, member, filter>>
      BY <1>6, <2>4 DEF Lookup, Goto
    <3>2. Mapped(p) /\ member[p] = map[i].pset
      BY <2>1, <2>2, <2>4 DEF Stale
    <3>3. /\ Used' = Used /\ \A q \in Ports : Mapped(q)' = Mapped(q)
          /\ \A q : OfPort(q)' = OfPort(q)
      BY <3>1, SameMap
    <3> HIDE DEF i
    <3>4. member[p] # None
      BY <3>2, MappedAlone
    <3>5. Registers'
      BY <1>1, <1>2, <3>1, <3>2, <3>3, <3>4 DEF UserInv, Registers, Registering, IInv, Hands
    <3>6. Returns'
      BY <1>1, <1>2, <3>1, <3>3 DEF UserInv, Returns, Returning, FiredFor, owner
    <3>7. Members'
      BY <1>1, <1>2, <3>1, <3>3 DEF UserInv, Members, owner
    <3>8. Registered'
      BY <1>1, <1>2, <3>1, <3>3 DEF UserInv, Registered, Returning, owner
    <3> QED
      BY <1>1, <3>1, <3>3, <3>5, <3>6, <3>7, <3>8 DEF UserInv, Modes, Replies, owner
  <2> QED
    BY <2>3, <2>4
<1> QED
  BY <1>5, <1>6

\* A new portset takes a port that is not mapped.
LEMMA CreateUser ==
  ASSUME UserInv, OneUser, NEW t \in Threads, Create(t), IInv'
  PROVE  UserInv'
<1> USE MapConstants
<1> DEFINE p == port[t]
<1>1. PICK s \in Psets \ psets : /\ psets' = psets \cup {s}
                                 /\ member' = [member EXCEPT ![p] = s]
                                 /\ pset' = [pset EXCEPT ![t] = s]
  BY DEF Create
<1>2. /\ pc[t] = "create" /\ pc' = [pc EXCEPT ![t] = "install"]
      /\ UNCHANGED <<map, port, other, noDrain, alive, queue, filter, owner>>
  BY DEF Create, Goto
<1>3. /\ pc \in [Threads -> Stage] /\ port \in [Threads -> Ports \cup {None}]
      /\ pset \in [Threads -> Psets \cup {None}] /\ member \in [Ports -> Psets \cup {None}]
  BY DEF UserInv, IInv, TypeOK
<1>4. p \in Ports /\ p \in User[t] /\ p \in alive /\ OfPort(p) = {}
  BY <1>2 DEF UserInv, IInv, Hands, Registers, Registering
<1>5. \A u \in Threads \ {t} : (Registering(u) => port[u] # p) /\ \A q \in Ports : FiredFor(u, q) => q # p
  BY <1>4, Sole
<1>6. Used' = Used /\ \A q \in Ports : OfPort(q)' = OfPort(q)
  BY <1>2 DEF Used, OfPort
<1>7. ~ Mapped(p) /\ \A q \in Ports : Mapped(q)' = Mapped(q)
  <2>1. \A q \in Ports \ {p} : member'[q] = member[q]
    BY <1>1, <1>3
  <2>2. \A i \in Used : map[i].port # p
    BY <1>4 DEF OfPort
  <2> QED
    BY <1>2, <1>6, <2>1, <2>2 DEF Mapped
<1>8. Registers'
  BY <1>1, <1>2, <1>3, <1>4, <1>5, <1>6, <1>7 DEF UserInv, Registers, Registering, IInv, Hands
<1>9. Returns'
  <2>1. SUFFICES ASSUME NEW u \in Threads, Returning(u)' PROVE \E q \in Ports : FiredFor(u, q)'
    BY DEF Returns
  <2>2. u # t /\ Returning(u)
    BY <1>2, <1>3, <2>1 DEF Returning
  <2>3. PICK q \in Ports : FiredFor(u, q)
    BY <2>2 DEF UserInv, Returns
  <2> QED
    BY <1>1, <1>2, <1>3, <1>5, <1>7, <2>2, <2>3 DEF FiredFor, owner
<1>10. Members'
  BY <1>1, <1>2, <1>3, <1>4, <1>5, <1>7 DEF UserInv, Members, owner
<1>11. Registered'
  BY <1>1, <1>2, <1>3, <1>4, <1>7 DEF UserInv, Registered, Returning, owner
<1> QED
  BY <1>2, <1>6, <1>8, <1>9, <1>10, <1>11 DEF UserInv, Modes, Replies, owner

\* Undoing the wrapping takes the port out of a portset it was alone in.
LEMMA UnwrapUser ==
  ASSUME UserInv, OneUser, NEW t \in Threads, Unwrap(t), IInv'
  PROVE  UserInv'
<1> USE MapConstants
<1> DEFINE p == port[t]
           s == pset[t]
<1>1. /\ pc[t] = "unwrap" /\ pc' = [pc EXCEPT ![t] = "submit"]
      /\ pset' = [pset EXCEPT ![t] = None]
      /\ DestroyPset(s, [member EXCEPT ![p] = None])
      /\ UNCHANGED <<map, port, other, noDrain, alive, queue, owner>>
  BY DEF Unwrap, Goto
<1>2. /\ pc \in [Threads -> Stage] /\ port \in [Threads -> Ports \cup {None}]
      /\ pset \in [Threads -> Psets \cup {None}] /\ member \in [Ports -> Psets \cup {None}]
      /\ filter \in [Psets -> {"none", "oneshot", "keep"}]
  BY DEF UserInv, IInv, TypeOK
<1>3. p \in Ports /\ p \in User[t] /\ p \in alive /\ OfPort(p) = {} /\ s \in psets /\ s \in Psets
  BY <1>1 DEF UserInv, IInv, TypeOK, Hands, Registers, Registering
<1>4. \A u \in Threads \ {t} : (Registering(u) => port[u] # p) /\ \A q \in Ports : FiredFor(u, q) => q # p
  BY <1>3, Sole
<1>5. s \in Mine(t)
  BY <1>1 DEF Mine
<1>6. ASSUME NEW q \in Ports \ {p}, member[q] = s PROVE FALSE
  <2>1. ~ Mapped(q)
    BY <1>5, <1>6 DEF Mapped, UserInv, IInv, NoPsetLeak
  <2>2. ASSUME NEW u \in Threads, pc[u] \in {"install", "unwrap"}, port[u] = q PROVE FALSE
    <3>1. u # t /\ s \in Mine(u)
      BY <1>6, <2>2 DEF UserInv, Registers, Mine
    <3> QED
      BY <1>5, <3>1 DEF UserInv, IInv, NoPsetLeak
  <2> QED
    BY <1>3, <1>6, <2>1, <2>2 DEF UserInv, Members
<1>7. /\ member' = [member EXCEPT ![p] = None] /\ filter' = [filter EXCEPT ![s] = "none"]
  <2>1. member' = [q \in Ports |-> IF [member EXCEPT ![p] = None][q] = s THEN None
                                   ELSE [member EXCEPT ![p] = None][q]]
    BY <1>1 DEF DestroyPset
  <2>2. member' = [member EXCEPT ![p] = None]
    BY <1>2, <1>6, <2>1
  <2> QED
    BY <1>1, <2>2 DEF DestroyPset
<1>8. Used' = Used /\ \A q \in Ports : OfPort(q)' = OfPort(q)
  BY <1>1 DEF Used, OfPort
<1>9. ~ Mapped(p) /\ \A q \in Ports : Mapped(q)' = Mapped(q)
  <2>1. \A q \in Ports \ {p} : member'[q] = member[q]
    BY <1>2, <1>7
  <2>2. \A i \in Used : map[i].port # p
    BY <1>3 DEF OfPort
  <2> QED
    BY <1>1, <1>8, <2>1, <2>2 DEF Mapped
<1>10. Registers'
  BY <1>1, <1>2, <1>3, <1>4, <1>7, <1>8, <1>9 DEF UserInv, Registers, Registering, IInv, Hands
<1>11. Returns'
  <2>1. SUFFICES ASSUME NEW u \in Threads, Returning(u)' PROVE \E q \in Ports : FiredFor(u, q)'
    BY DEF Returns
  <2>2. u # t /\ Returning(u)
    BY <1>1, <1>2, <2>1 DEF Returning
  <2>3. PICK q \in Ports : FiredFor(u, q)
    BY <2>2 DEF UserInv, Returns
  <2> QED
    BY <1>1, <1>2, <1>4, <1>7, <1>9, <2>2, <2>3 DEF FiredFor, owner
<1>12. Members'
  BY <1>1, <1>2, <1>3, <1>4, <1>7, <1>9 DEF UserInv, Members, owner
<1>13. Registered'
  <2>1. \A q \in Ports \ {p} : member'[q] = member[q] /\ (Mapped(q) => filter'[member[q]] = filter[member[q]])
    BY <1>2, <1>3, <1>6, <1>7, MappedAlone
  <2>2. \A u \in Threads : Returning(u) => Returning(u)' /\ pset'[u] = pset[u]
    BY <1>1, <1>2 DEF Returning
  <2> QED
    BY <1>1, <1>9, <2>1, <2>2 DEF UserInv, Registered, owner
<1> QED
  BY <1>1, <1>8, <1>10, <1>11, <1>12, <1>13 DEF UserInv, Modes, Replies, owner

\* The caller of a one-shot is told of the message, which stays on the port,
\* and the mapping of the port goes.
LEMMA ReleaseFiredUser ==
  ASSUME UserInv, OneUser, NEW t \in Threads, ReleaseFired(t), IInv'
  PROVE  UserInv'
<1> USE MapConstants
<1>1. PICK p \in Ports : FiredFor(t, p)
  BY DEF ReleaseFired, UserInv, Returns, Returning
<1> DEFINE i == First(OfPset(pset[t]))
<1>2. /\ i \in Used /\ map[i].port = p /\ map[i].pset = pset[t] /\ Release(i)
      /\ OfPort(p) = {i}
  BY <1>1, FiredEntry DEF ReleaseFired
<1> HIDE DEF i
<1>3. /\ pc[t] = "release" /\ pc' = [pc EXCEPT ![t] = "idle"] /\ Kind[p] = "reply" /\ port[t] = p
      /\ p \in User[t] /\ p \in alive /\ Mapped(p) /\ member[p] = pset[t] /\ queue[p] = 1
      /\ port' = [port EXCEPT ![t] = None] /\ pset' = [pset EXCEPT ![t] = None]
      /\ told' = told \cup {p} /\ reg' = [reg EXCEPT ![p] = "no"]
      /\ UNCHANGED <<other, alive, queue>>
  BY <1>1 DEF ReleaseFired, Deliver, Goto, FiredFor
<1>4. /\ pc \in [Threads -> Stage] /\ port \in [Threads -> Ports \cup {None}]
      /\ pset \in [Threads -> Psets \cup {None}] /\ member \in [Ports -> Psets \cup {None}]
      /\ filter \in [Psets -> {"none", "oneshot", "keep"}]
      /\ reg \in [Ports -> {"no", "yes", "deleted"}]
  BY DEF UserInv, IInv, TypeOK
<1>5. \A u \in Threads \ {t} : (Registering(u) => port[u] # p) /\ \A q \in Ports : FiredFor(u, q) => q # p
  BY <1>3, Sole
<1>6. /\ map[i].pset \in Psets
      /\ member' = [member EXCEPT ![p] = None]
      /\ filter' = [filter EXCEPT ![map[i].pset] = "none"]
      /\ Used' = Used \ {i} /\ \A j \in Used' : map'[j] = map[j]
      /\ OfPort(p)' = {} /\ ~ Mapped(p)'
      /\ \A q \in Ports \ {p} : /\ Mapped(q)' = Mapped(q) /\ OfPort(q)' = OfPort(q)
                                /\ Mapped(q) => member[q] # map[i].pset
  BY <1>2, ReleaseMapped
<1>7. Registers'
  BY <1>3, <1>4, <1>5, <1>6 DEF UserInv, Registers, Registering, IInv, Hands
<1>8. Returns'
  <2>1. SUFFICES ASSUME NEW u \in Threads, Returning(u)' PROVE \E q \in Ports : FiredFor(u, q)'
    BY DEF Returns
  <2>2. u # t /\ Returning(u)
    BY <1>3, <1>4, <2>1 DEF Returning
  <2>3. PICK q \in Ports : FiredFor(u, q)
    BY <2>2 DEF UserInv, Returns
  <2> QED
    BY <1>3, <1>4, <1>5, <1>6, <2>2, <2>3 DEF FiredFor
<1>9. Members'
  BY <1>3, <1>4, <1>6 DEF UserInv, Members
<1>10. Registered'
  <2>1. SUFFICES ASSUME NEW q \in Ports \ {p}, reg[q] # "no"
        PROVE  /\ Mapped(q)' /\ (Kind[q] = "wakeup" => filter'[member'[q]] = "keep")
               /\ filter'[member'[q]] = "none" =>
                      \E u \in Threads : Returning(u)' /\ pset'[u] = member'[q]
    BY <1>3, <1>4 DEF Registered
  <2>2. Mapped(q)
    BY <2>1 DEF UserInv, Registered
  <2>3. member'[q] = member[q] /\ member[q] # pset[t] /\ filter'[member[q]] = filter[member[q]]
    BY <1>2, <1>4, <1>6, <2>2, MappedAlone
  <2>4. \A u \in Threads \ {t} : Returning(u) => Returning(u)' /\ pset'[u] = pset[u]
    BY <1>3, <1>4 DEF Returning
  <2> QED
    BY <1>6, <2>1, <2>2, <2>3, <2>4 DEF UserInv, Registered
<1>11. Replies'
  BY <1>3 DEF UserInv, Replies
<1> QED
  BY <1>3, <1>6, <1>7, <1>8, <1>9, <1>10, <1>11 DEF UserInv, Modes

\* The pair goes into a slot that is free or whose mapping cannot fire.
LEMMA PairUser ==
  ASSUME UserInv, OneUser, NEW t \in Threads, pc[t] = "install", NEW k \in Slot,
         pc' = [pc EXCEPT ![t] = "submit"],
         map' = [map EXCEPT ![k] = Mapping(t)],
         k \in Used => ~ Mapped(map[k].port),
         member' \in [Ports -> Psets \cup {None}],
         \A q \in Ports : \/ member'[q] = member[q]
                          \/ OfPort(q) # {} /\ ~ Mapped(q) /\ member'[q] = None,
         \A q \in Ports : Mapped(q) => filter'[member[q]] = filter[member[q]],
         UNCHANGED <<locals, alive, queue, owner>>, IInv'
  PROVE  UserInv'
<1> USE MapConstants
<1> DEFINE p == port[t]
           s == pset[t]
<1>1. /\ pc \in [Threads -> Stage] /\ port \in [Threads -> Ports \cup {None}]
      /\ pset \in [Threads -> Psets \cup {None}] /\ member \in [Ports -> Psets \cup {None}]
      /\ map \in [Slot -> Entry \cup {Empty}]
  BY DEF UserInv, IInv, TypeOK
<1>2. /\ p \in Ports /\ p \in User[t] /\ p \in alive /\ OfPort(p) = {}
      /\ s \in psets /\ s # None /\ member[p] = s
  BY DEF UserInv, IInv, TypeOK, Hands, Registers, Registering
<1>3. \A u \in Threads \ {t} : (Registering(u) => port[u] # p) /\ \A q \in Ports : FiredFor(u, q) => q # p
  BY <1>2, Sole
<1>4. /\ Used' = Used \cup {k} /\ \A j \in Used \ {k} : map'[j] = map[j]
      /\ map'[k].port = p /\ map'[k].pset = s /\ map'[k].noDrain = (Kind[p] = "reply")
  BY <1>1, <1>2 DEF Used, Mapping
<1>5. ~ Mapped(p) /\ \A i \in Used : map[i].port # p
  BY <1>2 DEF OfPort, Mapped
<1>6. member'[p] = s
  BY <1>2
<1>7. p \in Ports /\ \A j \in Used' : map'[j].port = p => j = k
  BY <1>2, <1>4, <1>5
<1>8. \A q \in Ports : q # p => (Mapped(q)' = Mapped(q) /\ OfPort(q)' \subseteq OfPort(q))
  <2>1. SUFFICES ASSUME NEW q \in Ports, q # p
        PROVE  Mapped(q)' = Mapped(q) /\ OfPort(q)' \subseteq OfPort(q)
    OBVIOUS
  <2>2. OfPort(q)' \subseteq OfPort(q)
    BY <1>4, <2>1 DEF OfPort
  <2>3. Mapped(q) => Mapped(q)'
    <3>1. SUFFICES ASSUME Mapped(q) PROVE Mapped(q)'
      OBVIOUS
    <3>2. PICK i \in Used : map[i].port = q /\ map[i].pset = member[q]
      BY <3>1 DEF Mapped
    <3>3. i # k /\ member'[q] = member[q]
      BY <3>1, <3>2
    <3> QED
      BY <1>4, <3>2, <3>3 DEF Mapped
  <2>4. Mapped(q)' => Mapped(q)
    <3>1. SUFFICES ASSUME Mapped(q)' PROVE Mapped(q)
      OBVIOUS
    <3>2. PICK i \in Used' : map'[i].port = q /\ map'[i].pset = member'[q]
      BY <3>1 DEF Mapped
    <3>3. i \in Used /\ map[i].port = q /\ map[i].pset = member'[q]
      BY <1>4, <2>1, <3>2
    <3>4. member'[q] # None
      BY <3>3, UsedEntry DEF UserInv, Entry
    <3> QED
      BY <3>3, <3>4 DEF Mapped
  <2> QED
    BY <2>2, <2>3, <2>4 DEF Mapped
<1>9. \A q \in Ports : q = p => Mapped(q)'
  BY <1>4, <1>6 DEF Mapped
<1>10. Registers'
  <2>1. SUFFICES ASSUME NEW u \in Threads, u # t
        PROVE  /\ pc[u] # "handback"
               /\ pc[u] \in {"idle", "create"} => pset[u] = None
               /\ Registering(u) => port[u] \in User[u] /\ port[u] \in alive
               /\ pc[u] \in {"create", "install", "unwrap"} => OfPort(port[u])' = {}
               /\ pc[u] \in {"install", "unwrap"} => member'[port[u]] = pset[u]
               /\ pc[u] = "submit" /\ pset[u] = None => OfPort(port[u])' = {}
               /\ pc[u] = "submit" /\ pset[u] # None =>
                      Mapped(port[u])' /\ member'[port[u]] = pset[u]
    <3>1. UNCHANGED <<port, pset, alive>> /\ pc'[t] = "submit" /\ \A u \in Threads \ {t} : pc'[u] = pc[u]
      BY <1>1 DEF locals
    <3>2. \A u \in Threads : UNCHANGED <<port[u], pset[u]>>
      BY <3>1
    <3> QED
      BY <1>2, <1>6, <1>9, <2>1, <3>1, <3>2 DEF Registers, Registering, OfPort, Mapped
  <2>2. Registering(u) => port[u] \in Ports /\ port[u] # p
    BY <1>3, <2>1 DEF UserInv, IInv, Hands, Registering
  <2>3. /\ pc[u] # "handback"
        /\ pc[u] \in {"idle", "create"} => pset[u] = None
        /\ Registering(u) => port[u] \in User[u] /\ port[u] \in alive
        /\ pc[u] \in {"create", "install", "unwrap"} => OfPort(port[u]) = {}
        /\ pc[u] \in {"install", "unwrap"} => member[port[u]] = pset[u]
        /\ pc[u] = "submit" /\ pset[u] = None => OfPort(port[u]) = {}
        /\ pc[u] = "submit" /\ pset[u] # None => Mapped(port[u]) /\ member[port[u]] = pset[u]
    BY <2>1 DEF UserInv, Registers
  <2>4. Registering(u) => OfPort(port[u])' \subseteq OfPort(port[u])
    BY <1>8, <2>2 DEF OfPort, locals
  <2>5. Registering(u) /\ (Mapped(port[u]) \/ OfPort(port[u]) = {}) =>
            member'[port[u]] = member[port[u]]
    BY <2>2
  <2>6. Registering(u) => (Mapped(port[u]) => Mapped(port[u])')
    BY <1>8, <2>2 DEF Mapped, locals
  <2> QED
    BY <2>3, <2>4, <2>5, <2>6 DEF Registering
<1>11. Returns'
  BY <1>1, <1>2, <1>3, <1>8 DEF UserInv, Returns, Returning, FiredFor, locals, owner
<1>12. Members'
  BY <1>1, <1>2, <1>6, <1>8, <1>9 DEF UserInv, Members, locals, owner
<1>13. Registered'
  BY <1>1, <1>2, <1>5, <1>8 DEF UserInv, Registered, Returning, locals, owner
<1> QED
  BY <1>4, <1>10, <1>11, <1>12, <1>13 DEF UserInv, Modes, Replies, owner

\* A registration installs its pair or gives up; no other thread can have
\* installed one for its port.
LEMMA InstallUser ==
  ASSUME UserInv, OneUser, NEW t \in Threads, Install(t), IInv'
  PROVE  UserInv'
<1> USE MapConstants
<1> DEFINE p == port[t]
           free == Slot \ Used
           stale == {i \in Used : Stale(i)}
<1>1. pc[t] = "install" /\ UNCHANGED <<port, pset, noDrain, alive, queue, owner>>
  BY DEF Install
<1>2. p \in Ports /\ p \in alive /\ OfPort(p) = {} /\ pset[t] = member[p] /\ pset[t] \in Mine(t)
  BY <1>1 DEF UserInv, IInv, Hands, Registers, Registering, Mine
<1>3. /\ member \in [Ports -> Psets \cup {None}] /\ pc \in [Threads -> Stage]
      /\ filter \in [Psets -> {"none", "oneshot", "keep"}]
  BY DEF UserInv, IInv, TypeOK
<1>4. CASE free # {}
  <2>1. /\ map' = [map EXCEPT ![First(free)] = Mapping(t)]
        /\ pc' = [pc EXCEPT ![t] = "submit"] /\ UNCHANGED <<other, psets, member, filter>>
    BY <1>2, <1>4 DEF Install, Goto
  <2>2. First(free) \in free
    BY <1>4, FirstFinds
  <2> QED
    BY <1>1, <1>3, <2>1, <2>2, PairUser DEF locals
<1>5. CASE free = {} /\ stale # {}
  <2> DEFINE i == First(stale)
  <2>1. i \in Used /\ Stale(i)
    BY <1>5, FirstFinds DEF Used
  <2>2. /\ DestroyPset(map[i].pset, [member EXCEPT ![map[i].port] = None])
        /\ map' = [map EXCEPT ![i] = Mapping(t)]
        /\ pc' = [pc EXCEPT ![t] = "submit"] /\ UNCHANGED other
    BY <1>2, <1>5 DEF Install, Goto
  <2> HIDE DEF i
  <2>3. /\ map[i].port \in Ports /\ map[i].pset \in Psets /\ map[i].port # p
        /\ member' = [member EXCEPT ![map[i].port] = None]
        /\ filter' = [filter EXCEPT ![map[i].pset] = "none"]
        /\ \A q \in Ports \ {map[i].port} : Mapped(q) => member[q] # map[i].pset
    BY <1>2, <2>1, <2>2, DestroyMapped DEF OfPort
  <2>4. ~ Mapped(map[i].port)
    <3>1. \A j \in Used : map[j].port = map[i].port => j = i
      BY <2>1 DEF UserInv, IInv, MapSound
    <3>2. map[i].port \notin alive => member[map[i].port] = None
      BY <2>3 DEF UserInv, Members
    <3> QED
      BY <2>1, <2>3, <3>1, <3>2 DEF Mapped, Stale
  <2>5. \A q \in Ports : Mapped(q) => filter'[member[q]] = filter[member[q]]
    BY <1>3, <2>3, <2>4
  <2>6. \A q \in Ports : \/ member'[q] = member[q]
                         \/ OfPort(q) # {} /\ ~ Mapped(q) /\ member'[q] = None
    BY <1>3, <2>1, <2>3, <2>4 DEF OfPort
  <2>7. member' \in [Ports -> Psets \cup {None}] /\ i \in Slot
    BY <1>3, <2>1, <2>3 DEF Used
  <2> QED
    BY <1>1, <2>2, <2>4, <2>5, <2>6, <2>7, PairUser DEF locals
<1>6. CASE free = {} /\ stale = {}
  <2>1. pc' = [pc EXCEPT ![t] = "unwrap"] /\ UNCHANGED <<map, other, psets, member, filter>>
    BY <1>2, <1>6 DEF Install, Goto
  <2>2. /\ Used' = Used /\ \A q \in Ports : Mapped(q)' = Mapped(q)
        /\ \A q : OfPort(q)' = OfPort(q)
    BY <2>1, SameMap
  <2>3. Registers'
    BY <1>1, <1>2, <1>3, <2>1, <2>2 DEF UserInv, Registers, Registering, IInv, Hands
  <2>4. Returns'
    BY <1>1, <1>3, <2>1, <2>2 DEF UserInv, Returns, Returning, FiredFor, owner
  <2>5. Members'
    BY <1>1, <1>3, <2>1, <2>2 DEF UserInv, Members, owner
  <2>6. Registered'
    BY <1>1, <1>3, <2>1, <2>2 DEF UserInv, Registered, Returning, owner
  <2> QED
    BY <1>1, <2>1, <2>2, <2>3, <2>4, <2>5, <2>6 DEF UserInv, Modes, Replies, owner
<1> QED
  BY <1>4, <1>5, <1>6

\* The invariant of ports with one user each holds throughout.
LEMMA UserInvariant == ASSUME OneUser PROVE Spec => []UserInv
<1>1. ASSUME UserInv, IInv', UNCHANGED vars PROVE UserInv'
  <2>1. /\ Used' = Used /\ \A q \in Ports : Mapped(q)' = Mapped(q)
        /\ \A q : OfPort(q)' = OfPort(q)
    BY <1>1, SameMap DEF vars, kernel
  <2>2. Registers' /\ Returns' /\ Members'
    BY <1>1, <2>1 DEF UserInv, vars, locals, kernel, owner, Registers, Registering, Returns,
       Returning, FiredFor, Members, IInv, Hands
  <2>3. Registered' /\ Modes' /\ Replies'
    BY <1>1, <2>1 DEF UserInv, vars, locals, kernel, owner, Registered, Returning, Modes, Replies
  <2> QED
    BY <1>1, <2>2, <2>3 DEF UserInv
<1>2. ASSUME UserInv, IInv', NEW t \in Threads, Register(t) PROVE UserInv'
  <2>1. pc[t] # "handback"
    BY <1>2 DEF UserInv, Registers
  <2> QED
    BY <1>2, <2>1, CreateUser, InstallUser, UnwrapUser, SubmitUser DEF Register, HandBack
<1>3. ASSUME UserInv, IInv', NEW t \in Threads, Return(t) PROVE UserInv'
  BY <1>3, TranslateUser, DrainUser, ReleaseFiredUser DEF Return
<1>4. ASSUME UserInv, IInv', NEW t \in Threads, NEW p \in Ports,
             Lookup(t, p) \/ Fire(t, p) \/ Delete(t, p) \/ Receive(t, p)
      PROVE  UserInv'
  <2>1. CASE Delete(t, p)
    BY <1>4, <2>1, OwnerUser DEF Delete, kernel
  <2>2. CASE Receive(t, p)
    BY <1>4, <2>2, OwnerUser DEF Receive
  <2> QED
    BY <1>4, <2>1, <2>2, LookupUser, FireUser
<1>5. ASSUME UserInv, IInv', NEW p \in Ports, CreatePort(p) \/ DestroyPort(p) \/ Send(p)
      PROVE  UserInv'
  BY <1>5, OwnerUser DEF CreatePort, DestroyPort, Send
<1>6. UserInv /\ IInv' /\ [Next]_vars => UserInv'
  BY <1>1, <1>2, <1>3, <1>4, <1>5 DEF Next
<1> QED
  BY InitUser, <1>6, InductiveInvariant, PTL DEF Spec

\* With one user per port: the portset a registration is about to use contains
\* its port, on a cache hit as much as after mp_get_or_create_pset made it.
THEOREM RegistersWrapped == ASSUME OneUser PROVE Spec => []Wrapped
<1>1. UserInv => Wrapped
  BY MappedAlone DEF UserInv, Registers, Registering, Wrapped, IInv, Hands
<1> QED
  BY UserInvariant, <1>1, PTL

\* With one user per port: machport_drain_fired never takes the message a reply
\* port's owner has been told of.
THEOREM RepliesStay == ASSUME OneUser PROVE Spec => []ReplyStillQueued
<1>1. UserInv => ReplyStillQueued
  BY DEF UserInv, Replies, ReplyStillQueued
<1> QED
  BY UserInvariant, <1>1, PTL

\* With one user per port: between calls, every mapping that can still fire is
\* of a registration that has not, so that lookups cannot use the table up.
THEOREM NoSlotBurned == ASSUME OneUser PROVE Spec => []NoBurnedSlot
<1>1. ASSUME UserInv, \A t \in Threads : pc[t] = "idle", NEW i \in Used, ~ Stale(i)
      PROVE  reg[map[i].port] # "no"
  <2>1. map[i].port \in Ports /\ Mapped(map[i].port)
    BY <1>1, UsedEntry DEF UserInv, Entry, Stale, Mapped
  <2> QED
    BY <1>1, <2>1 DEF UserInv, Members
<1>2. UserInv => NoBurnedSlot
  BY <1>1 DEF NoBurnedSlot
<1> QED
  BY UserInvariant, <1>2, PTL

\* With one user per port: what the kernel accepted can fire until it has, also
\* after an EV_DELETE, which takes nothing away; between calls a registered port is
\* in a portset that has a filter.
THEOREM RegisteredCanFire == ASSUME OneUser PROVE Spec => []CanFire
<1>1. ASSUME UserInv, \A t \in Threads : pc[t] = "idle", NEW p \in Ports, reg[p] # "no"
      PROVE  member[p] # None /\ filter[member[p]] # "none"
  <2>1. Mapped(p)
    BY <1>1 DEF UserInv, Registered
  <2> QED
    BY <1>1, <2>1, MappedAlone DEF UserInv, Registered, Returning
<1>2. UserInv => CanFire
  BY <1>1 DEF CanFire
<1> QED
  BY UserInvariant, <1>2, PTL
=============================================================================
