---------------------------- MODULE MachOProofs ----------------------------
(***************************************************************************)
(* Theorems about the editing of Mach-O files, for images, orders and      *)
(* names of every size, and lists of commands of every length.             *)
(*                                                                         *)
(* What is computed along a list (the size of the commands, the commands   *)
(* that are picked of them) is a function on 0..Len, whose values are      *)
(* reached one by one (Induced): the numbers that a claim fails for would  *)
(* have a least one (LeastExists).  With that, what a tool makes of a list *)
(* keeps the marked kinds at most as they were (Leaves), and the invariant *)
(* is that the file is well formed and that what was opened is it or its   *)
(* copy.                                                                   *)
(***************************************************************************)
EXTENDS MachOPipeline, SequenceTheorems, FiniteSetTheorems, WellFoundedInduction, TLAPS

-----------------------------------------------------------------------------
(***************************************************************************)
(* Along a list                                                            *)
(***************************************************************************)
\* A non-empty set of numbers has a least element.
LEMMA LeastExists ==
  ASSUME NEW N \in SUBSET Nat, N # {}
  PROVE  \E i \in N : \A j \in N : i <= j
<1> DEFINE T == {1..i : i \in N}
<1>1. T \subseteq FiniteSubsetsOf(Nat) /\ T # {}
  <2>1. ASSUME NEW i \in N PROVE 1..i \in FiniteSubsetsOf(Nat)
    <3>1. i \in Nat
      OBVIOUS
    <3>2. IsFiniteSet(1..i)
      BY <3>1, FS_Interval
    <3> QED
      BY <3>1, <3>2 DEF FiniteSubsetsOf
  <2> QED
    BY <2>1
<1>2. \E x \in T : \A y \in T : ~ (<<y, x>> \in StrictSubsetOrdering(Nat))
  BY <1>1, FS_StrictSubsetOrderingWellFounded, WFMin
<1>3. PICK i \in N : \A j \in N : ~ (<<1..j, 1..i>> \in StrictSubsetOrdering(Nat))
  BY <1>2
<1>4. ASSUME NEW j \in N PROVE i <= j
  <2>1. SUFFICES ASSUME j < i PROVE FALSE
    OBVIOUS
  <2>2. 1..j \subseteq 1..i /\ i \in 1..i /\ i \notin 1..j
    BY <2>1
  <2>3. <<1..j, 1..i>> \in StrictSubsetOrdering(Nat)
    BY <2>2 DEF StrictSubsetOrdering
  <2> QED
    BY <1>3, <2>3
<1> QED
  BY <1>4

\* Induction, of the numbers up to N that are in T.
LEMMA Induced ==
  ASSUME NEW N \in Nat, NEW T, 0 \in T,
         \A n \in 0..N : n \in T /\ n # N => n + 1 \in T
  PROVE  \A n \in 0..N : n \in T
<1> DEFINE Bad == {n \in 0..N : n \notin T}
<1>1. SUFFICES ASSUME Bad # {} PROVE FALSE
  OBVIOUS
<1>2. Bad \in SUBSET Nat
  OBVIOUS
<1>3. PICK n \in Bad : \A m \in Bad : n <= m
  <2> HIDE DEF Bad
  <2> QED
    BY <1>1, <1>2, LeastExists
<1>4. n # 0 /\ n - 1 \in 0..N /\ n - 1 # N /\ n - 1 + 1 = n
  BY <1>3
<1>5. n - 1 \in T
  BY <1>3, <1>4
<1> QED
  BY <1>3, <1>4, <1>5

\* f is computed step by step from a.
Computes(f, N, a, G) == f[0] = a /\ \A n \in 1..N : f[n] = G[<<n, f[n - 1]>>]

\* A function that is computed step by step is there.
LEMMA Iterated ==
  ASSUME NEW N \in Nat, NEW V, NEW a \in V, NEW G \in [(1..N) \X V -> V]
  PROVE  \E f \in [0..N -> V] : Computes(f, N, a, G)
<1> DEFINE Is(f, k) == /\ f \in [0..k -> V] /\ f[0] = a
                       /\ \A n \in 1..k : f[n] = G[<<n, f[n - 1]>>]
           T == {k \in 0..N : \E f : Is(f, k)}
<1>1. 0 \in T
  <2> DEFINE f == [n \in 0..0 |-> a]
  <2>1. Is(f, 0)
    OBVIOUS
  <2> HIDE DEF Is
  <2> QED
    BY <2>1
<1>2. ASSUME NEW k \in 0..N, k \in T, k # N PROVE k + 1 \in T
  <2>1. PICK f : Is(f, k)
    BY <1>2
  <2> DEFINE x == G[<<k + 1, f[k]>>]
             g == [n \in 0..(k + 1) |-> IF n <= k THEN f[n] ELSE x]
  <2>2. f[k] \in V /\ k + 1 \in 1..N
    BY <2>1, <1>2
  <2>3. x \in V
    BY <2>2
  <2>4. g \in [0..(k + 1) -> V] /\ g[0] = a
    <3> HIDE DEF x
    <3> QED
      BY <2>1, <2>3
  <2>5. ASSUME NEW n \in 1..(k + 1) PROVE g[n] = G[<<n, g[n - 1]>>]
    <3>1. CASE n <= k
      <4>1. g[n] = f[n] /\ g[n - 1] = f[n - 1] /\ n \in 1..k
        BY <3>1
      <4> HIDE DEF g
      <4> QED
        BY <2>1, <4>1
    <3>2. CASE ~(n <= k)
      <4>1. n = k + 1 /\ g[n] = x /\ g[n - 1] = f[k]
        BY <3>2
      <4> HIDE DEF g
      <4> QED
        BY <4>1
    <3> QED
      BY <3>1, <3>2
  <2>6. Is(g, k + 1)
    BY <2>4, <2>5
  <2> HIDE DEF Is, g
  <2> QED
    BY <2>6, <1>2
<1>3. N \in T
  <2> HIDE DEF T
  <2>1. \A n \in 0..N : n \in T
    BY <1>1, <1>2, Induced
  <2> QED
    BY <2>1
<1> QED
  BY <1>3 DEF Computes

\* What SizeOf is computed by.
LEMMA SumIs ==
  ASSUME NEW s \in Seq(Command)
  PROVE  \E f \in [0..Len(s) -> Nat] :
            /\ SizeOf(s) = f[Len(s)]
            /\ f[0] = 0 /\ \A n \in 1..Len(s) : f[n] = f[n - 1] + s[n].size
<1> DEFINE Is(f) == f = [n \in 0..Len(s) |-> IF n = 0 THEN 0 ELSE f[n - 1] + s[n].size]
           sum == CHOOSE f : Is(f)
           G == [p \in (1..Len(s)) \X Nat |-> p[2] + s[p[1]].size]
<1>1. Len(s) \in Nat /\ \A n \in 1..Len(s) : s[n].size \in Nat
  <2>1. \A n \in 1..Len(s) : s[n] \in Command
    OBVIOUS
  <2> QED
    BY <2>1 DEF Command
<1>2. G \in [(1..Len(s)) \X Nat -> Nat]
  BY <1>1
<1>3. \A n \in 1..Len(s), x \in Nat : G[<<n, x>>] = x + s[n].size
  OBVIOUS
<1>4. PICK f \in [0..Len(s) -> Nat] : Computes(f, Len(s), 0, G)
  <2>1. 0 \in Nat
    OBVIOUS
  <2> HIDE DEF G
  <2> QED
    BY <1>1, <1>2, <2>1, Iterated
<1>5. \A n \in 1..Len(s) : f[n] = f[n - 1] + s[n].size
  <2>1. \A n \in 1..Len(s) : f[n - 1] \in Nat
    BY <1>1
  <2> HIDE DEF G
  <2> QED
    BY <1>3, <1>4, <2>1, Zenon DEF Computes
<1>6. Is(f)
  <2>1. f = [n \in 0..Len(s) |-> f[n]]
    BY <1>4
  <2>2. ASSUME NEW n \in 0..Len(s)
        PROVE  f[n] = IF n = 0 THEN 0 ELSE f[n - 1] + s[n].size
    BY <1>1, <1>4, <1>5 DEF Computes
  <2> QED
    BY <2>1, <2>2, Zenon
<1>7. Is(sum)
  <2> HIDE DEF Is
  <2> QED
    BY <1>6, Zenon
<1>8. \A n \in 0..Len(s) : sum[n] = IF n = 0 THEN 0 ELSE sum[n - 1] + s[n].size
  <2> HIDE DEF sum
  <2> QED
    BY <1>7, Zenon
<1>9. SizeOf(s) = sum[Len(s)]
  BY DEF SizeOf
<1> DEFINE T == {n \in 0..Len(s) : sum[n] = f[n]}
<1>10. 0 \in T /\ \A n \in 0..Len(s) : n \in T /\ n # Len(s) => n + 1 \in T
  <2> HIDE DEF sum
  <2>1. 0 \in T
    BY <1>1, <1>4, <1>8 DEF Computes
  <2>2. ASSUME NEW n \in 0..Len(s), n \in T, n # Len(s) PROVE n + 1 \in T
    <3> DEFINE k == n + 1
    <3>1. k \in 1..Len(s) /\ k \in 0..Len(s) /\ k # 0 /\ k - 1 = n
      BY <1>1, <2>2
    <3> HIDE DEF k
    <3>2. f[k] = f[n] + s[k].size
      BY <1>5, <3>1
    <3>3. sum[k] = sum[n] + s[k].size
      BY <1>8, <3>1
    <3>4. k \in T
      BY <2>2, <3>1, <3>2, <3>3
    <3> QED
      BY <3>4 DEF k
  <2> QED
    BY <2>1, <2>2
<1>11. \A n \in 0..Len(s) : n \in T
  <2> HIDE DEF T
  <2> QED
    BY <1>1, <1>10, Induced
<1>12. SizeOf(s) = f[Len(s)]
  BY <1>1, <1>9, <1>11
<1> QED
  BY <1>4, <1>5, <1>12 DEF Computes

\* Numbers that grow by the sizes of the commands reach their sum.
LEMMA SizeIs ==
  ASSUME NEW s \in Seq(Command), NEW g, g[0] = 0,
         \A n \in 1..Len(s) : g[n] = g[n - 1] + s[n].size
  PROVE  SizeOf(s) = g[Len(s)]
<1>1. PICK f \in [0..Len(s) -> Nat] :
        /\ SizeOf(s) = f[Len(s)]
        /\ f[0] = 0 /\ \A n \in 1..Len(s) : f[n] = f[n - 1] + s[n].size
  BY SumIs
<1>2. Len(s) \in Nat
  BY LenProperties
<1> DEFINE T == {n \in 0..Len(s) : g[n] = f[n]}
<1>3. 0 \in T
  BY <1>1, <1>2
<1>4. ASSUME NEW n \in 0..Len(s), n \in T, n # Len(s) PROVE n + 1 \in T
  <2> DEFINE k == n + 1
  <2>1. k \in 1..Len(s) /\ k \in 0..Len(s) /\ k - 1 = n
    BY <1>2, <1>4
  <2> HIDE DEF k
  <2>2. f[k] = f[n] + s[k].size
    BY <1>1, <2>1
  <2>3. g[k] = g[n] + s[k].size
    BY <2>1
  <2>4. k \in T
    BY <1>4, <2>1, <2>2, <2>3
  <2> QED
    BY <2>4 DEF k
<1>5. \A n \in 0..Len(s) : n \in T
  <2> HIDE DEF T
  <2> QED
    BY <1>2, <1>3, <1>4, Induced
<1> QED
  BY <1>1, <1>2, <1>5

LEMMA SizeType ==
  ASSUME NEW s \in Seq(Command)
  PROVE  SizeOf(s) \in Nat
<1>1. Len(s) \in Nat
  BY LenProperties
<1> QED
  BY <1>1, SumIs

\* One command more takes its size more.
LEMMA SizeAppend ==
  ASSUME NEW s \in Seq(Command), NEW c \in Command
  PROVE  SizeOf(Append(s, c)) = SizeOf(s) + c.size
<1>1. PICK f \in [0..Len(s) -> Nat] :
        /\ SizeOf(s) = f[Len(s)]
        /\ f[0] = 0 /\ \A n \in 1..Len(s) : f[n] = f[n - 1] + s[n].size
  BY SumIs
<1> DEFINE t == Append(s, c)
           g == [n \in 0..(Len(s) + 1) |-> IF n <= Len(s) THEN f[n] ELSE f[Len(s)] + c.size]
<1>2. /\ Len(s) \in Nat /\ t \in Seq(Command) /\ Len(t) = Len(s) + 1
      /\ \A n \in 1..Len(s) : t[n] = s[n]
      /\ t[Len(s) + 1] = c
  BY LenProperties, AppendProperties
<1> HIDE DEF t
<1>3. g[0] = 0
  BY <1>1, <1>2
<1>4. ASSUME NEW n \in 1..Len(t) PROVE g[n] = g[n - 1] + t[n].size
  <2>1. CASE n <= Len(s)
    <3>1. n \in 1..Len(s) /\ g[n] = f[n] /\ g[n - 1] = f[n - 1]
      BY <1>2, <2>1
    <3> HIDE DEF g
    <3> QED
      BY <1>1, <1>2, <3>1
  <2>2. CASE ~(n <= Len(s))
    <3>1. n = Len(s) + 1 /\ g[n] = f[Len(s)] + c.size /\ g[n - 1] = f[Len(s)]
      BY <1>2, <2>2
    <3> HIDE DEF g
    <3> QED
      BY <1>1, <1>2, <3>1
  <2> QED
    BY <2>1, <2>2
<1>5. SizeOf(t) = g[Len(t)]
  <2> HIDE DEF g
  <2> QED
    BY <1>2, <1>3, <1>4, SizeIs
<1>6. g[Len(t)] = f[Len(s)] + c.size
  BY <1>2
<1> QED
  BY <1>1, <1>5, <1>6 DEF t

\* Commands of the same sizes take the same room.
LEMMA SameSize ==
  ASSUME NEW s \in Seq(Command), NEW t \in Seq(Command), Len(s) = Len(t),
         \A n \in 1..Len(s) : s[n].size = t[n].size
  PROVE  SizeOf(s) = SizeOf(t)
<1>1. PICK f \in [0..Len(s) -> Nat] :
        /\ SizeOf(s) = f[Len(s)]
        /\ f[0] = 0 /\ \A n \in 1..Len(s) : f[n] = f[n - 1] + s[n].size
  BY SumIs
<1>2. SizeOf(t) = f[Len(t)]
  BY <1>1, SizeIs
<1> QED
  BY <1>1, <1>2

\* f adds the elements of s at the places in I one by one.
Picks(f, V, s, I) ==
    /\ f \in [0..Len(s) -> Seq(V)]
    /\ f[0] = <<>>
    /\ \A n \in 1..Len(s) : f[n] = IF n \in I THEN Append(f[n - 1], s[n]) ELSE f[n - 1]

\* Picking is what Picked says.
LEMMA PickIs ==
  ASSUME NEW V, NEW s \in Seq(V), NEW I
  PROVE  \E f : Picks(f, V, s, I) /\ Picked(s, I) = f[Len(s)]
<1> DEFINE More(n, x) == IF n \in I THEN Append(x, s[n]) ELSE x
           Is(f) == f = [n \in 0..Len(s) |-> IF n = 0 THEN <<>> ELSE More(n, f[n - 1])]
           pick == CHOOSE f : Is(f)
           G == [p \in (1..Len(s)) \X Seq(V) |-> More(p[1], p[2])]
<1>1. Len(s) \in Nat /\ <<>> \in Seq(V)
  BY LenProperties
<1>2. \A n \in 1..Len(s), x \in Seq(V) : More(n, x) \in Seq(V)
  <2>1. \A n \in 1..Len(s) : s[n] \in V
    OBVIOUS
  <2>2. ASSUME NEW n \in 1..Len(s), NEW x \in Seq(V) PROVE More(n, x) \in Seq(V)
    <3>1. Append(x, s[n]) \in Seq(V)
      BY <2>1, AppendProperties
    <3> QED
      BY <3>1
  <2> QED
    BY <2>2
<1> HIDE DEF More
<1>3. G \in [(1..Len(s)) \X Seq(V) -> Seq(V)]
  BY <1>2
<1>4. \A n \in 1..Len(s), x \in Seq(V) : G[<<n, x>>] = More(n, x)
  OBVIOUS
<1>5. PICK f \in [0..Len(s) -> Seq(V)] : Computes(f, Len(s), <<>>, G)
  <2> HIDE DEF G
  <2> QED
    BY <1>1, <1>3, Iterated
<1>6. f[0] = <<>> /\ \A n \in 1..Len(s) : f[n] = More(n, f[n - 1])
  <2>1. \A n \in 1..Len(s) : f[n - 1] \in Seq(V)
    BY <1>1
  <2> HIDE DEF G
  <2> QED
    BY <1>4, <1>5, <2>1, Zenon DEF Computes
<1>7. Is(f)
  <2>1. f = [n \in 0..Len(s) |-> f[n]]
    BY <1>5
  <2>2. ASSUME NEW n \in 0..Len(s)
        PROVE  f[n] = IF n = 0 THEN <<>> ELSE More(n, f[n - 1])
    <3>1. n # 0 => n \in 1..Len(s)
      BY <1>1
    <3> QED
      BY <1>6, <3>1, Zenon
  <2> QED
    BY <2>1, <2>2, Zenon
<1>8. Is(pick)
  <2> HIDE DEF Is
  <2> QED
    BY <1>7, Zenon
<1>9. \A n \in 0..Len(s) : pick[n] = IF n = 0 THEN <<>> ELSE More(n, pick[n - 1])
  <2> HIDE DEF pick
  <2> QED
    BY <1>8, Zenon
<1>10. Picked(s, I) = pick[Len(s)]
  BY DEF Picked, More
<1> DEFINE T == {n \in 0..Len(s) : pick[n] = f[n]}
<1>11. 0 \in T
  <2> HIDE DEF pick
  <2>1. 0 \in 0..Len(s)
    BY <1>1
  <2> QED
    BY <1>6, <1>9, <2>1
<1>12. ASSUME NEW n \in 0..Len(s), n \in T, n # Len(s) PROVE n + 1 \in T
  <2> DEFINE k == n + 1
  <2>1. k \in 1..Len(s) /\ k \in 0..Len(s) /\ k # 0 /\ k - 1 = n
    BY <1>1, <1>12
  <2> HIDE DEF k, pick
  <2>2. f[k] = More(k, f[n])
    BY <1>6, <2>1
  <2>3. pick[k] = More(k, pick[n])
    BY <1>9, <2>1
  <2>4. k \in T
    BY <1>12, <2>1, <2>2, <2>3
  <2> QED
    BY <2>4 DEF k
<1>13. \A n \in 0..Len(s) : n \in T
  <2> HIDE DEF T
  <2> QED
    BY <1>1, <1>11, <1>12, Induced
<1>14. Picked(s, I) = f[Len(s)]
  BY <1>1, <1>10, <1>13
<1>15. Picks(f, V, s, I)
  BY <1>5, <1>6 DEF More, Picks
<1> QED
  BY <1>14, <1>15

LEMMA PickedType ==
  ASSUME NEW V, NEW s \in Seq(V), NEW I
  PROVE  Picked(s, I) \in Seq(V)
<1>1. PICK f : Picks(f, V, s, I) /\ Picked(s, I) = f[Len(s)]
  BY PickIs
<1>2. Len(s) \in 0..Len(s)
  BY LenProperties
<1> QED
  BY <1>1, <1>2 DEF Picks

\* What is picked takes no more room.
LEMMA PickedSize ==
  ASSUME NEW s \in Seq(Command), NEW I
  PROVE  SizeOf(Picked(s, I)) <= SizeOf(s)
<1>1. PICK f \in [0..Len(s) -> Nat] :
        /\ SizeOf(s) = f[Len(s)]
        /\ f[0] = 0 /\ \A n \in 1..Len(s) : f[n] = f[n - 1] + s[n].size
  BY SumIs
<1>2. PICK g : Picks(g, Command, s, I) /\ Picked(s, I) = g[Len(s)]
  BY PickIs
<1>3. Len(s) \in Nat
  BY LenProperties
<1> DEFINE T == {n \in 0..Len(s) : SizeOf(g[n]) <= f[n]}
<1>4. 0 \in T
  <2>1. SizeOf(g[0]) = 0
    <3> DEFINE z == [n \in {0} |-> 0]
               e == g[0]
    <3>1. z[0] = 0
      OBVIOUS
    <3>2. e \in Seq(Command) /\ Len(e) = 0 /\ 1..Len(e) = {}
      BY <1>2, <1>3, EmptySeq DEF Picks
    <3>3. SizeOf(e) = z[Len(e)]
      <4> HIDE DEF z, e
      <4> QED
        BY <3>1, <3>2, SizeIs
    <3> QED
      BY <3>1, <3>2, <3>3
  <2> QED
    BY <1>1, <1>3, <2>1
<1>5. ASSUME NEW n \in 0..Len(s), n \in T, n # Len(s) PROVE n + 1 \in T
  <2> DEFINE k == n + 1
  <2>1. k \in 1..Len(s) /\ k \in 0..Len(s) /\ k - 1 = n
    BY <1>3, <1>5
  <2> HIDE DEF k
  <2>2. f[k] = f[n] + s[k].size /\ s[k] \in Command /\ f[n] \in Nat
    BY <1>1, <2>1
  <2>3. s[k].size \in Nat
    BY <2>2 DEF Command
  <2>4. g[n] \in Seq(Command)
    BY <1>2 DEF Picks
  <2>5. SizeOf(g[n]) \in Nat /\ SizeOf(Append(g[n], s[k])) = SizeOf(g[n]) + s[k].size
    BY <2>2, <2>4, SizeType, SizeAppend
  <2>6. g[k] = IF k \in I THEN Append(g[n], s[k]) ELSE g[n]
    BY <1>2, <2>1 DEF Picks
  <2>7. SizeOf(g[n]) <= f[n]
    BY <1>5
  <2>8. SizeOf(g[k]) <= f[k]
    <3>1. CASE k \in I
      <4>1. g[k] = Append(g[n], s[k])
        BY <2>6, <3>1
      <4>2. SizeOf(g[k]) = SizeOf(g[n]) + s[k].size
        BY <2>5, <4>1
      <4> QED
        BY <2>2, <2>3, <2>5, <2>7, <4>2
    <3>2. CASE k \notin I
      <4>1. g[k] = g[n]
        BY <2>6, <3>2
      <4>2. SizeOf(g[k]) = SizeOf(g[n])
        BY <4>1
      <4> QED
        BY <2>2, <2>3, <2>5, <2>7, <4>2
    <3> QED
      BY <3>1, <3>2
  <2>9. k \in T
    BY <2>1, <2>8
  <2> QED
    BY <2>9 DEF k
<1>6. \A n \in 0..Len(s) : n \in T
  <2> HIDE DEF T
  <2> QED
    BY <1>3, <1>4, <1>5, Induced
<1> QED
  BY <1>1, <1>2, <1>3, <1>6

\* The places that are picked of N, in order.
Chosen(N, I) == Picked([i \in 1..N |-> i], I)

Rises(m) == \A j, k \in 1..Len(m) : j < k => m[j] < m[k]
Reads(p, s, m) == Len(p) = Len(m) /\ \A k \in 1..Len(m) : p[k] = s[m[k]]

\* What is picked is read off s at the chosen places, which rise.
LEMMA PickedIs ==
  ASSUME NEW V, NEW s \in Seq(V), NEW I
  PROVE  /\ Chosen(Len(s), I) \in Seq(I \cap (1..Len(s)))
         /\ Rises(Chosen(Len(s), I))
         /\ Reads(Picked(s, I), s, Chosen(Len(s), I))
<1> DEFINE N == Len(s)
           id == [i \in 1..N |-> i]
<1>1. N \in Nat /\ \A n \in 1..N : s[n] \in V
  BY LenProperties
<1>2. id \in Seq(Nat) /\ Len(id) = N /\ \A n \in 1..N : id[n] = n
  BY <1>1, IsASeq, LenProperties
<1>3. PICK f : Picks(f, V, s, I) /\ Picked(s, I) = f[N]
  BY PickIs
<1> HIDE DEF N, id
<1>4. PICK g : Picks(g, Nat, id, I) /\ Picked(id, I) = g[N]
  BY <1>2, PickIs
<1>10. /\ f \in [0..N -> Seq(V)] /\ f[0] = <<>>
       /\ \A n \in 1..N : f[n] = IF n \in I THEN Append(f[n - 1], s[n]) ELSE f[n - 1]
  BY <1>3 DEF Picks, N
<1>11. /\ g \in [0..N -> Seq(Nat)] /\ g[0] = <<>>
       /\ \A n \in 1..N : g[n] = IF n \in I THEN Append(g[n - 1], id[n]) ELSE g[n - 1]
  BY <1>2, <1>4 DEF Picks
<1> DEFINE P(n) == /\ g[n] \in Seq(I \cap (1..n))
                   /\ Rises(g[n])
                   /\ Reads(f[n], s, g[n])
           T == {n \in 0..N : P(n)}
<1>5. 0 \in T
  <2>1. f[0] = <<>> /\ g[0] = <<>> /\ 0 \in 0..N
    BY <1>1, <1>10, <1>11
  <2>2. <<>> \in Seq(I \cap (1..0)) /\ Rises(<<>>) /\ Reads(<<>>, s, <<>>)
    BY EmptySeq DEF Rises, Reads
  <2> QED
    BY <2>1, <2>2, Zenon
<1>6. ASSUME NEW n \in 0..N, n \in T, n # N PROVE n + 1 \in T
  <2> DEFINE k == n + 1
  <2>1. k \in 1..N /\ k \in 0..N /\ k - 1 = n /\ k \notin 1..n /\ n \in Nat /\ 1..n \subseteq 1..k
        /\ \A j \in 1..n : j < k
    BY <1>1, <1>6
  <2> HIDE DEF k
  <2>2. P(n)
    BY <1>6
  <2>3. CASE k \in I
    <3> DEFINE a == f[n]
               m == g[n]
               p == Append(a, s[k])
               q == Append(m, k)
    <3>1. f[k] = p /\ g[k] = q
      BY <1>2, <1>10, <1>11, <2>1, <2>3
    <3>2. a \in Seq(V) /\ m \in Seq(I \cap (1..n)) /\ Rises(m) /\ Reads(a, s, m)
      BY <1>10, <2>2
    <3> HIDE DEF a, m
    <3>3. /\ Len(m) \in Nat /\ Len(a) = Len(m) /\ m \in Seq(I \cap (1..k))
          /\ \A j \in 1..Len(m) : m[j] \in 1..n
      <4>1. Len(m) \in Nat /\ \A j \in 1..Len(m) : m[j] \in I \cap (1..n)
        BY <3>2, LenProperties
      <4>2. m \in Seq(I \cap (1..k))
        BY <3>2, <4>1, <2>1, IsASeq
      <4> QED
        BY <3>2, <4>1, <4>2 DEF Reads
    <3>4. /\ Len(p) = Len(m) + 1 /\ p[Len(m) + 1] = s[k]
          /\ \A j \in 1..Len(m) : p[j] = a[j]
      BY <1>1, <2>1, <3>2, <3>3, AppendProperties
    <3>5. /\ q \in Seq(I \cap (1..k)) /\ Len(q) = Len(m) + 1 /\ q[Len(m) + 1] = k
          /\ \A j \in 1..Len(m) : q[j] = m[j]
      <4>1. k \in I \cap (1..k)
        BY <2>1, <2>3
      <4> QED
        BY <3>3, <4>1, AppendProperties
    <3> HIDE DEF p, q
    <3>6. Rises(q)
      <4>1. SUFFICES ASSUME NEW i \in 1..Len(q), NEW j \in 1..Len(q), i < j
                     PROVE  q[i] < q[j]
        BY DEF Rises
      <4>2. i \in 1..Len(m) /\ q[i] = m[i]
        <5>1. Len(m) \in Nat /\ Len(q) = Len(m) + 1
          BY <3>3, <3>5
        <5>2. i \in 1..Len(m)
          BY <4>1, <5>1
        <5> QED
          BY <3>5, <5>2
      <4>3. CASE j \in 1..Len(m)
        BY <3>2, <3>5, <4>1, <4>2, <4>3 DEF Rises
      <4>4. CASE j \notin 1..Len(m)
        <5>1. j = Len(m) + 1
          BY <3>3, <3>5, <4>4
        <5> QED
          BY <2>1, <3>3, <3>5, <4>2, <5>1
      <4> QED
        BY <4>3, <4>4
    <3>7. Reads(p, s, q)
      <4>1. ASSUME NEW j \in 1..Len(q) PROVE p[j] = s[q[j]]
        <5>1. CASE j \in 1..Len(m)
          BY <3>2, <3>4, <3>5, <5>1 DEF Reads
        <5>2. CASE j \notin 1..Len(m)
          <6>1. j = Len(m) + 1
            BY <3>3, <3>5, <5>2
          <6> QED
            BY <3>4, <3>5, <6>1
        <5> QED
          BY <5>1, <5>2
      <4> QED
        BY <3>4, <3>5, <4>1 DEF Reads
    <3> QED
      BY <2>1, <3>1, <3>5, <3>6, <3>7
  <2>4. CASE k \notin I
    <3>1. f[k] = f[n] /\ g[k] = g[n]
      BY <1>10, <1>11, <2>1, <2>4
    <3> DEFINE m == g[n]
    <3>2. m \in Seq(I \cap (1..n))
      BY <2>2
    <3> HIDE DEF m
    <3>3. m \in Seq(I \cap (1..k))
      <4>1. Len(m) \in Nat /\ \A j \in 1..Len(m) : m[j] \in I \cap (1..n)
        BY <3>2, LenProperties
      <4> QED
        BY <3>2, <4>1, <2>1, IsASeq
    <3>4. g[k] \in Seq(I \cap (1..k))
      BY <3>1, <3>3 DEF m
    <3> QED
      BY <2>1, <2>2, <3>1, <3>4
  <2> QED
    BY <2>3, <2>4
<1>7. \A n \in 0..N : n \in T
  <2> HIDE DEF T
  <2> QED
    BY <1>1, <1>5, <1>6, Induced
<1>8. P(N)
  <2>1. N \in 0..N
    BY <1>1
  <2>2. N \in T
    BY <1>7, <2>1, Zenon
  <2> QED
    BY <2>2, Zenon
<1> QED
  BY <1>3, <1>4, <1>8 DEF Chosen, N, id

-----------------------------------------------------------------------------
(***************************************************************************)
(* Commands                                                                *)
(***************************************************************************)
\* Rounding up gives no less, and a number.
LEMMA RoundUpIs ==
  ASSUME NEW n \in Nat
  PROVE  /\ RoundUp(n, 8) \in Nat /\ RoundUp(n, 8) >= n
         /\ RoundUp(n, Page) \in Nat /\ RoundUp(n, Page) >= n
<1>1. RoundUp(n, 8) \in Nat /\ RoundUp(n, 8) >= n
  BY DEF RoundUp
<1>2. RoundUp(n, Page) \in Nat /\ RoundUp(n, Page) >= n
  BY DEF RoundUp, Page
<1> QED
  BY <1>1, <1>2

LEMMA PathLenIs ==
  ASSUME NEW path \in DOMAIN PathLen
  PROVE  path \in Names /\ PathLen[path] \in Nat
<1>1. path \in Names
  BY PathLengths, Zenon
<1>2. PathLen \in [DOMAIN PathLen -> Nat]
  BY PathLengths, Zenon
<1>3. PathLen[path] \in Nat
  BY <1>2
<1> QED
  BY <1>1, <1>3

LEMMA NoName == "none" \in Names
  BY PathLengths, Zenon

\* What the tools append are commands of kinds that are not marked.
LEMMA NewCommands ==
  ASSUME NEW path \in DOMAIN PathLen
  PROVE  /\ DylibCmd(path) \in Command /\ DylibCmd(path).kind = "load"
         /\ RpathCmd(path) \in Command /\ RpathCmd(path).kind = "rpath"
<1>1. path \in Names /\ PathLen[path] \in Nat
  BY PathLenIs
<1>2. 24 + PathLen[path] \in Nat /\ 12 + PathLen[path] \in Nat
  BY <1>1
<1>3. RoundUp(24 + PathLen[path], 8) \in Nat /\ RoundUp(12 + PathLen[path], 8) \in Nat
  BY <1>2, RoundUpIs
<1> QED
  BY <1>1, <1>3, NoName DEF DylibCmd, RpathCmd, Command, Kinds, OrdinalKinds

IsPlain(c, kind, size) == c \in Command /\ c.kind = kind /\ c.size = size
LEMMA PlainIs ==
  ASSUME NEW kind \in Kinds, NEW size \in Nat
  PROVE  IsPlain(PlainCmd(kind, size), kind, size)
  BY NoName DEF PlainCmd, Command, IsPlain

LEMMA ResizedIs ==
  ASSUME NEW c \in Command, NEW offset \in Nat, NEW path \in DOMAIN PathLen
  PROVE  Resized(c, offset, path) \in Nat
<1>1. PathLen[path] \in Nat
  BY PathLenIs
<1>2. offset + PathLen[path] \in Nat
  BY <1>1
<1>3. RoundUp(offset + PathLen[path], 8) \in Nat /\ c.size \in Nat
  BY <1>2, RoundUpIs DEF Command
<1> QED
  BY <1>3 DEF Resized

\* The first hit is one.
LEMMA MinIs ==
  ASSUME NEW N \in SUBSET Nat, N # {}
  PROVE  Min(N) \in N /\ \A j \in N : Min(N) <= j
<1>1. \E i \in N : \A j \in N : i <= j
  BY LeastExists
<1> QED
  BY <1>1 DEF Min

\* The kinds that no edit of a command makes or touches.
Marked == {"dyld_info", "version_min", "chained", "exports", "upward"}

\* An edit of a command.
Edits(d, c) == d \in Command /\ (d.kind \in Marked \/ c.kind \in Marked => d = c)

\* The first change that matches is one of them, or the command is kept.
LEMMA FirstIs ==
  ASSUME NEW changes \in Seq(Change), NEW c
  PROVE  \/ First(changes, c) \in Change
         \/ First(changes, c).op = "keep"
<1> DEFINE hits == {i \in DOMAIN changes : changes[i].old = c.name}
<1>1. CASE hits = {}
  <2>1. First(changes, c) = [old |-> c.name, op |-> "keep", new |-> "none"]
    BY <1>1, Zenon DEF First
  <2> QED
    BY <2>1
<1>2. CASE hits # {}
  <2>1. hits \in SUBSET Nat
    BY LenProperties
  <2>2. Min(hits) \in hits
    <3> HIDE DEF hits
    <3> QED
      BY <1>2, <2>1, MinIs
  <2>3. changes[Min(hits)] \in Change
    BY <2>2, LenProperties
  <2>4. First(changes, c) = changes[Min(hits)]
    BY <1>2, Zenon DEF First
  <2> QED
    BY <2>3, <2>4
<1> QED
  BY <1>1, <1>2

\* change_dylib edits a command and leaves the marked kinds.
LEMMA ChangedEdits ==
  ASSUME NEW o, IsOrder(o), NEW c \in Command
  PROVE  Edits(Changed(o, c), c)
<1> DEFINE m == Match(o, c)
           offset == IF c.kind = "rpath" THEN 12 ELSE 24
<1>1. CASE c.kind \in {"load", "weak", "reexport", "rpath"}
  <2>1. m \in Change \/ m.op = "keep"
    <3>1. First(o.changes, c) \in Change \/ First(o.changes, c).op = "keep"
      BY FirstIs DEF IsOrder
    <3>2. First(o.rchanges, c) \in Change \/ First(o.rchanges, c).op = "keep"
      BY FirstIs DEF IsOrder
    <3>3. m = First(o.changes, c) \/ m = First(o.rchanges, c)
      BY <1>1, Zenon DEF Match
    <3> QED
      BY <3>1, <3>2, <3>3
  <2> HIDE DEF m
  <2>2. CASE m.op = "change"
    <3> DEFINE size == Resized(c, offset, m.new)
    <3>1. m.new \in DOMAIN PathLen
      BY <2>1, <2>2 DEF Change
    <3>2. m.new \in Names /\ size \in Nat
      <4>1. offset \in Nat
        OBVIOUS
      <4> QED
        BY <3>1, <4>1, PathLenIs, ResizedIs
    <3>3. Changed(o, c) = [c EXCEPT !.name = m.new, !.size = size]
      BY <2>2 DEF Changed, m
    <3> HIDE DEF size
    <3>4. [c EXCEPT !.name = m.new, !.size = size] \in Command
      BY <3>2 DEF Command
    <3>5. [c EXCEPT !.name = m.new, !.size = size].kind = c.kind
      BY DEF Command
    <3> QED
      BY <1>1, <3>3, <3>4, <3>5 DEF Edits, Marked
  <2>3. CASE m.op = "reexport"
    <3>1. Changed(o, c) = [c EXCEPT !.kind = "reexport"]
      BY <2>3 DEF Changed, m
    <3> DEFINE k == "reexport"
    <3>2. k \in Kinds
      BY DEF Kinds, OrdinalKinds
    <3> HIDE DEF k
    <3>3. [c EXCEPT !.kind = k] \in Command
      BY <3>2 DEF Command
    <3>4. [c EXCEPT !.kind = k].kind = k
      BY DEF Command
    <3> QED
      BY <1>1, <3>1, <3>3, <3>4 DEF Edits, Marked, k
  <2>4. CASE m.op \notin {"change", "reexport"}
    <3>1. Changed(o, c) = c
      BY <2>4 DEF Changed, m
    <3> QED
      BY <3>1 DEF Edits
  <2> QED
    BY <2>2, <2>3, <2>4
<1>2. CASE c.kind \notin {"load", "weak", "reexport", "rpath"}
  <2>1. m.op = "keep"
    <3>1. m = [old |-> c.name, op |-> "keep", new |-> "none"]
      BY <1>2, Zenon DEF Match
    <3> QED
      BY <3>1
  <2>2. Changed(o, c) = c
    BY <2>1 DEF Changed
  <2> QED
    BY <2>2 DEF Edits
<1> QED
  BY <1>1, <1>2

LEMMA NewNameIs ==
  ASSUME NEW pairs \in Seq([old : Names, op : {"change"}, new : Names]), NEW c \in Command
  PROVE  NewName(pairs, c) \in Names
<1> DEFINE hits == {i \in DOMAIN pairs : pairs[i].old = c.name}
<1>1. CASE hits = {}
  BY <1>1 DEF NewName, Command
<1>2. CASE hits # {}
  <2>1. hits \in SUBSET Nat
    BY LenProperties
  <2>2. Min(hits) \in hits
    <3> HIDE DEF hits
    <3> QED
      BY <1>2, <2>1, MinIs
  <2>3. pairs[Min(hits)] \in [old : Names, op : {"change"}, new : Names]
    BY <2>2, LenProperties
  <2>4. NewName(pairs, c) = pairs[Min(hits)].new
    BY <1>2, Zenon DEF NewName
  <2> QED
    BY <2>3, <2>4
<1> QED
  BY <1>1, <1>2

\* So does fix_macho.
LEMMA FixedEdits ==
  ASSUME NEW o, IsFixOrder(o), NEW c \in Command
  PROVE  Edits(FixedCmd(o, c), c) /\ FixedCmd(o, c).size = c.size
<1>1. NewName(o.changes, c) \in Names /\ NewName(o.renames, c) \in Names
  <2>1. NewName(o.changes, c) \in Names
    BY NewNameIs DEF IsFixOrder
  <2>2. NewName(o.renames, c) \in Names
    BY NewNameIs DEF IsFixOrder
  <2> QED
    BY <2>1, <2>2
<1>2. CASE c.kind = "segment" /\ NewName(o.renames, c) # c.name
  <2> DEFINE n == NewName(o.renames, c)
  <2>1. FixedCmd(o, c) = [c EXCEPT !.name = n, !.sect = n]
    <3>1. ~Pathed(c)
      BY <1>2 DEF Pathed
    <3>2. FixedCmd(o, c) = Renamed(c, n)
      BY <1>2, <3>1, Zenon DEF FixedCmd
    <3> QED
      BY <3>2 DEF Renamed
  <2>2. n \in Names
    BY <1>1
  <2> HIDE DEF n
  <2>3. [c EXCEPT !.name = n, !.sect = n] \in Command
    BY <2>2 DEF Command
  <2>4. [c EXCEPT !.name = n, !.sect = n].kind = c.kind
    BY DEF Command
  <2>5. [c EXCEPT !.name = n, !.sect = n].size = c.size
    BY DEF Command
  <2> QED
    BY <1>2, <2>1, <2>3, <2>4, <2>5 DEF Edits, Marked
<1>3. CASE ~(c.kind = "segment" /\ NewName(o.renames, c) # c.name) /\ Pathed(c)
  <2> DEFINE n == NewName(o.changes, c)
  <2>1. FixedCmd(o, c) = [c EXCEPT !.name = n]
    BY <1>3, Zenon DEF FixedCmd
  <2>2. n \in Names
    BY <1>1
  <2> HIDE DEF n
  <2>3. [c EXCEPT !.name = n] \in Command
    BY <2>2 DEF Command
  <2>4. [c EXCEPT !.name = n].kind = c.kind
    BY DEF Command
  <2>5. [c EXCEPT !.name = n].size = c.size
    BY DEF Command
  <2> QED
    BY <1>3, <2>1, <2>3, <2>4, <2>5 DEF Edits, Marked, Pathed
<1>4. CASE ~(c.kind = "segment" /\ NewName(o.renames, c) # c.name) /\ ~Pathed(c)
  <2>1. FixedCmd(o, c) = c
    BY <1>4, Zenon DEF FixedCmd
  <2> QED
    BY <2>1 DEF Edits
<1> QED
  BY <1>2, <1>3, <1>4

\* So does rename_segment.
LEMMA RenamedEdits ==
  ASSUME NEW c \in Command, NEW old, NEW new \in Names
  PROVE  /\ Edits(RenamedSegment(c, old, new), c)
         /\ RenamedSegment(c, old, new).size = c.size
<1>1. CASE c.kind = "segment" /\ c.name = old
  <2>1. RenamedSegment(c, old, new) = [c EXCEPT !.name = new, !.sect = new]
    BY <1>1, Zenon DEF RenamedSegment, Renamed
  <2>3. [c EXCEPT !.name = new, !.sect = new] \in Command
    BY DEF Command
  <2>4. [c EXCEPT !.name = new, !.sect = new].kind = c.kind
    BY DEF Command
  <2>5. [c EXCEPT !.name = new, !.sect = new].size = c.size
    BY DEF Command
  <2> QED
    BY <1>1, <2>1, <2>3, <2>4, <2>5 DEF Edits, Marked
<1>2. CASE ~(c.kind = "segment" /\ c.name = old)
  <2>1. RenamedSegment(c, old, new) = c
    BY <1>2, Zenon DEF RenamedSegment
  <2> QED
    BY <2>1 DEF Edits
<1> QED
  BY <1>1, <1>2

\* So does the copy that dlopen makes.
LEMMA RewrittenEdits ==
  ASSUME NEW c \in Command
  PROVE  /\ Edits(Rewritten(c), c)
         /\ Rewritten(c).kind = c.kind
         /\ Rewritten(c).name = IF NamesLibSystem(c) THEN Wrapper ELSE c.name
<1>1. CASE NamesLibSystem(c)
  <2> DEFINE n == Resized(c, 24, Wrapper)
             d == [c EXCEPT !.name = Wrapper, !.size = n]
  <2>1. Rewritten(c) = d
    BY <1>1, Zenon DEF Rewritten
  <2>2. n \in Nat /\ Wrapper \in Names
    <3>1. Wrapper \in DOMAIN PathLen /\ 24 \in Nat
      BY WrapperPaths
    <3> QED
      BY <3>1, PathLenIs, ResizedIs
  <2> HIDE DEF n
  <2>3. d \in Command
    BY <2>2 DEF Command
  <2>4. d.kind = c.kind
    BY DEF Command
  <2>5. d.name = Wrapper
    BY DEF Command
  <2> HIDE DEF d
  <2> QED
    BY <1>1, <2>1, <2>3, <2>4, <2>5 DEF Edits, Marked, NamesLibSystem
<1>2. CASE ~NamesLibSystem(c)
  <2>1. Rewritten(c) = c
    BY <1>2, Zenon DEF Rewritten
  <2> QED
    BY <1>2, <2>1 DEF Edits
<1> QED
  BY <1>1, <1>2

-----------------------------------------------------------------------------
(***************************************************************************)
(* Lists of commands                                                       *)
(***************************************************************************)
Some(cmds, kind) == \E i \in DOMAIN cmds : cmds[i].kind = kind
NoUpward(cmds) == \A i \in DOMAIN cmds : ~(/\ cmds[i].kind = "upward"
                                           /\ cmds[i].name = LibSystem)

\* p has no more of the marked commands than s.
Leaves(p, s) == /\ p \in Seq(Command)
                /\ \A k \in Marked : /\ AtMostOne(s, k) => AtMostOne(p, k)
                                     /\ Some(p, k) => Some(s, k)
                /\ NoUpward(s) => NoUpward(p)

EditsAll(t, s) == /\ t \in Seq(Command) /\ Len(t) = Len(s)
                  /\ \A i \in 1..Len(s) : Edits(t[i], s[i])

\* Edits of all the commands leave the marked ones.
LEMMA EditedLeaves ==
  ASSUME NEW s \in Seq(Command), NEW t, EditsAll(t, s)
  PROVE  Leaves(t, s)
<1>1. DOMAIN s = 1..Len(s) /\ DOMAIN t = 1..Len(s) /\ t \in Seq(Command)
  BY LenProperties DEF EditsAll
<1>2. \A i \in 1..Len(s) : t[i].kind \in Marked => t[i] = s[i]
  BY DEF EditsAll, Edits
<1>3. ASSUME NEW k \in Marked, AtMostOne(s, k) PROVE AtMostOne(t, k)
  BY <1>1, <1>2, <1>3 DEF AtMostOne
<1>4. ASSUME NEW k \in Marked, Some(t, k) PROVE Some(s, k)
  BY <1>1, <1>2, <1>4 DEF Some
<1>5. ASSUME NoUpward(s) PROVE NoUpward(t)
  <2>1. "upward" \in Marked
    BY DEF Marked
  <2> QED
    BY <1>1, <1>2, <1>5, <2>1 DEF NoUpward
<1> QED
  BY <1>1, <1>3, <1>4, <1>5 DEF Leaves

\* So does taking some of them.
LEMMA PickedLeaves ==
  ASSUME NEW s \in Seq(Command), NEW I
  PROVE  Leaves(Picked(s, I), s)
<1> DEFINE p == Picked(s, I)
           m == Chosen(Len(s), I)
<1>1. /\ p \in Seq(Command) /\ m \in Seq(I \cap (1..Len(s))) /\ Rises(m) /\ Reads(p, s, m)
  BY PickedType, PickedIs
<1> HIDE DEF p, m
<1>2. /\ DOMAIN s = 1..Len(s) /\ DOMAIN p = 1..Len(p) /\ Len(p) = Len(m) /\ Len(m) \in Nat
      /\ \A n \in 1..Len(p) : m[n] \in 1..Len(s) /\ p[n] = s[m[n]]
  <2>1. DOMAIN s = 1..Len(s) /\ DOMAIN p = 1..Len(p) /\ Len(m) \in Nat
    BY <1>1, LenProperties
  <2>2. Len(p) = Len(m) /\ \A n \in 1..Len(p) : p[n] = s[m[n]]
    BY <1>1 DEF Reads
  <2>3. \A n \in 1..Len(m) : m[n] \in I \cap (1..Len(s))
    BY <1>1, LenProperties
  <2> QED
    BY <2>1, <2>2, <2>3
<1>3. ASSUME NEW i \in 1..Len(p), NEW j \in 1..Len(p), m[i] = m[j] PROVE i = j
  <2>1. m[i] \in Nat /\ m[j] \in Nat /\ ~(m[i] < m[j]) /\ ~(m[j] < m[i])
    BY <1>2, <1>3, LenProperties
  <2>2. ~(i < j) /\ ~(j < i)
    BY <1>1, <1>2, <2>1 DEF Rises
  <2> QED
    BY <1>2, <2>2
<1>4. ASSUME NEW k \in Marked, AtMostOne(s, k) PROVE AtMostOne(p, k)
  <2>1. SUFFICES ASSUME NEW i \in DOMAIN p, NEW j \in DOMAIN p,
                        p[i].kind = k, p[j].kind = k
                 PROVE  i = j
    BY DEF AtMostOne
  <2>2. m[i] = m[j]
    BY <1>2, <1>4, <2>1 DEF AtMostOne
  <2> QED
    BY <1>2, <1>3, <2>1, <2>2
<1>5. ASSUME NEW k \in Marked, Some(p, k) PROVE Some(s, k)
  BY <1>2, <1>5 DEF Some
<1>6. ASSUME NoUpward(s) PROVE NoUpward(p)
  BY <1>2, <1>6 DEF NoUpward
<1>7. Leaves(p, s)
  BY <1>1, <1>4, <1>5, <1>6 DEF Leaves
<1> QED
  BY <1>7 DEF p

LEMMA LeavesOn ==
  ASSUME NEW s, NEW t, NEW p, Leaves(t, s), Leaves(p, t)
  PROVE  Leaves(p, s)
  BY DEF Leaves

\* A concatenation has one of a kind if only one part has it, and has a kind if
\* a part has it.
LEMMA JoinedIs ==
  ASSUME NEW a \in Seq(Command), NEW b \in Seq(Command)
  PROVE  /\ a \o b \in Seq(Command)
         /\ \A k : /\ AtMostOne(a, k) /\ AtMostOne(b, k) /\ ~(Some(a, k) /\ Some(b, k))
                        => AtMostOne(a \o b, k)
                   /\ Some(a \o b, k) => Some(a, k) \/ Some(b, k)
         /\ NoUpward(a) /\ NoUpward(b) => NoUpward(a \o b)
<1> DEFINE c == a \o b
<1>1. /\ DOMAIN a = 1..Len(a) /\ DOMAIN b = 1..Len(b) /\ Len(a) \in Nat /\ Len(b) \in Nat
      /\ c \in Seq(Command) /\ DOMAIN c = 1..(Len(a) + Len(b))
      /\ \A i \in 1..(Len(a) + Len(b)) :
            c[i] = IF i <= Len(a) THEN a[i] ELSE b[i - Len(a)]
  <2>1. /\ DOMAIN a = 1..Len(a) /\ DOMAIN b = 1..Len(b) /\ Len(a) \in Nat /\ Len(b) \in Nat
    BY LenProperties
  <2>2. /\ c \in Seq(Command) /\ Len(c) = Len(a) + Len(b)
        /\ \A i \in 1..(Len(a) + Len(b)) :
            c[i] = IF i <= Len(a) THEN a[i] ELSE b[i - Len(a)]
    BY ConcatProperties
  <2> HIDE DEF c
  <2>3. DOMAIN c = 1..Len(c)
    BY <2>2, LenProperties
  <2> QED
    BY <2>1, <2>2, <2>3
<1> HIDE DEF c
<1>2. ASSUME NEW i \in DOMAIN c
      PROVE  \/ i \in DOMAIN a /\ c[i] = a[i]
             \/ /\ i \notin DOMAIN a /\ i - Len(a) \in DOMAIN b /\ c[i] = b[i - Len(a)]
                /\ i = Len(a) + (i - Len(a))
  <2>1. CASE i <= Len(a)
    BY <1>1, <2>1
  <2>2. CASE ~(i <= Len(a))
    <3>1. i - Len(a) \in 1..Len(b) /\ i \notin 1..Len(a) /\ i = Len(a) + (i - Len(a))
      BY <1>1, <2>2
    <3> QED
      BY <1>1, <2>2, <3>1
  <2> QED
    BY <2>1, <2>2
<1>3. ASSUME NEW k, AtMostOne(a, k), AtMostOne(b, k), ~(Some(a, k) /\ Some(b, k))
      PROVE  AtMostOne(c, k)
  <2>1. SUFFICES ASSUME NEW i \in DOMAIN c, NEW j \in DOMAIN c,
                        c[i].kind = k, c[j].kind = k
                 PROVE  i = j
    BY DEF AtMostOne
  <2>2. CASE i \in DOMAIN a /\ c[i] = a[i]
    <3>1. j \in DOMAIN a /\ c[j] = a[j]
      BY <1>2, <1>3, <2>1, <2>2, Zenon DEF Some
    <3> QED
      BY <1>3, <2>1, <2>2, <3>1, Zenon DEF AtMostOne
  <2>3. CASE i \notin DOMAIN a /\ i - Len(a) \in DOMAIN b /\ c[i] = b[i - Len(a)]
    <3>1. j - Len(a) \in DOMAIN b /\ c[j] = b[j - Len(a)]
      BY <1>2, <1>3, <2>1, <2>3, Zenon DEF Some
    <3>2. i - Len(a) = j - Len(a)
      BY <1>3, <2>1, <2>3, <3>1, Zenon DEF AtMostOne
    <3> QED
      BY <1>1, <2>1, <3>2
  <2> QED
    BY <1>2, <2>2, <2>3, Zenon
<1>4. ASSUME NEW k, Some(c, k) PROVE Some(a, k) \/ Some(b, k)
  BY <1>2, <1>4, Zenon DEF Some
<1>5. ASSUME NoUpward(a), NoUpward(b) PROVE NoUpward(c)
  BY <1>2, <1>5, Zenon DEF NoUpward
<1>6. \A k : /\ AtMostOne(a, k) /\ AtMostOne(b, k) /\ ~(Some(a, k) /\ Some(b, k))
                  => AtMostOne(c, k)
             /\ Some(c, k) => Some(a, k) \/ Some(b, k)
  BY <1>3, <1>4, Zenon
<1> QED
  BY <1>1, <1>5, <1>6, Zenon DEF c

\* Commands of a kind that is not marked.
LEMMA FreshIs ==
  ASSUME NEW paths \in Seq(DOMAIN PathLen)
  PROVE  /\ DylibCmds(paths) \in Seq(Command) /\ RpathCmds(paths) \in Seq(Command)
         /\ \A k \in Marked : /\ ~Some(DylibCmds(paths), k) /\ ~Some(RpathCmds(paths), k)
                              /\ AtMostOne(DylibCmds(paths), k)
                              /\ AtMostOne(RpathCmds(paths), k)
         /\ NoUpward(DylibCmds(paths)) /\ NoUpward(RpathCmds(paths))
<1> DEFINE d == DylibCmds(paths)
           r == RpathCmds(paths)
<1>1. Len(paths) \in Nat /\ DOMAIN paths = 1..Len(paths)
  BY LenProperties
<1>2. \A i \in 1..Len(paths) : paths[i] \in DOMAIN PathLen
  OBVIOUS
<1>3. d = [i \in 1..Len(paths) |-> DylibCmd(paths[i])]
  BY <1>1 DEF DylibCmds
<1>4. r = [i \in 1..Len(paths) |-> RpathCmd(paths[i])]
  BY <1>1 DEF RpathCmds
<1>5. \A i \in 1..Len(paths) : /\ DylibCmd(paths[i]) \in Command
                               /\ DylibCmd(paths[i]).kind = "load"
                               /\ RpathCmd(paths[i]) \in Command
                               /\ RpathCmd(paths[i]).kind = "rpath"
  BY <1>2, NewCommands
<1>6. d \in Seq(Command) /\ r \in Seq(Command)
  <2> HIDE DEF d, r
  <2>1. d \in [1..Len(paths) -> Command] /\ r \in [1..Len(paths) -> Command]
    BY <1>3, <1>4, <1>5
  <2> QED
    BY <1>1, <2>1, IsASeq
<1>7. /\ \A i \in DOMAIN d : d[i].kind = "load"
      /\ \A i \in DOMAIN r : r[i].kind = "rpath"
  BY <1>3, <1>4, <1>5
<1>8. "load" \notin Marked /\ "rpath" \notin Marked /\ "upward" \in Marked
  BY DEF Marked
<1> HIDE DEF d, r
<1>9. ASSUME NEW k \in Marked PROVE ~Some(d, k) /\ ~Some(r, k)
  BY <1>7, <1>8 DEF Some
<1>10. ASSUME NEW k \in Marked PROVE AtMostOne(d, k) /\ AtMostOne(r, k)
  BY <1>7, <1>8 DEF AtMostOne
<1>11. NoUpward(d) /\ NoUpward(r)
  BY <1>7, <1>8 DEF NoUpward
<1> QED
  BY <1>6, <1>9, <1>10, <1>11 DEF d, r

LEMMA EditedIs ==
  ASSUME NEW o, IsOrder(o), NEW s \in Seq(Command)
  PROVE  Leaves(Edited(o, s), s)
<1> DEFINE t == [i \in DOMAIN s |-> Changed(o, s[i])]
           I == {i \in DOMAIN s : Stays(o, s[i])}
<1>1. Len(s) \in Nat /\ DOMAIN s = 1..Len(s) /\ \A i \in 1..Len(s) : s[i] \in Command
  BY LenProperties
<1>2. \A i \in 1..Len(s) : Edits(Changed(o, s[i]), s[i])
  BY <1>1, ChangedEdits
<1>3. t \in [1..Len(s) -> Command]
  BY <1>1, <1>2 DEF Edits
<1>4. t \in Seq(Command) /\ Len(t) = Len(s)
  <2> HIDE DEF t
  <2> QED
    BY <1>1, <1>3, IsASeq, LenProperties
<1>5. EditsAll(t, s)
  BY <1>1, <1>2, <1>4 DEF EditsAll
<1>6. Edited(o, s) = Picked(t, I)
  BY DEF Edited
<1> HIDE DEF t, I
<1>7. Leaves(t, s) /\ Leaves(Picked(t, I), t)
  BY <1>4, <1>5, EditedLeaves, PickedLeaves
<1>8. Leaves(Picked(t, I), s)
  BY <1>7, LeavesOn
<1> QED
  BY <1>6, <1>8

\* The front and the back of a list.
LEMMA CutIn ==
  ASSUME NEW s \in Seq(Command), NEW n \in 0..Len(s)
  PROVE  LET a == SubSeq(s, 1, n)
             b == SubSeq(s, n + 1, Len(s))
         IN  /\ a \in Seq(Command) /\ b \in Seq(Command)
             /\ \A k : /\ Some(a, k) => Some(s, k)
                       /\ Some(b, k) => Some(s, k)
                       /\ AtMostOne(s, k) => /\ AtMostOne(a, k) /\ AtMostOne(b, k)
                                             /\ ~(Some(a, k) /\ Some(b, k))
             /\ NoUpward(s) => NoUpward(a) /\ NoUpward(b)
<1> DEFINE a == SubSeq(s, 1, n)
           b == SubSeq(s, n + 1, Len(s))
<1>1. Len(s) \in Nat /\ DOMAIN s = 1..Len(s) /\ n \in Nat /\ n <= Len(s)
  BY LenProperties
<1>2. /\ a \in Seq(Command) /\ Len(a) = n /\ \A i \in 1..n : a[i] = s[i]
  <2>1. \A i \in 1..n : s[i] \in Command
    BY <1>1
  <2>2. a \in Seq(Command) /\ Len(a) = IF 1 <= n THEN n - 1 + 1 ELSE 0
    BY <1>1, <2>1, SubSeqProperties
  <2>3. \A i \in 1..n : a[i] = s[i]
    BY <1>1, <2>1, SubSeqProperties
  <2> QED
    BY <1>1, <2>2, <2>3
<1>3. /\ b \in Seq(Command) /\ Len(b) = Len(s) - n /\ \A i \in 1..(Len(s) - n) : b[i] = s[n + i]
  <2>1. \A i \in (n + 1)..Len(s) : s[i] \in Command
    BY <1>1
  <2>2. b \in Seq(Command)
    BY <1>1, <2>1, SubSeqProperties
  <2>6. Len(b) = IF n + 1 <= Len(s) THEN Len(s) - (n + 1) + 1 ELSE 0
    BY <1>1, <2>1, SubSeqProperties
  <2>3. \A i \in 1..(Len(s) - (n + 1) + 1) : b[i] = s[n + 1 + i - 1]
    BY <1>1, <2>1, SubSeqProperties
  <2> HIDE DEF b
  <2>4. Len(b) = Len(s) - n
    <3> DEFINE x == Len(b)
               y == Len(s)
    <3>1. x = (IF n + 1 <= y THEN y - (n + 1) + 1 ELSE 0) /\ y \in Nat /\ n \in Nat /\ n <= y
      BY <1>1, <2>6, Zenon
    <3> HIDE DEF x, y
    <3>2. x = y - n
      BY <3>1
    <3> QED
      BY <3>2 DEF x, y
  <2>5. ASSUME NEW i \in 1..(Len(s) - n) PROVE b[i] = s[n + i]
    <3>1. i \in 1..(Len(s) - (n + 1) + 1) /\ n + 1 + i - 1 = n + i
      BY <1>1
    <3> QED
      BY <2>3, <3>1
  <2> QED
    BY <2>2, <2>4, <2>5
<1> HIDE DEF a, b
<1>4. DOMAIN a = 1..n /\ DOMAIN b = 1..(Len(s) - n)
  BY <1>2, <1>3, LenProperties
<1>5. /\ \A i \in DOMAIN a : i \in DOMAIN s /\ i <= n /\ a[i] = s[i]
      /\ \A i \in DOMAIN b : n + i \in DOMAIN s /\ ~(n + i <= n) /\ b[i] = s[n + i]
      /\ \A i, j \in DOMAIN b : n + i = n + j => i = j
  BY <1>1, <1>2, <1>3, <1>4
<1>6. ASSUME NEW k
      PROVE  /\ Some(a, k) => Some(s, k)
             /\ Some(b, k) => Some(s, k)
  BY <1>5, Zenon DEF Some
<1>7. ASSUME NEW k, AtMostOne(s, k)
      PROVE  AtMostOne(a, k) /\ AtMostOne(b, k) /\ ~(Some(a, k) /\ Some(b, k))
  <2>1. AtMostOne(a, k)
    BY <1>5, <1>7, Zenon DEF AtMostOne
  <2>2. AtMostOne(b, k)
    BY <1>5, <1>7, Zenon DEF AtMostOne
  <2>3. ~(Some(a, k) /\ Some(b, k))
    <3>1. SUFFICES ASSUME NEW i \in DOMAIN a, NEW j \in DOMAIN b, a[i].kind = k, b[j].kind = k
                   PROVE  FALSE
      BY Zenon DEF Some
    <3>2. i = n + j
      BY <1>5, <1>7, <3>1, Zenon DEF AtMostOne
    <3>3. i <= n /\ ~(n + j <= n)
      BY <1>5, <3>1, Zenon
    <3> QED
      BY <3>2, <3>3, Zenon
  <2> QED
    BY <2>1, <2>2, <2>3
<1>8. ASSUME NoUpward(s) PROVE NoUpward(a) /\ NoUpward(b)
  BY <1>5, <1>8, Zenon DEF NoUpward
<1> QED
  BY <1>2, <1>3, <1>6, <1>7, <1>8, Zenon DEF a, b

Fresh(f) == /\ f \in Seq(Command) /\ NoUpward(f)
            /\ \A k \in Marked : ~Some(f, k) /\ AtMostOne(f, k)

LEMMA FreshLeaves ==
  ASSUME NEW a, NEW s, Leaves(a, s), NEW f, Fresh(f)
  PROVE  Leaves(a \o f, s)
<1> DEFINE c == a \o f
<1>1. a \in Seq(Command) /\ f \in Seq(Command)
  BY DEF Leaves, Fresh
<1>2. /\ c \in Seq(Command)
      /\ \A k : /\ AtMostOne(a, k) /\ AtMostOne(f, k) /\ ~(Some(a, k) /\ Some(f, k))
                        => AtMostOne(c, k)
                /\ Some(c, k) => Some(a, k) \/ Some(f, k)
      /\ NoUpward(a) /\ NoUpward(f) => NoUpward(c)
  BY <1>1, JoinedIs, Zenon
<1> HIDE DEF c
<1>3. Leaves(c, s)
  BY <1>2, Zenon DEF Leaves, Fresh
<1> QED
  BY <1>3 DEF c

LEMMA HalvesLeave ==
  ASSUME NEW s \in Seq(Command), NEW n \in 0..Len(s), NEW a, NEW b,
         Leaves(a, SubSeq(s, 1, n)), Leaves(b, SubSeq(s, n + 1, Len(s)))
  PROVE  Leaves(a \o b, s)
<1> DEFINE c == a \o b
           u == SubSeq(s, 1, n)
           v == SubSeq(s, n + 1, Len(s))
<1>1. a \in Seq(Command) /\ b \in Seq(Command)
  BY DEF Leaves
<1>2. /\ c \in Seq(Command)
      /\ \A k : /\ AtMostOne(a, k) /\ AtMostOne(b, k) /\ ~(Some(a, k) /\ Some(b, k))
                        => AtMostOne(c, k)
                /\ Some(c, k) => Some(a, k) \/ Some(b, k)
      /\ NoUpward(a) /\ NoUpward(b) => NoUpward(c)
  BY <1>1, JoinedIs, Zenon
<1>3. /\ \A k : /\ Some(u, k) => Some(s, k)
                /\ Some(v, k) => Some(s, k)
                /\ AtMostOne(s, k) => /\ AtMostOne(u, k) /\ AtMostOne(v, k)
                                      /\ ~(Some(u, k) /\ Some(v, k))
      /\ NoUpward(s) => NoUpward(u) /\ NoUpward(v)
  BY CutIn, Zenon
<1>4. Leaves(a, u) /\ Leaves(b, v)
  OBVIOUS
<1> HIDE DEF c, u, v
<1>5. ASSUME NEW k \in Marked
      PROVE  /\ AtMostOne(s, k) => AtMostOne(c, k)
             /\ Some(c, k) => Some(s, k)
  BY <1>2, <1>3, <1>4, Zenon DEF Leaves
<1>6. NoUpward(s) => NoUpward(c)
  BY <1>2, <1>3, <1>4, Zenon DEF Leaves
<1>7. Leaves(c, s)
  BY <1>2, <1>5, <1>6, Zenon DEF Leaves
<1> QED
  BY <1>7 DEF c

\* What change_dylib builds has no more marked commands than the image.
LEMMA BuildLeaves ==
  ASSUME NEW img, img.cmds \in Seq(Command), NEW o, IsOrder(o)
  PROVE  Leaves(BuildLcs(img, o), img.cmds)
<1> DEFINE s == img.cmds
           dylibs == {i \in DOMAIN s : IsOrdinal(s[i])}
           cut == IF dylibs = {} THEN Len(s) ELSE Min(dylibs) - 1
           a == SubSeq(s, 1, cut)
           b == SubSeq(s, cut + 1, Len(s))
           c == Edited(o, a) \o DylibCmds(o.inserts)
           d == c \o Edited(o, b)
           e == d \o DylibCmds(o.adds)
<1>1. Len(s) \in Nat /\ DOMAIN s = 1..Len(s)
  BY LenProperties
<1>2. cut \in 0..Len(s)
  <2>1. CASE dylibs = {}
    BY <1>1, <2>1
  <2>2. CASE dylibs # {}
    <3>1. dylibs \in SUBSET Nat
      BY <1>1
    <3>2. Min(dylibs) \in dylibs
      <4> HIDE DEF dylibs
      <4> QED
        BY <2>2, <3>1, MinIs
    <3>3. Min(dylibs) \in 1..Len(s)
      BY <1>1, <3>2
    <3> QED
      BY <1>1, <2>2, <3>3
  <2> QED
    BY <2>1, <2>2
<1>3. BuildLcs(img, o) = e \o RpathCmds(o.radds)
  BY Zenon DEF BuildLcs
<1>4. Fresh(DylibCmds(o.inserts)) /\ Fresh(DylibCmds(o.adds)) /\ Fresh(RpathCmds(o.radds))
  <2>1. /\ o.inserts \in Seq(DOMAIN PathLen) /\ o.adds \in Seq(DOMAIN PathLen)
        /\ o.radds \in Seq(DOMAIN PathLen)
    BY DEF IsOrder
  <2> QED
    BY <2>1, FreshIs, Zenon DEF Fresh
<1> HIDE DEF cut
<1>5. a \in Seq(Command) /\ b \in Seq(Command)
  BY <1>2, CutIn, Zenon
<1>6. Leaves(Edited(o, a), a) /\ Leaves(Edited(o, b), b)
  <2> HIDE DEF a, b
  <2> QED
    BY <1>5, EditedIs
<1>7. Leaves(c, a)
  BY <1>4, <1>6, FreshLeaves, Zenon
<1>8. Leaves(d, s)
  <2> HIDE DEF c, s
  <2> QED
    BY <1>2, <1>6, <1>7, HalvesLeave, Zenon DEF s
<1>9. Leaves(e, s)
  BY <1>4, <1>8, FreshLeaves, Zenon
<1>10. Leaves(e \o RpathCmds(o.radds), s)
  BY <1>4, <1>9, FreshLeaves, Zenon
<1> QED
  BY <1>3, <1>10, Zenon

-----------------------------------------------------------------------------
(***************************************************************************)
(* Images                                                                  *)
(***************************************************************************)
LEMMA Parts ==
  ASSUME NEW img, WellFormed(img)
  PROVE  /\ img.cmds \in Seq(Command) /\ img.first \in Nat /\ img.size \in Nat
         /\ img.linkedit \in Nat /\ img.linkedit >= img.size
         /\ SizeOf(img.cmds) \in Nat
         /\ HeaderSize + SizeOf(img.cmds) <= img.first
         /\ NoUpward(img.cmds)
         /\ DOMAIN img = Fields
<1>1. /\ img.cmds \in Seq(Command) /\ img.first \in Nat /\ img.size \in Nat
      /\ img.linkedit \in Nat /\ DOMAIN img = Fields
  BY DEF WellFormed, IsImage
<1>2. SizeOf(img.cmds) \in Nat
  BY <1>1, SizeType
<1>3. HeaderSize + SizeOf(img.cmds) <= img.first /\ img.linkedit >= img.size
  BY DEF WellFormed, Roomed, End
<1>4. NoUpward(img.cmds)
  BY Zenon DEF WellFormed, NoUpward
<1> QED
  BY <1>1, <1>2, <1>3, <1>4

\* An image with no more of the marked commands, and room for those it has.
LEMMA StaysWellFormed ==
  ASSUME NEW img, WellFormed(img), NEW new, DOMAIN new = Fields,
         {new.first, new.size, new.linkedit} \subseteq Nat, new.linkedit >= new.size,
         Leaves(new.cmds, img.cmds), HeaderSize + SizeOf(new.cmds) <= new.first
  PROVE  WellFormed(new)
<1>1. new.cmds \in Seq(Command)
  BY DEF Leaves
<1>2. IsImage(new)
  BY <1>1 DEF IsImage
<1>3. Roomed(new)
  BY DEF Roomed, End
<1>4. {"dyld_info", "version_min", "chained", "exports"} \subseteq Marked
  BY DEF Marked
<1>5. Single(new)
  <2>1. \A k \in Marked : /\ AtMostOne(img.cmds, k) => AtMostOne(new.cmds, k)
                          /\ Has(new, k) => Has(img, k)
    BY Zenon DEF Leaves, Some, Has
  <2>2. /\ \A k \in {"dyld_info", "version_min", "chained"} : AtMostOne(img.cmds, k)
        /\ Has(img, "dyld_info") => ~Has(img, "chained") /\ ~Has(img, "exports")
    BY Zenon DEF WellFormed, Single
  <2>3. ASSUME NEW k \in {"dyld_info", "version_min", "chained"}
        PROVE  AtMostOne(new.cmds, k)
    <3>1. k \in Marked
      BY <1>4
    <3> QED
      BY <2>1, <2>2, <3>1, Zenon
  <2>4. Has(new, "dyld_info") => ~Has(new, "chained") /\ ~Has(new, "exports")
    <3>1. "dyld_info" \in Marked /\ "chained" \in Marked /\ "exports" \in Marked
      BY DEF Marked
    <3> QED
      BY <2>1, <2>2, <3>1, Zenon
  <2> QED
    BY <2>3, <2>4, Zenon DEF Single
<1>6. NoUpward(new.cmds)
  BY Parts DEF Leaves
<1> QED
  BY <1>2, <1>3, <1>5, <1>6, Zenon DEF WellFormed, NoUpward

Rebuilt(img, cmds) == [img EXCEPT !.cmds = cmds]

LEMMA RebuiltIs ==
  ASSUME NEW img, DOMAIN img = Fields, NEW cmds
  PROVE  /\ DOMAIN Rebuilt(img, cmds) = Fields
         /\ Rebuilt(img, cmds).cmds = cmds
         /\ Rebuilt(img, cmds).first = img.first
         /\ Rebuilt(img, cmds).size = img.size
         /\ Rebuilt(img, cmds).linkedit = img.linkedit
<1> DEFINE new == [img EXCEPT !.cmds = cmds]
<1>1. DOMAIN new = Fields
  OBVIOUS
<1>2. new.cmds = cmds
  BY DEF Fields
<1>3. new.first = img.first
  BY DEF Fields
<1>4. new.size = img.size
  BY DEF Fields
<1>5. new.linkedit = img.linkedit
  BY DEF Fields
<1> QED
  BY <1>1, <1>2, <1>3, <1>4, <1>5, Zenon DEF Rebuilt

\* New commands that leave the marked ones and fit.
LEMMA RebuiltWellFormed ==
  ASSUME NEW img, WellFormed(img), NEW cmds, Leaves(cmds, img.cmds),
         HeaderSize + SizeOf(cmds) <= img.first
  PROVE  WellFormed(Rebuilt(img, cmds))
<1> DEFINE new == Rebuilt(img, cmds)
<1>1. /\ img.first \in Nat /\ img.size \in Nat /\ img.linkedit \in Nat
      /\ img.linkedit >= img.size /\ DOMAIN img = Fields
  BY Parts
<1>2. /\ DOMAIN new = Fields /\ new.cmds = cmds /\ new.first = img.first
      /\ new.size = img.size /\ new.linkedit = img.linkedit
  BY <1>1, RebuiltIs, Zenon
<1> HIDE DEF new
<1>3. WellFormed(new)
  BY <1>1, <1>2, StaysWellFormed
<1> QED
  BY <1>3 DEF new

LEMMA LeavesItself ==
  ASSUME NEW s \in Seq(Command)
  PROVE  Leaves(s, s)
  BY DEF Leaves

\* Growing the header makes room and changes no command.
LEMMA GrownIs ==
  ASSUME NEW img, WellFormed(img), NEW grow \in Nat
  PROVE  /\ WellFormed(Grown(img, grow))
         /\ Grown(img, grow).cmds = img.cmds
         /\ Grown(img, grow).first = img.first + grow
<1> DEFINE new == Grown(img, grow)
<1>1. /\ img.first \in Nat /\ img.size \in Nat /\ img.linkedit \in Nat
      /\ img.linkedit >= img.size /\ DOMAIN img = Fields
      /\ img.cmds \in Seq(Command) /\ SizeOf(img.cmds) \in Nat
      /\ HeaderSize + SizeOf(img.cmds) <= img.first
  BY Parts
<1>2. DOMAIN new = Fields
  BY <1>1, Zenon DEF Grown
<1>3. new.cmds = img.cmds
  BY <1>1 DEF Grown, Fields
<1>4. new.first = Bump(img.first, img.first, grow)
  BY <1>1 DEF Grown, Fields
<1>5. new.size = img.size + grow
  BY <1>1 DEF Grown, Fields
<1>6. new.linkedit = img.linkedit + grow
  BY <1>1 DEF Grown, Fields
<1> HIDE DEF new
<1>7. new.first = img.first + grow
  BY <1>1, <1>4 DEF Bump
<1>8. Leaves(new.cmds, img.cmds)
  BY <1>1, <1>3, LeavesItself
<1>9. {new.first, new.size, new.linkedit} \subseteq Nat /\ new.linkedit >= new.size
  <2>1. new.first \in Nat
    BY <1>1, <1>7
  <2>2. new.size \in Nat
    BY <1>1, <1>5
  <2>3. new.linkedit \in Nat
    BY <1>1, <1>6
  <2>4. new.linkedit >= new.size
    BY <1>1, <1>5, <1>6
  <2> QED
    BY <2>1, <2>2, <2>3, <2>4
<1>10. HeaderSize + SizeOf(new.cmds) <= new.first
  BY <1>1, <1>3, <1>7 DEF HeaderSize
<1>11. WellFormed(new)
  BY <1>2, <1>8, <1>9, <1>10, StaysWellFormed
<1> QED
  BY <1>3, <1>7, <1>11 DEF new

-----------------------------------------------------------------------------
(***************************************************************************)
(* The tools                                                               *)
(***************************************************************************)
\* What a tool makes is well formed.
Answers(r) == r.ok => WellFormed(r.img)

LEMMA Refuses == Answers(Refused)
  BY DEF Answers, Refused

LEMMA DoneIs ==
  ASSUME NEW img
  PROVE  /\ Done(img).ok /\ Done(img).img = img
         /\ WellFormed(img) => Answers(Done(img))
<1>1. Done(img).ok
  BY DEF Done
<1>2. Done(img).img = img
  BY DEF Done
<1> QED
  BY <1>1, <1>2, Zenon DEF Answers

LEMMA SameBuild ==
  ASSUME NEW img, NEW o, NEW x, x.cmds = img.cmds
  PROVE  BuildLcs(x, o) = BuildLcs(img, o) /\ NeedEnd(x, o) = NeedEnd(img, o)
<1>1. BuildLcs(x, o) = BuildLcs(img, o)
  BY Zenon DEF BuildLcs
<1> QED
  BY <1>1, Zenon DEF NeedEnd

\* The image with room has it.
LEMMA RoomyIs ==
  ASSUME NEW img, WellFormed(img), NEW o, IsOrder(o), Roomy(img, o).ok
  PROVE  LET x == Roomy(img, o).img
         IN  WellFormed(x) /\ x.cmds = img.cmds /\ NeedEnd(x, o) <= x.first
<1> DEFINE x == Roomy(img, o).img
           need == NeedEnd(img, o)
           grow == RoundUp(need - img.first, Page)
<1>1. img.first \in Nat /\ img.cmds \in Seq(Command)
  BY Parts
<1>2. need \in Nat
  <2>1. BuildLcs(img, o) \in Seq(Command)
    BY <1>1, BuildLeaves DEF Leaves
  <2>2. SizeOf(BuildLcs(img, o)) \in Nat
    BY <2>1, SizeType
  <2> QED
    BY <2>2 DEF NeedEnd, HeaderSize
<1>3. CASE need <= img.first
  <2>1. Roomy(img, o) = Done(img)
    BY <1>3, Zenon DEF Roomy
  <2>2. x = img
    BY <2>1, DoneIs, Zenon
  <2> QED
    BY <1>3, <2>2, Zenon
<1>4. CASE ~(need <= img.first)
  <2>1. Roomy(img, o) \in {Done(Grown(img, grow)), Refused}
    BY <1>4, Zenon DEF Roomy, GrowHeader
  <2>2. Roomy(img, o) # Refused
    BY DEF Refused
  <2>3. x = Grown(img, grow)
    BY <2>1, <2>2, DoneIs, Zenon
  <2>4. need - img.first \in Nat
    BY <1>1, <1>2, <1>4
  <2>5. grow \in Nat /\ grow >= need - img.first
    BY <2>4, RoundUpIs
  <2> HIDE DEF grow, x, need
  <2>6. WellFormed(x) /\ x.cmds = img.cmds /\ x.first = img.first + grow
    BY <2>3, <2>5, GrownIs
  <2>7. need <= x.first
    BY <1>1, <1>2, <2>5, <2>6
  <2>8. NeedEnd(x, o) = need
    BY <2>6, SameBuild, Zenon DEF need
  <2> QED
    BY <2>6, <2>7, <2>8, Zenon DEF x
<1> QED
  BY <1>3, <1>4

\* Renumbering the ordinals touches no command.
LEMMA RenumberedIs ==
  ASSUME NEW img, WellFormed(img), NEW map
  PROVE  WellFormed(Renumbered(img, map))
<1> DEFINE new == Renumbered(img, map)
<1>1. /\ img.cmds \in Seq(Command) /\ img.first \in Nat /\ img.size \in Nat
      /\ img.linkedit \in Nat /\ img.linkedit >= img.size
      /\ HeaderSize + SizeOf(img.cmds) <= img.first /\ DOMAIN img = Fields
  BY Parts
<1>2. DOMAIN new = Fields
  BY <1>1, Zenon DEF Renumbered
<1>3. new.cmds = img.cmds
  BY <1>1 DEF Renumbered, Fields
<1>4. new.first = img.first
  BY <1>1 DEF Renumbered, Fields
<1>5. new.size = img.size
  BY <1>1 DEF Renumbered, Fields
<1>6. new.linkedit = img.linkedit
  BY <1>1 DEF Renumbered, Fields
<1> HIDE DEF new
<1>7. Leaves(new.cmds, img.cmds)
  BY <1>1, <1>3, LeavesItself
<1>8. WellFormed(new)
  BY <1>1, <1>2, <1>3, <1>4, <1>5, <1>6, <1>7, StaysWellFormed
<1> QED
  BY <1>8 DEF new

\* change_dylib.
LEMMA ChangeDylibAnswers ==
  ASSUME NEW img, WellFormed(img), NEW o, IsOrder(o)
  PROVE  Answers(ChangeDylib(img, o))
<1> DEFINE room == Roomy(img, o)
           x == room.img
           new == Rebuilt(x, BuildLcs(x, o))
           map == OrdMap(x, o)
<1>1. CASE room.ok /\ ChangeDylib(img, o) = Committed(x, o)
  <2>1. WellFormed(x) /\ NeedEnd(x, o) <= x.first
    BY <1>1, RoomyIs, Zenon
  <2> HIDE DEF room, x
  <2>2. Leaves(BuildLcs(x, o), x.cmds)
    BY <2>1, Parts, BuildLeaves
  <2>3. WellFormed(new)
    BY <2>1, <2>2, RebuiltWellFormed, Zenon DEF NeedEnd
  <2>4. WellFormed(Renumbered(new, map))
    <3> HIDE DEF new, map
    <3> QED
      BY <2>3, RenumberedIs
  <2>5. Committed(x, o) \in {RenumberOrdinals(new, map), Done(new)}
    BY Zenon DEF Committed, Rebuilt
  <2>6. RenumberOrdinals(new, map) \in {Refused, Done(new), Done(Renumbered(new, map))}
    <3> HIDE DEF new, map
    <3> QED
      BY Zenon DEF RenumberOrdinals
  <2> HIDE DEF new, map
  <2>7. Answers(Refused) /\ Answers(Done(new)) /\ Answers(Done(Renumbered(new, map)))
    BY <2>3, <2>4, Refuses, DoneIs, Zenon
  <2> QED
    BY <1>1, <2>5, <2>6, <2>7, Zenon
<1>2. CASE ChangeDylib(img, o) = Refused
  BY <1>2, Refuses, Zenon
<1>3. CASE ChangeDylib(img, o) = Done(img)
  BY <1>3, DoneIs, Zenon
<1> QED
  <2>1. \/ room.ok /\ ChangeDylib(img, o) = Committed(x, o)
        \/ ChangeDylib(img, o) = Refused
        \/ ChangeDylib(img, o) = Done(img)
    BY Zenon DEF ChangeDylib
  <2> QED
    BY <1>1, <1>2, <1>3, <2>1, Zenon

\* t has the commands of s and c.
Adds(t, s, c) == /\ t \in Seq(Command)
                 /\ \A k : /\ AtMostOne(s, k) /\ (c.kind = k => ~Some(s, k))
                                => AtMostOne(t, k)
                           /\ Some(t, k) => Some(s, k) \/ c.kind = k
                 /\ NoUpward(s) /\ c.kind # "upward" => NoUpward(t)

LEMMA AppendedIs ==
  ASSUME NEW s \in Seq(Command), NEW c \in Command
  PROVE  Adds(Append(s, c), s, c)
<1> DEFINE t == Append(s, c)
           n == Len(s)
<1>1. /\ n \in Nat /\ DOMAIN s = 1..n /\ t \in Seq(Command) /\ Len(t) = n + 1
      /\ \A i \in 1..n : t[i] = s[i]
      /\ t[n + 1] = c
  BY LenProperties, AppendProperties
<1> HIDE DEF t, n
<1>2. DOMAIN t = 1..(n + 1)
  BY <1>1, LenProperties
<1>3. \A i \in DOMAIN t : \/ i \in DOMAIN s /\ t[i] = s[i]
                          \/ i = n + 1 /\ t[i] = c
  BY <1>1, <1>2
<1>4. ASSUME NEW k, AtMostOne(s, k), c.kind = k => ~Some(s, k) PROVE AtMostOne(t, k)
  <2>1. SUFFICES ASSUME NEW i \in DOMAIN t, NEW j \in DOMAIN t, t[i].kind = k, t[j].kind = k
                 PROVE  i = j
    BY DEF AtMostOne
  <2> QED
    BY <1>3, <1>4, <2>1, Zenon DEF AtMostOne, Some
<1>5. ASSUME NEW k, Some(t, k) PROVE Some(s, k) \/ c.kind = k
  BY <1>3, <1>5, Zenon DEF Some
<1>6. ASSUME NoUpward(s), c.kind # "upward" PROVE NoUpward(t)
  BY <1>3, <1>6, Zenon DEF NoUpward
<1> QED
  BY <1>1, <1>4, <1>5, <1>6, Zenon DEF Adds, t

LEMMA WithoutIs ==
  ASSUME NEW s \in Seq(Command), NEW kinds
  PROVE  /\ Leaves(Without(s, kinds), s)
         /\ \A k \in kinds : ~Some(Without(s, kinds), k)
<1> DEFINE I == {i \in DOMAIN s : s[i].kind \notin kinds}
           p == Picked(s, I)
           m == Chosen(Len(s), I)
<1>1. Without(s, kinds) = p
  BY DEF Without
<1>2. /\ p \in Seq(Command) /\ m \in Seq(I \cap (1..Len(s))) /\ Reads(p, s, m)
  <2> HIDE DEF I
  <2> QED
    BY PickedType, PickedIs
<1>3. Leaves(p, s)
  <2> HIDE DEF I
  <2> QED
    BY PickedLeaves
<1> HIDE DEF p, m
<1>4. ASSUME NEW n \in DOMAIN p PROVE p[n].kind \notin kinds
  <2>1. n \in 1..Len(m) /\ p[n] = s[m[n]]
    BY <1>2, LenProperties DEF Reads
  <2>2. m[n] \in I
    <3> HIDE DEF I
    <3> QED
      BY <1>2, <2>1, LenProperties
  <2> QED
    BY <2>1, <2>2
<1> QED
  BY <1>1, <1>3, <1>4, Zenon DEF Some

LEMMA WellFormedIs ==
  ASSUME NEW new, DOMAIN new = Fields, new.cmds \in Seq(Command),
         {new.first, new.size, new.linkedit} \subseteq Nat, new.linkedit >= new.size,
         HeaderSize + SizeOf(new.cmds) <= new.first, NoUpward(new.cmds),
         \A k \in {"dyld_info", "version_min", "chained"} : AtMostOne(new.cmds, k),
         Some(new.cmds, "dyld_info")
            => ~Some(new.cmds, "chained") /\ ~Some(new.cmds, "exports")
  PROVE  WellFormed(new)
<1>1. IsImage(new)
  BY DEF IsImage
<1>2. Roomed(new)
  BY DEF Roomed, End
<1>3. Single(new)
  BY Zenon DEF Single, Has, Some
<1> QED
  BY <1>1, <1>2, <1>3, Zenon DEF WellFormed, NoUpward

LEMMA OneOf ==
  ASSUME NEW img, WellFormed(img)
  PROVE  /\ \A k \in {"dyld_info", "version_min", "chained"} : AtMostOne(img.cmds, k)
         /\ Some(img.cmds, "dyld_info")
                => ~Some(img.cmds, "chained") /\ ~Some(img.cmds, "exports")
  BY Zenon DEF WellFormed, Single, Has, Some

\* A command added to some of those that were there.
LEMMA AddedWellFormed ==
  ASSUME NEW img, WellFormed(img), NEW s, Leaves(s, img.cmds),
         NEW c \in Command, NEW new, DOMAIN new = Fields, new.cmds = Append(s, c),
         {new.first, new.size, new.linkedit} \subseteq Nat, new.linkedit >= new.size,
         HeaderSize + SizeOf(s) + c.size <= new.first,
         c.kind \in {"dyld_info", "version_min"}, ~Some(s, c.kind),
         c.kind = "dyld_info" => ~Some(s, "chained") /\ ~Some(s, "exports")
  PROVE  WellFormed(new)
<1>1. s \in Seq(Command)
  BY DEF Leaves
<1>2. /\ SizeOf(s) \in Nat /\ c.size \in Nat
      /\ SizeOf(new.cmds) = SizeOf(s) + c.size
  BY <1>1, SizeType, SizeAppend DEF Command
<1>3. HeaderSize + SizeOf(new.cmds) <= new.first
  BY <1>2 DEF HeaderSize
<1>4. /\ new.cmds \in Seq(Command)
      /\ \A k : /\ AtMostOne(s, k) /\ (c.kind = k => ~Some(s, k))
                     => AtMostOne(new.cmds, k)
                /\ Some(new.cmds, k) => Some(s, k) \/ c.kind = k
      /\ NoUpward(s) /\ c.kind # "upward" => NoUpward(new.cmds)
  <2>1. Adds(new.cmds, s, c)
    BY <1>1, AppendedIs, Zenon
  <2> QED
    BY <2>1, Zenon DEF Adds
<1>5. "dyld_info" \in Marked /\ "version_min" \in Marked /\ "chained" \in Marked
      /\ "exports" \in Marked
  BY DEF Marked
<1>6. /\ \A k \in {"dyld_info", "version_min", "chained"} : AtMostOne(s, k)
      /\ Some(s, "dyld_info") => ~Some(s, "chained") /\ ~Some(s, "exports")
      /\ NoUpward(s)
  <2>1. NoUpward(s)
    BY Parts, Zenon DEF Leaves
  <2>2. \A k \in {"dyld_info", "version_min", "chained"} : AtMostOne(s, k)
    BY <1>5, OneOf, Zenon DEF Leaves
  <2>3. Some(s, "dyld_info") => ~Some(s, "chained") /\ ~Some(s, "exports")
    BY <1>5, OneOf, Zenon DEF Leaves
  <2> QED
    BY <2>1, <2>2, <2>3
<1>7. \A k \in {"dyld_info", "version_min", "chained"} : AtMostOne(new.cmds, k)
  BY <1>4, <1>6, Zenon
<1>8. c.kind # "upward" /\ c.kind # "chained" /\ c.kind # "exports"
  OBVIOUS
<1>9. NoUpward(new.cmds)
  BY <1>4, <1>6, <1>8, Zenon
<1>10. Some(new.cmds, "dyld_info") => ~Some(new.cmds, "chained") /\ ~Some(new.cmds, "exports")
  BY <1>4, <1>6, <1>8, Zenon
<1> QED
  BY <1>3, <1>4, <1>7, <1>9, <1>10, WellFormedIs

\* patch_macho: what is converted had no LC_DYLD_INFO before.
LEMMA PatchAnswers ==
  ASSUME NEW img, WellFormed(img), NEW appended \in Nat
  PROVE  Answers(Patch(img, appended))
<1> DEFINE new == Converted(img, appended)
           s == Without(img.cmds, Newer)
           c == PlainCmd("dyld_info", InfoSize)
           size == RoundUp(img.size, 8) + appended
<1>1. CASE Has(img, "chained") /\ Fits(img) /\ Patch(img, appended) = Done(new)
  <2>1. /\ img.cmds \in Seq(Command) /\ img.first \in Nat /\ img.size \in Nat
        /\ img.linkedit \in Nat /\ DOMAIN img = Fields
    BY Parts
  <2>2. DOMAIN new = Fields
    BY <2>1, Zenon DEF Converted
  <2>3. new.cmds = Append(s, c)
    BY <2>1 DEF Converted, Fields
  <2>4. new.first = img.first
    BY <2>1 DEF Converted, Fields
  <2>5. new.size = size
    BY <2>1 DEF Converted, Fields
  <2>6. new.linkedit = IF size > img.linkedit THEN size ELSE img.linkedit
    BY <2>1 DEF Converted, Fields
  <2>7. c \in Command /\ c.kind = "dyld_info" /\ c.size = InfoSize
    <3>1. "dyld_info" \in Kinds /\ InfoSize \in Nat
      BY DEF Kinds, InfoSize
    <3> QED
      BY <3>1, PlainIs, Zenon DEF IsPlain
  <2>8. RoundUp(img.size, 8) \in Nat /\ size \in Nat
    <3>1. RoundUp(img.size, 8) \in Nat
      BY <2>1, RoundUpIs
    <3> QED
      BY <3>1
  <2>9. Leaves(s, img.cmds) /\ \A k \in Newer : ~Some(s, k)
    BY <2>1, WithoutIs, Zenon
  <2>10. ~Some(s, "chained") /\ ~Some(s, "exports")
    <3>1. "chained" \in Newer /\ "exports" \in Newer
      BY DEF Newer
    <3> QED
      BY <2>9, <3>1, Zenon
  <2>11. ~Some(s, "dyld_info")
    <3>1. "dyld_info" \in Marked
      BY DEF Marked
    <3>2. Some(img.cmds, "chained")
      BY <1>1, Zenon DEF Has, Some
    <3> QED
      BY <2>9, <3>1, <3>2, OneOf, Zenon DEF Leaves
  <2>12. HeaderSize + SizeOf(s) + c.size <= new.first
    BY <1>1, <2>4, <2>7 DEF Fits
  <2> HIDE DEF new, s, c, size
  <2>13. {new.first, new.size, new.linkedit} \subseteq Nat /\ new.linkedit >= new.size
    <3>1. new.linkedit \in Nat /\ new.linkedit >= new.size
      BY <2>1, <2>5, <2>6, <2>8
    <3> QED
      BY <2>1, <2>4, <2>5, <2>8, <3>1
  <2>14. WellFormed(new)
    BY <2>2, <2>3, <2>7, <2>9, <2>10, <2>11, <2>12, <2>13, AddedWellFormed
  <2> QED
    BY <1>1, <2>14, DoneIs, Zenon
<1>2. CASE Patch(img, appended) = Done(img)
  BY <1>2, DoneIs, Zenon
<1>3. CASE Patch(img, appended) = Refused
  BY <1>3, Refuses, Zenon
<1> QED
  <2>1. \/ Has(img, "chained") /\ Fits(img) /\ Patch(img, appended) = Done(new)
        \/ Patch(img, appended) = Done(img)
        \/ Patch(img, appended) = Refused
    BY Zenon DEF Patch
  <2> QED
    BY <1>1, <1>2, <1>3, <2>1, Zenon

\* add_version_min: the command is added only where there is none.
LEMMA AddVersionMinAnswers ==
  ASSUME NEW img, WellFormed(img)
  PROVE  Answers(AddVersionMin(img))
<1> DEFINE s == img.cmds
           c == PlainCmd("version_min", 16)
           new == Rebuilt(img, Append(s, c))
<1>1. CASE /\ ~Has(img, "version_min") /\ ~(End(img) + 16 > img.first)
           /\ AddVersionMin(img) = Done(new)
  <2>1. /\ s \in Seq(Command) /\ img.first \in Nat /\ img.size \in Nat
        /\ img.linkedit \in Nat /\ img.linkedit >= img.size
        /\ DOMAIN img = Fields /\ SizeOf(s) \in Nat
    BY Parts
  <2>2. /\ DOMAIN new = Fields /\ new.cmds = Append(s, c) /\ new.first = img.first
        /\ new.size = img.size /\ new.linkedit = img.linkedit
    BY <2>1, RebuiltIs, Zenon
  <2>3. c \in Command /\ c.kind = "version_min" /\ c.size = 16
    <3>1. "version_min" \in Kinds /\ 16 \in Nat
      BY DEF Kinds
    <3> QED
      BY <3>1, PlainIs, Zenon DEF IsPlain
  <2>4. HeaderSize + SizeOf(s) + 16 <= img.first
    BY <1>1, <2>1 DEF End, HeaderSize
  <2>5. ~Some(s, "version_min")
    BY <1>1, Zenon DEF Has, Some
  <2>6. Leaves(s, img.cmds)
    BY <2>1, LeavesItself
  <2> HIDE DEF new, c, s
  <2>7. HeaderSize + SizeOf(s) + c.size <= new.first
    BY <2>2, <2>3, <2>4
  <2>8. {new.first, new.size, new.linkedit} \subseteq Nat /\ new.linkedit >= new.size
    BY <2>1, <2>2
  <2>9. WellFormed(new)
    BY <2>2, <2>3, <2>5, <2>6, <2>7, <2>8, AddedWellFormed
  <2> QED
    BY <1>1, <2>9, DoneIs, Zenon
<1>2. CASE AddVersionMin(img) = Done(img)
  BY <1>2, DoneIs, Zenon
<1>3. CASE AddVersionMin(img) = Refused
  BY <1>3, Refuses, Zenon
<1> QED
  <2>1. \/ /\ ~Has(img, "version_min") /\ ~(End(img) + 16 > img.first)
           /\ AddVersionMin(img) = Done(new)
        \/ AddVersionMin(img) = Done(img)
        \/ AddVersionMin(img) = Refused
    BY Zenon DEF AddVersionMin, Rebuilt
  <2> QED
    BY <1>1, <1>2, <1>3, <2>1, Zenon

\* Commands edited where they are, their sizes kept.
LEMMA SameRoom ==
  ASSUME NEW img, WellFormed(img), NEW t, EditsAll(t, img.cmds),
         \A i \in 1..Len(t) : t[i].size = img.cmds[i].size
  PROVE  WellFormed(Rebuilt(img, t)) /\ SizeOf(t) = SizeOf(img.cmds)
<1>1. /\ img.cmds \in Seq(Command) /\ HeaderSize + SizeOf(img.cmds) <= img.first
  BY Parts
<1>2. Leaves(t, img.cmds)
  BY <1>1, EditedLeaves
<1>3. SizeOf(t) = SizeOf(img.cmds)
  <2> DEFINE s == img.cmds
  <2>1. s \in Seq(Command) /\ t \in Seq(Command) /\ Len(t) = Len(s)
        /\ \A i \in 1..Len(t) : t[i].size = s[i].size
    BY <1>1 DEF EditsAll
  <2> HIDE DEF s
  <2>2. SizeOf(t) = SizeOf(s)
    BY <2>1, SameSize
  <2> QED
    BY <2>2 DEF s
<1>4. WellFormed(Rebuilt(img, t))
  BY <1>1, <1>2, <1>3, RebuiltWellFormed, Zenon
<1> QED
  BY <1>3, <1>4

\* rename_segment.
LEMMA RenameAnswers ==
  ASSUME NEW img, WellFormed(img), NEW old, NEW new \in Names
  PROVE  Answers(RenameSegment(img, old, new))
<1> DEFINE s == img.cmds
           t == [i \in DOMAIN s |-> RenamedSegment(s[i], old, new)]
<1>1. s \in Seq(Command) /\ Len(s) \in Nat /\ DOMAIN s = 1..Len(s)
      /\ \A i \in 1..Len(s) : s[i] \in Command
  BY Parts, LenProperties
<1>2. \A i \in 1..Len(s) : /\ Edits(RenamedSegment(s[i], old, new), s[i])
                           /\ RenamedSegment(s[i], old, new).size = s[i].size
  BY <1>1, RenamedEdits
<1>3. RenameSegment(img, old, new) \in {Done(Rebuilt(img, t)), Refused}
  BY Zenon DEF RenameSegment, Rebuilt
<1> HIDE DEF s
<1>4. t \in [1..Len(s) -> Command] /\ \A i \in 1..Len(s) : t[i] = RenamedSegment(s[i], old, new)
  BY <1>1, <1>2 DEF Edits
<1> HIDE DEF t
<1>5. t \in Seq(Command) /\ Len(t) = Len(s)
  BY <1>1, <1>4, IsASeq, LenProperties
<1>6. EditsAll(t, s) /\ \A i \in 1..Len(t) : t[i].size = s[i].size
  BY <1>2, <1>4, <1>5 DEF EditsAll
<1>7. WellFormed(Rebuilt(img, t))
  BY <1>6, SameRoom, Zenon DEF s
<1>8. Answers(Done(Rebuilt(img, t))) /\ Answers(Refused)
  BY <1>7, DoneIs, Refuses, Zenon
<1> QED
  BY <1>3, <1>8, Zenon

\* fix_macho.
LEMMA FixAnswers ==
  ASSUME NEW img, WellFormed(img), NEW o, IsFixOrder(o)
  PROVE  Answers(Fix(img, o))
<1> DEFINE s == img.cmds
           seen == Visited(img, o.strip)
           gone == {i \in seen : o.strip /\ img.cmds[i].kind = "build_version"}
           t == [i \in DOMAIN s |-> IF i \in seen THEN FixedCmd(o, s[i]) ELSE s[i]]
           p == Picked(t, DOMAIN t \ gone)
<1>1. s \in Seq(Command) /\ Len(s) \in Nat /\ DOMAIN s = 1..Len(s)
      /\ \A i \in 1..Len(s) : s[i] \in Command
  BY Parts, LenProperties
<1>2. Fix(img, o) \in {Done(Rebuilt(img, p)), Refused}
  BY Zenon DEF Fix, Rebuilt
<1> HIDE DEF s, seen
<1>3. ASSUME NEW i \in 1..Len(s)
      PROVE  t[i] \in Command /\ Edits(t[i], s[i]) /\ t[i].size = s[i].size
  <2>1. s[i] \in Command /\ i \in DOMAIN s
    BY <1>1
  <2>2. Edits(FixedCmd(o, s[i]), s[i]) /\ FixedCmd(o, s[i]).size = s[i].size
    BY <2>1, FixedEdits
  <2>3. t[i] \in {FixedCmd(o, s[i]), s[i]}
    BY <2>1
  <2>4. Edits(s[i], s[i])
    BY <2>1 DEF Edits
  <2> HIDE DEF t
  <2>5. Edits(t[i], s[i]) /\ t[i].size = s[i].size
    BY <2>2, <2>3, <2>4
  <2> QED
    BY <2>5 DEF Edits
<1>4. t \in Seq(Command) /\ Len(t) = Len(s)
  <2>1. t = [i \in 1..Len(s) |-> t[i]]
    BY <1>1
  <2> HIDE DEF t
  <2>2. t \in [1..Len(s) -> Command]
    BY <1>3, <2>1
  <2> QED
    BY <1>1, <2>2, IsASeq, LenProperties
<1> HIDE DEF t, gone
<1>5. EditsAll(t, s) /\ \A i \in 1..Len(t) : t[i].size = s[i].size
  BY <1>3, <1>4 DEF EditsAll
<1>6. Leaves(t, s) /\ Leaves(p, t)
  BY <1>1, <1>4, <1>5, EditedLeaves, PickedLeaves
<1>7. Leaves(p, s)
  BY <1>6, LeavesOn
<1>8. HeaderSize + SizeOf(p) <= img.first
  <2>1. SizeOf(t) = SizeOf(s)
    BY <1>5, SameRoom, Zenon DEF s
  <2>2. SizeOf(p) <= SizeOf(t) /\ SizeOf(p) \in Nat
    <3>1. SizeOf(p) <= SizeOf(t)
      BY <1>4, PickedSize
    <3>2. p \in Seq(Command)
      BY <1>7 DEF Leaves
    <3> QED
      BY <3>1, <3>2, SizeType
  <2>3. HeaderSize + SizeOf(s) <= img.first /\ SizeOf(s) \in Nat /\ img.first \in Nat
    BY Parts DEF s
  <2> HIDE DEF p
  <2> QED
    BY <2>1, <2>2, <2>3 DEF HeaderSize
<1>9. WellFormed(Rebuilt(img, p))
  <2> HIDE DEF p
  <2> QED
    BY <1>7, <1>8, RebuiltWellFormed, Zenon DEF s
<1>10. Answers(Done(Rebuilt(img, p))) /\ Answers(Refused)
  BY <1>9, DoneIs, Refuses, Zenon
<1> QED
  BY <1>2, <1>10, Zenon

\* retag_swift_classes.
LEMMA RetagAnswers ==
  ASSUME NEW img, WellFormed(img)
  PROVE  Answers(Retag(img))
<1> DEFINE new == [img EXCEPT !.tags = [cl \in DOMAIN @ |->
                        IF @[cl] = "stable" THEN "legacy" ELSE @[cl]]]
<1>1. /\ img.cmds \in Seq(Command) /\ img.first \in Nat /\ img.size \in Nat
      /\ img.linkedit \in Nat /\ img.linkedit >= img.size
      /\ HeaderSize + SizeOf(img.cmds) <= img.first /\ DOMAIN img = Fields
  BY Parts
<1>2. DOMAIN new = Fields
  BY <1>1, Zenon
<1>3. new.cmds = img.cmds
  BY <1>1 DEF Fields
<1>4. new.first = img.first
  BY <1>1 DEF Fields
<1>5. new.size = img.size
  BY <1>1 DEF Fields
<1>6. new.linkedit = img.linkedit
  BY <1>1 DEF Fields
<1>9. Retag(img) = Done(new)
  BY Zenon DEF Retag
<1> HIDE DEF new
<1>7. Leaves(new.cmds, img.cmds)
  BY <1>1, <1>3, LeavesItself
<1>8. WellFormed(new)
  BY <1>1, <1>2, <1>3, <1>4, <1>5, <1>6, <1>7, StaysWellFormed
<1> QED
  BY <1>8, <1>9, DoneIs, Zenon

-----------------------------------------------------------------------------
(***************************************************************************)
(* The library that is opened                                              *)
(***************************************************************************)
LEMMA RewriteIs ==
  ASSUME NEW img, DOMAIN img = Fields, NEW f \in Fields \ {"cmds"}
  PROVE  /\ Rewrite(img)[f] = img[f]
         /\ Rewrite(img).cmds = [i \in DOMAIN img.cmds |-> Rewritten(img.cmds[i])]
<1>1. Rewrite(img)[f] = img[f]
  BY DEF Rewrite
<1>2. Rewrite(img).cmds = [i \in DOMAIN img.cmds |-> Rewritten(img.cmds[i])]
  BY DEF Rewrite, Fields
<1> QED
  BY <1>1, <1>2

\* The fields that a copy shares with its image.
LEMMA RewriteKeeps ==
  ASSUME NEW img, DOMAIN img = Fields
  PROVE  LET x == Rewrite(img)
         IN  /\ x.first = img.first /\ x.base = img.base /\ x.twolevel = img.twolevel
             /\ x.at = img.at /\ x.field = img.field /\ x.starts = img.starts
             /\ x.inits = img.inits /\ x.exports = img.exports /\ x.format = img.format
             /\ x.ptr = img.ptr /\ x.imports = img.imports /\ x.rebases = img.rebases
             /\ x.binds = img.binds /\ x.wide = img.wide /\ x.relative = img.relative
<1> DEFINE x == Rewrite(img)
<1>1. \A f \in Fields \ {"cmds"} : x[f] = img[f]
  BY RewriteIs, Zenon
<1>2. {"first", "base", "twolevel", "at", "field", "starts", "inits", "exports", "format",
       "ptr", "imports", "rebases", "binds", "wide", "relative"} \subseteq Fields \ {"cmds"}
  BY DEF Fields
<1> HIDE DEF x
<1> QED
  BY <1>1, <1>2 DEF x

-----------------------------------------------------------------------------
(***************************************************************************)
(* The invariant                                                           *)
(***************************************************************************)
\* What was opened is the file, or a copy of it; a copy fits unless libraries
\* with less than a header's room to spare may be opened.
Copied == opened # <<>> => \/ opened = file
                           \/ /\ opened = Rewrite(file)
                              /\ "copy" \notin Uses => End(opened) <= opened.first

IInv == WellFormed(file) /\ Copied

LEMMA UseKeeps ==
  ASSUME IInv, NEW r, Answers(r), Use(r)
  PROVE  IInv'
<1>1. WellFormed(file')
  BY Zenon DEF IInv, Use, Answers
<1>2. opened' = <<>>
  BY Zenon DEF Use
<1>3. Copied'
  BY <1>2, Zenon DEF Copied
<1> QED
  BY <1>1, <1>3, Zenon DEF IInv

LEMMA OpenKeeps ==
  ASSUME IInv, Open
  PROVE  IInv'
<1>1. WellFormed(file) /\ file' = file
  BY Zenon DEF IInv, Open
<1>2. CASE opened' = file
  BY <1>1, <1>2, Zenon DEF IInv, Copied
<1>3. CASE ~file.execute /\ opened' = Rewrite(file) /\ CopyFits(file)
  <2> DEFINE x == Rewrite(file)
  <2>1. x.first = file.first /\ DOMAIN file = Fields /\ file.first \in Nat
    BY <1>1, Parts, RewriteKeeps, Zenon
  <2>2. x.cmds \in Seq(Command)
    <3> DEFINE s == file.cmds
               t == [i \in DOMAIN s |-> Rewritten(s[i])]
    <3>1. s \in Seq(Command) /\ Len(s) \in Nat /\ DOMAIN s = 1..Len(s)
          /\ \A i \in 1..Len(s) : s[i] \in Command
      BY <1>1, Parts, LenProperties
    <3> HIDE DEF s
    <3>2. \A i \in 1..Len(s) : Rewritten(s[i]) \in Command
      BY <3>1, RewrittenEdits DEF Edits
    <3>3. t \in [1..Len(s) -> Command]
      BY <3>1, <3>2
    <3>4. t \in Seq(Command)
      <4> HIDE DEF t
      <4> QED
        BY <3>1, <3>3, IsASeq
    <3>5. "first" \in Fields \ {"cmds"}
      BY DEF Fields
    <3>6. x.cmds = t
      BY <2>1, <3>5, RewriteIs, Zenon DEF s
    <3> QED
      BY <3>4, <3>6
  <2>3. SizeOf(x.cmds) \in Nat
    <3> HIDE DEF x
    <3> QED
      BY <2>2, SizeType
  <2>4. ASSUME "copy" \notin Uses PROVE End(x) <= x.first
    <3>1. ~InHeaderWindow(file)
      BY <1>3, <2>4, Zenon DEF Open
    <3>2. ~(End(x) > file.first)
      BY <1>3, <3>1, Zenon DEF InHeaderWindow
    <3>3. End(x) \in Nat
      BY <2>3 DEF End, HeaderSize
    <3> HIDE DEF x
    <3> QED
      BY <2>1, <3>2, <3>3
  <2>5. Copied'
    BY <1>1, <1>3, <2>4, Zenon DEF Copied, End
  <2> QED
    BY <1>1, <2>5, Zenon DEF IInv
<1> QED
  <2>1. opened' = file \/ (~file.execute /\ opened' = Rewrite(file) /\ CopyFits(file))
    BY Zenon DEF Open, Opened
  <2> QED
    BY <1>2, <1>3, <2>1, Zenon

LEMMA InitIs ==
  ASSUME Init
  PROVE  IInv
<1>1. WellFormed(file)
  BY PipelineInputs, Zenon DEF Init
<1>2. opened = <<>>
  BY Zenon DEF Init
<1> QED
  BY <1>1, <1>2, Zenon DEF IInv, Copied

LEMMA NextKeeps ==
  ASSUME IInv, [Next]_vars
  PROVE  IInv'
<1>0. WellFormed(file)
  BY Zenon DEF IInv
<1>1. ASSUME NEW o \in Orders, EditDylibs(o) PROVE IInv'
  <2>1. IsOrder(o)
    BY PipelineInputs, Zenon
  <2>2. Answers(ChangeDylib(file, o))
    BY <1>0, <2>1, ChangeDylibAnswers, Zenon
  <2> QED
    BY <1>1, <2>2, UseKeeps, Zenon DEF EditDylibs
<1>2. CASE ConvertFixups
  <2>1. Answers(Patch(file, Opcodes))
    BY <1>0, PipelineConstants, PatchAnswers, Zenon
  <2> QED
    BY <1>2, <2>1, UseKeeps, Zenon DEF ConvertFixups
<1>3. ASSUME NEW o \in FixOrders, FixFile(o) PROVE IInv'
  <2>1. IsFixOrder(o)
    BY PipelineInputs, Zenon
  <2>2. Answers(Fix(file, o))
    BY <1>0, <2>1, FixAnswers, Zenon
  <2> QED
    BY <1>3, <2>2, UseKeeps, Zenon DEF FixFile
<1>4. ASSUME NEW r \in Renames, Rename(r) PROVE IInv'
  <2>1. r.new \in Names
    BY PipelineInputs, Zenon
  <2>2. Answers(RenameSegment(file, r.old, r.new))
    BY <1>0, <2>1, RenameAnswers, Zenon
  <2> QED
    BY <1>4, <2>2, UseKeeps, Zenon DEF Rename
<1>5. CASE DeclareVersion
  <2>1. Answers(AddVersionMin(file))
    BY <1>0, AddVersionMinAnswers, Zenon
  <2> QED
    BY <1>5, <2>1, UseKeeps, Zenon DEF DeclareVersion
<1>6. CASE RetagClasses
  <2>1. Answers(Retag(file))
    BY <1>0, RetagAnswers, Zenon
  <2> QED
    BY <1>6, <2>1, UseKeeps, Zenon DEF RetagClasses
<1>7. CASE Open
  BY <1>7, OpenKeeps, Zenon
<1>8. CASE UNCHANGED vars
  BY <1>8, Zenon DEF vars, IInv, Copied
<1> QED
  BY <1>1, <1>2, <1>3, <1>4, <1>5, <1>6, <1>7, <1>8, Zenon DEF Next

\* Whatever tools are used and in whatever order, the file is one that a linker
\* might have made, and the library that is opened is it or its copy.
THEOREM Invariant == Spec => []IInv
<1>1. Init => IInv
  BY InitIs, Zenon
<1>2. IInv /\ [Next]_vars => IInv'
  BY NextKeeps, Zenon
<1> QED
  BY <1>1, <1>2, PTL DEF Spec

\* No tool lets the load commands reach into the first section, or asks the
\* loader for bytes that no segment covers, and no copy does, where libraries
\* with less than a header's room to spare are not opened.
THEOREM RoomKept == "copy" \notin Uses => (Spec => []SectionsIntact)
<1>1. ASSUME "copy" \notin Uses PROVE IInv => SectionsIntact
  <2>1. ASSUME IInv PROVE SectionsIntact
    <3>1. Roomed(file)
      BY <2>1, Zenon DEF IInv, WellFormed
    <3>2. ASSUME opened # <<>> PROVE End(opened) <= opened.first
      BY <1>1, <2>1, <3>1, <3>2, Zenon DEF IInv, Copied, Roomed
    <3> QED
      BY <3>1, <3>2, Zenon DEF SectionsIntact
  <2> QED
    BY <2>1
<1>2. ASSUME "copy" \notin Uses PROVE Spec => []SectionsIntact
  BY <1>1, <1>2, Invariant, PTL
<1> QED
  BY <1>2

\* Whatever is done with the tools and in whatever order, each kind of
\* information keeps one command, in one of the two forms.
THEOREM OneKept == Spec => []OneOfEach
<1>1. IInv => OneOfEach
  BY Zenon DEF IInv, WellFormed, OneOfEach
<1> QED
  BY <1>1, Invariant, PTL

-----------------------------------------------------------------------------
(***************************************************************************)
(* What a copy means                                                       *)
(***************************************************************************)
\* What the copy calls a library.
Called(n) == IF n = LibSystem THEN Wrapper ELSE n

\* The libraries of a copy are those of the image, renamed.
LEMMA CopiedLibraries ==
  ASSUME NEW img, WellFormed(img)
  PROVE  LET libs == Libraries(img)
             new == Libraries(Rewrite(img))
         IN  /\ \E n \in Nat : DOMAIN libs = 1..n /\ DOMAIN new = 1..n
             /\ \A n \in DOMAIN libs : new[n].name = Called(libs[n].name)
<1> DEFINE x == Rewrite(img)
           s == img.cmds
           t == x.cmds
           libs == Libraries(img)
           new == Libraries(x)
           I == {i \in DOMAIN s : IsOrdinal(s[i])}
           J == {i \in DOMAIN t : IsOrdinal(t[i])}
           m == Chosen(Len(s), I)
<1>1. /\ s \in Seq(Command) /\ Len(s) \in Nat /\ DOMAIN s = 1..Len(s) /\ NoUpward(s)
      /\ \A i \in 1..Len(s) : s[i] \in Command
  BY Parts, LenProperties
<1>2. t = [i \in 1..Len(s) |-> Rewritten(s[i])]
  <2>1. "first" \in Fields \ {"cmds"} /\ DOMAIN img = Fields
    BY Parts DEF Fields
  <2>2. t = [i \in DOMAIN s |-> Rewritten(s[i])]
    BY <2>1, RewriteIs, Zenon
  <2> QED
    BY <1>1, <2>2, Zenon
<1>3. libs = Picked(s, I) /\ new = Picked(t, J)
  BY Zenon DEF Libraries
<1> HIDE DEF s, t
<1>4. \A i \in 1..Len(s) : /\ t[i] = Rewritten(s[i]) /\ t[i] \in Command
                           /\ t[i].kind = s[i].kind
                           /\ t[i].name = IF NamesLibSystem(s[i]) THEN Wrapper ELSE s[i].name
  BY <1>1, <1>2, RewrittenEdits DEF Edits
<1>5. t \in Seq(Command) /\ Len(t) = Len(s)
  <2>1. t \in [1..Len(s) -> Command]
    BY <1>2, <1>4
  <2> QED
    BY <1>1, <2>1, IsASeq, LenProperties
<1>6. J = I
  <2>1. DOMAIN t = DOMAIN s /\ DOMAIN s = 1..Len(s)
    BY <1>1, <1>2
  <2>2. \A i \in DOMAIN s : IsOrdinal(t[i]) <=> IsOrdinal(s[i])
    BY <1>4, <2>1, Zenon DEF IsOrdinal
  <2> QED
    BY <2>1, <2>2
<1> HIDE DEF I, J, libs, new
<1>7. /\ m \in Seq(I \cap (1..Len(s))) /\ Reads(libs, s, m) /\ libs \in Seq(Command)
  BY <1>1, <1>3, PickedIs, PickedType
<1>8. Reads(new, t, m) /\ new \in Seq(Command)
  BY <1>3, <1>5, <1>6, PickedIs, PickedType
<1> HIDE DEF m
<1>9. Len(m) \in Nat /\ DOMAIN libs = 1..Len(m) /\ DOMAIN new = 1..Len(m)
  <2>1. Len(m) \in Nat /\ DOMAIN libs = 1..Len(libs) /\ DOMAIN new = 1..Len(new)
    BY <1>7, <1>8, LenProperties
  <2>2. Len(libs) = Len(m) /\ Len(new) = Len(m)
    BY <1>7, <1>8, Zenon DEF Reads
  <2> QED
    BY <2>1, <2>2
<1>10. ASSUME NEW n \in 1..Len(m) PROVE new[n].name = Called(libs[n].name)
  <2>1. m[n] \in I /\ m[n] \in 1..Len(s)
    BY <1>7, <1>9, LenProperties
  <2>2. libs[n] = s[m[n]] /\ new[n] = t[m[n]]
    BY <1>7, <1>8, <1>10, Zenon DEF Reads
  <2> DEFINE c == s[m[n]]
  <2>3. c.kind \in OrdinalKinds /\ ~(c.kind = "upward" /\ c.name = LibSystem)
    <3>1. IsOrdinal(c) /\ m[n] \in DOMAIN s
      BY <1>1, <2>1 DEF I
    <3> QED
      BY <1>1, <3>1, Zenon DEF IsOrdinal, NoUpward
  <2>4. NamesLibSystem(c) <=> c.name = LibSystem
    <3> HIDE DEF c
    <3> QED
      BY <2>3 DEF NamesLibSystem, OrdinalKinds
  <2>5. t[m[n]].name = IF NamesLibSystem(c) THEN Wrapper ELSE c.name
    BY <1>4, <2>1, Zenon
  <2> QED
    BY <2>2, <2>4, <2>5, Zenon DEF Called
<1> QED
  BY <1>9, <1>10, Zenon DEF libs, new

\* What an ordinal means in a copy.
LEMMA CopiedLibrary ==
  ASSUME NEW img, WellFormed(img), NEW n
  PROVE  Library(Rewrite(img), n) = Called(Library(img, n))
<1> DEFINE x == Rewrite(img)
           libs == Libraries(img)
           new == Libraries(x)
<1>1. PICK k \in Nat : DOMAIN libs = 1..k /\ DOMAIN new = 1..k
  BY CopiedLibraries, Zenon
<1>2. \A i \in DOMAIN libs : new[i].name = Called(libs[i].name)
  BY CopiedLibraries, Zenon
<1>3. x.twolevel = img.twolevel
  BY Parts, RewriteKeeps, Zenon
<1>4. /\ Called("flat") = "flat" /\ Called("self") = "self" /\ Called("main") = "main"
      /\ Called("none") = "none"
  BY PipelineInputs, Zenon DEF Called
<1>5. Library(img, n) = CASE ~img.twolevel \/ n \in {-2, -3} -> "flat"
                         [] img.twolevel /\ n \in DOMAIN libs -> libs[n].name
                         [] img.twolevel /\ n = 0  -> "self"
                         [] img.twolevel /\ n = -1 -> "main"
                         [] OTHER -> "none"
  BY Zenon DEF Library
<1>6. Library(x, n) = CASE ~img.twolevel \/ n \in {-2, -3} -> "flat"
                       [] img.twolevel /\ n \in DOMAIN libs -> new[n].name
                       [] img.twolevel /\ n = 0  -> "self"
                       [] img.twolevel /\ n = -1 -> "main"
                       [] OTHER -> "none"
  <2>1. DOMAIN libs = DOMAIN new
    BY <1>1, Zenon
  <2> QED
    BY <1>3, <2>1, Zenon DEF Library
<1>7. -2 \notin DOMAIN libs /\ -3 \notin DOMAIN libs /\ 0 \notin DOMAIN libs /\ -1 \notin DOMAIN libs
  BY <1>1
<1> DEFINE y == Library(img, n)
           z == Library(x, n)
<1> HIDE DEF libs, new, x, y, z
<1>8. z = Called(y)
  <2>1. CASE ~img.twolevel \/ n \in {-2, -3}
    <3>1. y = "flat" /\ z = "flat"
      BY <1>5, <1>6, <1>7, <2>1 DEF y, z
    <3> QED
      BY <1>4, <3>1, Zenon
  <2>2. CASE img.twolevel /\ n \in DOMAIN libs
    <3>1. ~(n \in {-2, -3}) /\ n # 0 /\ n # -1
      BY <1>7, <2>2
    <3>2. y = libs[n].name /\ z = new[n].name
      BY <1>5, <1>6, <2>2, <3>1 DEF y, z
    <3> QED
      BY <1>2, <2>2, <3>2, Zenon
  <2>3. CASE img.twolevel /\ n = 0
    <3>1. y = "self" /\ z = "self"
      BY <1>5, <1>6, <1>7, <2>3 DEF y, z
    <3> QED
      BY <1>4, <3>1, Zenon
  <2>4. CASE img.twolevel /\ n = -1
    <3>1. y = "main" /\ z = "main"
      BY <1>5, <1>6, <1>7, <2>4 DEF y, z
    <3> QED
      BY <1>4, <3>1, Zenon
  <2>5. CASE /\ ~(~img.twolevel \/ n \in {-2, -3}) /\ ~(img.twolevel /\ n \in DOMAIN libs)
             /\ ~(img.twolevel /\ n = 0) /\ ~(img.twolevel /\ n = -1)
    <3>1. y = "none" /\ z = "none"
      BY <1>5, <1>6, <2>5 DEF y, z
    <3> QED
      BY <1>4, <3>1, Zenon
  <2> QED
    BY <2>1, <2>2, <2>3, <2>4, <2>5, Zenon
<1> QED
  BY <1>8, Zenon DEF x, y, z


\* What a binding means in a copy.
LEMMA CopiedBound ==
  ASSUME NEW img, WellFormed(img), NEW sym, NEW ord, NEW weak, NEW addend
  PROVE  Bound(Rewrite(img), sym, ord, weak, addend)
            = [Bound(img, sym, ord, weak, addend) EXCEPT !.lib = Called(@)]
<1> DEFINE a == Library(img, ord)
           b == Library(Rewrite(img), ord)
           w == weak \/ ord = -3
           p == [lib |-> a, sym |-> sym, weak |-> w, addr |-> addend, mid |-> 0, top |-> 0]
           q == [lib |-> b, sym |-> sym, weak |-> w, addr |-> addend, mid |-> 0, top |-> 0]
<1>1. /\ Bound(img, sym, ord, weak, addend) = p
      /\ Bound(Rewrite(img), sym, ord, weak, addend) = q
  BY Zenon DEF Bound
<1>2. b = Called(a)
  BY CopiedLibrary, Zenon
<1> HIDE DEF a, b, w
<1>3. q = [p EXCEPT !.lib = Called(@)]
  BY <1>2
<1> QED
  BY <1>1, <1>3, Zenon

\* An address stays itself.
LEMMA CopiedAddress ==
  ASSUME NEW a, NEW mid, NEW top
  PROVE  Address(a, mid, top) = [Address(a, mid, top) EXCEPT !.lib = Called(@)]
<1> DEFINE n == "none"
           w == FALSE
           p == [lib |-> n, sym |-> 0, weak |-> w, addr |-> a, mid |-> mid, top |-> top]
<1>1. Called(n) = n
  BY PipelineInputs, Zenon DEF Called
<1>2. Address(a, mid, top) = p
  BY Zenon DEF Address
<1> HIDE DEF n, w
<1>3. p = [p EXCEPT !.lib = Called(@)]
  <2>1. p = [p EXCEPT !.lib = n]
    OBVIOUS
  <2>2. p.lib = n
    OBVIOUS
  <2> HIDE DEF p
  <2> QED
    BY <1>1, <2>1, <2>2, Zenon
<1> QED
  BY <1>2, <1>3, Zenon

\* What a pointer of a copy holds, the library renamed.
LEMMA CopiedPointer ==
  ASSUME NEW img, WellFormed(img), NEW l
  PROVE  Pointer(Rewrite(img), l) = [Pointer(img, l) EXCEPT !.lib = Called(@)]
<1> DEFINE x == Rewrite(img)
           word == img.ptr[l]
           As(p, q) == p = [q EXCEPT !.lib = Called(@)]
<1>1. /\ x.base = img.base /\ x.format = img.format /\ x.ptr = img.ptr
      /\ x.imports = img.imports /\ x.rebases = img.rebases /\ x.binds = img.binds
      /\ x.wide = img.wide
  BY Parts, RewriteKeeps, Zenon
<1>2. Has(x, "chained") <=> Has(img, "chained")
  <2>1. "first" \in Fields \ {"cmds"} /\ DOMAIN img = Fields
    BY Parts DEF Fields
  <2>2. x.cmds = [i \in DOMAIN img.cmds |-> Rewritten(img.cmds[i])]
    BY <2>1, RewriteIs, Zenon
  <2>3. \A i \in DOMAIN img.cmds : img.cmds[i] \in Command
    BY Parts
  <2>4. \A i \in DOMAIN img.cmds : x.cmds[i].kind = img.cmds[i].kind
    <3> HIDE DEF x
    <3>1. \A i \in DOMAIN img.cmds : x.cmds[i] = Rewritten(img.cmds[i])
      BY <2>2
    <3> QED
      BY <2>3, <3>1, RewrittenEdits, Zenon
  <2>5. DOMAIN x.cmds = DOMAIN img.cmds
    <3> HIDE DEF x
    <3> QED
      BY <2>2
  <2> QED
    BY <2>4, <2>5, Zenon DEF Has
<1>3. \A s, o, w, d : As(Bound(x, s, o, w, d), Bound(img, s, o, w, d))
  BY CopiedBound, Zenon
<1>4. \A a, m, t : As(Address(a, m, t), Address(a, m, t))
  BY CopiedAddress, Zenon
<1> DEFINE imp == img.imports[word.import]
           d == word.addend + IF img.wide THEN imp.addend ELSE 0
           a == IF img.format = "offset" THEN img.base + word.value ELSE word.value
           b == CHOOSE b \in img.binds : b.loc = l
           P(y) == IF Has(img, "chained")
                   THEN IF word.import > 0 THEN Bound(y, word.import, imp.ord, imp.weak, d)
                                           ELSE Address(a, 0, word.top)
                   ELSE IF \E c \in img.binds : c.loc = l
                        THEN Bound(y, b.sym, b.ord, b.weak, b.addend)
                        ELSE IF l \in img.rebases THEN Address(word.value, word.mid, word.top)
                                                   ELSE Address(-1, 0, 0)
<1>5. Pointer(img, l) = P(img)
  BY Zenon DEF Pointer, Imported
<1>6. Pointer(x, l) = P(x)
  <2> HIDE DEF x
  <2> QED
    BY <1>1, <1>2, Zenon DEF Pointer, Imported
<1>7. As(P(x), P(img))
  <2> HIDE DEF x, As, imp, d, a, b, word
  <2> QED
    BY <1>3, <1>4, Zenon
<1> QED
  BY <1>5, <1>6, <1>7, Zenon

\* A name that stays itself.
LEMMA SamePointer ==
  ASSUME NEW img, NEW l
  PROVE  Pointer(img, l) = [Pointer(img, l) EXCEPT !.lib = @]
<1> DEFINE Same(p) == p = [p EXCEPT !.lib = @]
<1>1. ASSUME NEW s, NEW o, NEW w, NEW d PROVE Same(Bound(img, s, o, w, d))
  <2> DEFINE lib == Library(img, o)
             v == w \/ o = -3
             p == [lib |-> lib, sym |-> s, weak |-> v, addr |-> d, mid |-> 0, top |-> 0]
  <2>1. Bound(img, s, o, w, d) = p
    BY Zenon DEF Bound
  <2> HIDE DEF lib, v
  <2>2. Same(p)
    OBVIOUS
  <2> QED
    BY <2>1, <2>2, Zenon
<1>2. ASSUME NEW a, NEW m, NEW t PROVE Same(Address(a, m, t))
  BY DEF Address
<1> HIDE DEF Same
<1>3. Same(Pointer(img, l))
  BY <1>1, <1>2, Zenon DEF Pointer, Imported
<1> QED
  BY <1>3, Zenon DEF Same

\* A copy leads the loader to the same code and to the same data.
LEMMA CopiedCode ==
  ASSUME NEW img, WellFormed(img)
  PROVE  Code(Rewrite(img)) = Code(img)
<1> DEFINE x == Rewrite(img)
<1>1. /\ x.base = img.base /\ x.at = img.at /\ x.field = img.field /\ x.starts = img.starts
      /\ x.inits = img.inits /\ x.exports = img.exports /\ x.relative = img.relative
  BY Parts, RewriteKeeps, Zenon
<1> HIDE DEF x
<1>2. /\ Entry(x) = Entry(img) /\ Initializers(x) = Initializers(img) /\ Lost(x) = Lost(img)
      /\ FunctionStart(x) = FunctionStart(img) /\ Exported(x) = Exported(img)
      /\ Described(x) = Described(img)
  BY <1>1, Zenon DEF Entry, Initializers, Lost, FunctionStart, Exported, Described
<1>3. Code(x) = Code(img)
  BY <1>2, Zenon DEF Code
<1> QED
  BY <1>3, Zenon DEF x

\* A library is loaded with what it was linked to, except that the wrapper
\* stands for libSystem.
THEOREM CopyKept == Spec => []CopyMeansTheSame
<1>1. ASSUME IInv PROVE CopyMeansTheSame
  <2>1. SUFFICES ASSUME opened # <<>> PROVE CopyMeansTheSame
    BY Zenon DEF CopyMeansTheSame
  <2>2. WellFormed(file) /\ (opened = file \/ opened = Rewrite(file))
    BY <1>1, <2>1, Zenon DEF IInv, Copied
  <2>3. CASE opened = file
    <3>1. \A l : Pointer(file, l) = [Pointer(file, l) EXCEPT !.lib = @]
      BY SamePointer, Zenon
    <3> QED
      BY <2>3, <3>1, Zenon DEF CopyMeansTheSame
  <2>4. CASE opened # file /\ opened = Rewrite(file)
    <3>1. Code(opened) = Code(file)
      BY <2>2, <2>4, CopiedCode, Zenon
    <3>2. \A l : Pointer(opened, l) = [Pointer(file, l) EXCEPT !.lib = Called(@)]
      BY <2>2, <2>4, CopiedPointer, Zenon
    <3> QED
      BY <2>4, <3>1, <3>2, Zenon DEF CopyMeansTheSame, Called
  <2> QED
    BY <2>2, <2>3, <2>4, Zenon
<1> QED
  BY <1>1, Invariant, PTL
=============================================================================
