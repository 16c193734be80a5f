-------------------------- MODULE FrameworksProofs --------------------------
(***************************************************************************)
(* Proofs about what Cocoa programs rest on, as MCFrameworks puts it       *)
(* beside one another: the frames that no constraint determines (M!), the  *)
(* views of stacks (S!), the delegates of layers (L!), the life cycle of   *)
(* view controllers (C!), and, after them, weak references (WeakSlots).    *)
(* They hold for any layers, delegates, controllers, views, gravities,     *)
(* places, sizes, threads, slots and objects.                              *)
(***************************************************************************)
EXTENDS MCFrameworks, SequenceTheorems, FiniteSetTheorems, WellFoundedInduction,
        TLAPS

-----------------------------------------------------------------------------
(***************************************************************************)
(* Frames                                                                  *)
(***************************************************************************)
\* What was last asked is what is remembered, and where the view is after a layout.
FrameInv ==
    /\ determined = {}
    /\ {frame} \subseteq M!Frames /\ {wanted, stored} \subseteq M!Frames \cup {Nil}
    /\ wanted # Nil /\ ~translates =>
          /\ stored = wanted
          /\ laid => frame = wanted

LEMMA FrameSet ==
  ASSUME Allowed \cap {"half", "zero"} = {}, FrameInv, NEW f \in M!Frames, M!Set(f)
  PROVE  FrameInv'
  BY DEF M!Set, M!Remembered, FrameInv

LEMMA FrameLayout ==
  ASSUME FrameInv, M!Layout
  PROVE  FrameInv'
<1>1. PICK f \in M!Frames : /\ M!Engine(f)
                            /\ stored' = M!Remembered(stored, f)
                            /\ frame' = M!Restored(f, stored')
                            /\ laid' = TRUE
                            /\ UNCHANGED <<translates, determined, wanted>>
  BY DEF M!Layout
<1>2. f = [place |-> f.place, size |-> f.size] /\ f.place \in Places /\ f.size \in Sizes
  BY DEF M!Frames
<1>3. CASE translates
  BY <1>1, <1>3 DEF M!Remembered, M!Restored, FrameInv
<1>4. CASE ~translates
  <2>1. f = M!Collapsed
    BY <1>1, <1>2, <1>4 DEF M!Engine, M!Collapsed, FrameInv
  <2>2. stored' = stored
    BY <1>1, <2>1 DEF M!Remembered
  <2>3. frame' = IF stored = Nil THEN f ELSE [place |-> stored.place, size |-> stored.size]
    BY <1>1, <1>4, <2>1, <2>2 DEF M!Restored, M!Collapsed, FrameInv
  <2>4. stored # Nil => stored = [place |-> stored.place, size |-> stored.size]
    BY DEF FrameInv, M!Frames
  <2> QED
    BY <1>1, <2>2, <2>3, <2>4 DEF FrameInv
<1> QED
  BY <1>3, <1>4

LEMMA FrameStep ==
  ASSUME Allowed \cap {"half", "zero"} = {}
  PROVE  FrameInv /\ M!Next => FrameInv'
<1> SUFFICES ASSUME FrameInv, M!Next PROVE FrameInv'
  OBVIOUS
<1>1. ASSUME NEW to \in Places, M!SetFrameOrigin(to) PROVE FrameInv'
  <2>1. [frame EXCEPT !.place = to] \in M!Frames
    BY DEF FrameInv, M!Frames
  <2> QED
    BY <1>1, <2>1, FrameSet DEF M!SetFrameOrigin
<1>2. ASSUME NEW size \in Sizes, M!SetFrameSize(size) PROVE FrameInv'
  <2>1. [frame EXCEPT !.size = size] \in M!Frames
    BY DEF FrameInv, M!Frames
  <2> QED
    BY <1>2, <2>1, FrameSet DEF M!SetFrameSize
<1>3. ASSUME NEW on \in BOOLEAN, M!Translate(on) PROVE FrameInv'
  BY <1>3 DEF M!Translate, FrameInv
<1> QED
  BY <1>1, <1>2, <1>3, FrameSet, FrameLayout DEF M!Next, M!SetFrame

\* A step of the whole is a step of one part, and leaves the others at rest.
LEMMA FramesOnly ==
  ASSUME [MCNext]_frameworks
  PROVE  M!Next \/ UNCHANGED frames
  BY DEF MCNext, frameworks, frames, M!vars

\* A view keeps the frame that no constraint determines (EHRememberManualFrame,
\* EHViewLayout): it gets back after a layout what the program asked, if no
\* constraint determines a part and the program itself does not collapse the view.
THEOREM FramesKept ==
  ASSUME Allowed \cap {"half", "zero"} = {}
  PROVE  MCSpec => []FrameKept
<1>1. MCInit => FrameInv
  BY FrameworkConstants
     DEF MCInit, M!Init, M!Collapsed, M!Frames, M!FrameConstants, FrameInv
<1>2. FrameInv /\ [MCNext]_frameworks => FrameInv'
  <2>1. FrameInv /\ UNCHANGED frames => FrameInv'
    BY DEF FrameInv, frames
  <2> QED
    BY <2>1, FrameStep, FramesOnly
<1>3. FrameInv => FrameKept
  BY DEF FrameInv, FrameKept, M!FrameKept
<1> QED
  BY <1>1, <1>2, <1>3, PTL DEF MCSpec

-----------------------------------------------------------------------------
(***************************************************************************)
(* Stacks                                                                  *)
(***************************************************************************)
\* Every non-empty set of numbers has a least element: the induction of the
\* lemmas about lists that are joined one by one.
LEMMA LeastExists ==
  ASSUME NEW N \in SUBSET Nat, N # {}
  PROVE  \E i \in N : \A j \in N : i <= j
<1> DEFINE T == {1..i : i \in N}
<1>1. T \subseteq FiniteSubsetsOf(Nat) /\ T # {}
  <2>1. ASSUME NEW i \in N PROVE 1..i \in FiniteSubsetsOf(Nat)
    <3>1. i \in Nat
      OBVIOUS
    <3>2. IsFiniteSet(1..i)
      BY <3>1, FS_Interval
    <3> QED
      BY <3>1, <3>2 DEF FiniteSubsetsOf
  <2> QED
    BY <2>1
<1>2. \E x \in T : \A y \in T : ~ (<<y, x>> \in StrictSubsetOrdering(Nat))
  BY <1>1, FS_StrictSubsetOrderingWellFounded, WFMin
<1>3. PICK i \in N : \A j \in N : ~ (<<1..j, 1..i>> \in StrictSubsetOrdering(Nat))
  BY <1>2
<1>4. ASSUME NEW j \in N PROVE i <= j
  <2>1. SUFFICES ASSUME j < i PROVE FALSE
    OBVIOUS
  <2>2. 1..j \subseteq 1..i /\ i \in 1..i /\ i \notin 1..j
    BY <2>1
  <2>3. <<1..j, 1..i>> \in StrictSubsetOrdering(Nat)
    BY <2>2 DEF StrictSubsetOrdering
  <2> QED
    BY <1>3, <2>3
<1> QED
  BY <1>4

\* What FlattenSeq is computed by is there.
LEMMA FlattenExists ==
  ASSUME NEW V, NEW s \in Seq(Seq(V)), s # <<>>
  PROVE  \E f : f = [i \in 1..Len(s) |-> IF i = 1 THEN s[i] ELSE f[i - 1] \o s[i]]
<1> DEFINE Is(f, n) == f = [i \in 1..n |-> IF i = 1 THEN s[i] ELSE f[i - 1] \o s[i]]
           Bad == {n \in Nat : ~ \E f : Is(f, n)}
<1>1. ASSUME NEW n \in Nat, NEW f, Is(f, n) PROVE \E g : Is(g, n + 1)
  <2> DEFINE g == [i \in 1..(n + 1) |-> IF i <= n THEN f[i]
                                        ELSE IF i = 1 THEN s[i] ELSE f[i - 1] \o s[i]]
  <2>1. ASSUME NEW i \in 1..(n + 1)
        PROVE  g[i] = IF i = 1 THEN s[i] ELSE g[i - 1] \o s[i]
    <3>1. CASE i <= n
      <4>1. f[i] = IF i = 1 THEN s[i] ELSE f[i - 1] \o s[i]
        <5>1. i \in 1..n
          BY <3>1
        <5> QED
          BY <1>1, <5>1, Zenon
      <4>2. i # 1 => i - 1 \in 1..n
        BY <3>1
      <4> QED
        BY <4>1, <4>2, <3>1
    <3>2. CASE ~(i <= n)
      <4>2. i # 1 => i - 1 \in 1..n
        BY <3>2
      <4> QED
        BY <4>2, <3>2
    <3> QED
      BY <3>1, <3>2
  <2>2. g = [i \in 1..(n + 1) |-> g[i]]
    OBVIOUS
  <2>3. Is(g, n + 1)
    <3> HIDE DEF g
    <3> QED
      BY <2>1, <2>2, Zenon
  <2> QED
    BY <2>3
<1>2. \E f : Is(f, 0)
  <2>1. 1..0 = {}
    OBVIOUS
  <2>2. Is([i \in {} |-> {}], 0)
    BY <2>1, Zenon
  <2> QED
    BY <2>2
<1>3. SUFFICES Bad = {}
  <2>1. Len(s) \in Nat
    BY LenProperties
  <2> QED
    BY <2>1, <1>3
<1>4. SUFFICES ASSUME Bad # {} PROVE FALSE
  OBVIOUS
<1> HIDE DEF Is
<1>5. PICK n \in Bad : \A m \in Bad : n <= m
  BY <1>4, LeastExists
<1>6. n # 0 /\ n \in Nat /\ ~ \E f : Is(f, n)
  BY <1>2, <1>5
<1>7. n - 1 \in Nat /\ n - 1 \notin Bad
  <2> HIDE DEF Bad
  <2> QED
    BY <1>5, <1>6
<1>8. PICK f : Is(f, n - 1)
  BY <1>7
<1>9. \E g : Is(g, n - 1 + 1)
  BY <1>1, <1>7, <1>8
<1> QED
  BY <1>6, <1>9

\* The lists joined one by one.
LEMMA FlattenIs ==
  ASSUME NEW V, NEW s \in Seq(Seq(V)), s # <<>>
  PROVE  \E f : /\ S!FlattenSeq(s) = f[Len(s)]
                /\ f[1] = s[1]
                /\ \A i \in 2..Len(s) : f[i] = f[i - 1] \o s[i]
<1> DEFINE Is(f) == f = [i \in 1..Len(s) |-> IF i = 1 THEN s[i] ELSE f[i - 1] \o s[i]]
           flatten == CHOOSE f : Is(f)
<1>1. Is(flatten)
  <2>1. \E f : Is(f)
    BY FlattenExists, Zenon
  <2> HIDE DEF Is
  <2> QED
    BY <2>1, Zenon
<1>2. Len(s) \in Nat \ {0}
  BY LenProperties, EmptySeq
<1>3. S!FlattenSeq(s) = flatten[Len(s)]
  BY <1>2 DEF S!FlattenSeq
<1>4. flatten[1] = s[1] /\ \A i \in 2..Len(s) : flatten[i] = flatten[i - 1] \o s[i]
  <2> HIDE DEF flatten
  <2>1. \A i \in 1..Len(s) : flatten[i] = IF i = 1 THEN s[i] ELSE flatten[i - 1] \o s[i]
    BY <1>1, Zenon
  <2>2. 1 \in 1..Len(s) /\ \A i \in 2..Len(s) : i \in 1..Len(s) /\ i # 1
    BY <1>2
  <2> QED
    BY <2>1, <2>2, Zenon
<1> QED
  BY <1>3, <1>4

LEMMA ConcatIs ==
  ASSUME NEW V, NEW a \in Seq(V), NEW b \in Seq(V)
  PROVE  /\ a \o b \in Seq(V)
         /\ Range(a \o b) = Range(a) \cup Range(b)
         /\ IsInjective(a) /\ IsInjective(b) /\ Range(a) \cap Range(b) = {}
               => IsInjective(a \o b)
         /\ a # <<>> => a \o b # <<>> /\ (a \o b)[1] = a[1]
         /\ a = <<>> => a \o b = b
<1> DEFINE c == a \o b
<1>1. /\ Len(a) \in Nat /\ DOMAIN a = 1..Len(a) /\ Len(b) \in Nat /\ DOMAIN b = 1..Len(b)
      /\ a # <<>> => Len(a) # 0
  BY LenProperties, EmptySeq
<1>2. /\ c \in Seq(V) /\ Len(c) = Len(a) + Len(b)
      /\ DOMAIN c = 1..(Len(a) + Len(b))
      /\ \A i \in 1..(Len(a) + Len(b)) :
            c[i] = IF i <= Len(a) THEN a[i] ELSE b[i - Len(a)]
  BY ConcatProperties, LenProperties
<1> HIDE DEF c
<1>3. \A i \in 1..Len(a) : i \in DOMAIN c /\ c[i] = a[i]
  BY <1>1, <1>2
<1>4. ASSUME NEW i \in 1..Len(b)
      PROVE  Len(a) + i \in DOMAIN c /\ c[Len(a) + i] = b[i]
  <2>1. /\ Len(a) + i \in 1..(Len(a) + Len(b)) /\ ~(Len(a) + i <= Len(a))
        /\ Len(a) + i - Len(a) = i
    BY <1>1
  <2> QED
    BY <1>2, <2>1
<1>5. \A i \in DOMAIN c : \/ i \in 1..Len(a)
                          \/ i - Len(a) \in 1..Len(b) /\ i = Len(a) + (i - Len(a))
  BY <1>1, <1>2
<1>6. Range(c) = Range(a) \cup Range(b)
  BY <1>1, <1>3, <1>4, <1>5 DEF Range
<1>7. ASSUME IsInjective(a), IsInjective(b), Range(a) \cap Range(b) = {} PROVE IsInjective(c)
  <2>1. SUFFICES ASSUME NEW i \in DOMAIN c, NEW j \in DOMAIN c, c[i] = c[j] PROVE i = j
    BY DEF IsInjective
  <2>2. \A k \in 1..Len(a), l \in 1..Len(b) : a[k] # b[l]
    BY <1>1, <1>7 DEF Range
  <2>3. CASE i \in 1..Len(a) /\ j \in 1..Len(a)
    BY <1>1, <1>3, <1>7, <2>1, <2>3 DEF IsInjective
  <2>4. CASE i - Len(a) \in 1..Len(b) /\ j - Len(a) \in 1..Len(b)
    <3>1. c[i] = b[i - Len(a)] /\ c[j] = b[j - Len(a)]
      BY <1>4, <1>5, <2>4, <1>2, <1>1
    <3>2. i - Len(a) = j - Len(a)
      BY <1>1, <1>7, <2>1, <2>4, <3>1 DEF IsInjective
    <3> QED
      BY <1>1, <1>2, <3>2
  <2>5. CASE i \in 1..Len(a) /\ j - Len(a) \in 1..Len(b)
    BY <1>3, <1>4, <1>5, <2>1, <2>2, <2>5, <1>1, <1>2
  <2>6. CASE j \in 1..Len(a) /\ i - Len(a) \in 1..Len(b)
    BY <1>3, <1>4, <1>5, <2>1, <2>2, <2>6, <1>1, <1>2
  <2> QED
    BY <1>5, <2>3, <2>4, <2>5, <2>6
<1>8. a # <<>> => c # <<>> /\ c[1] = a[1]
  <2>1. ASSUME a # <<>> PROVE 1 \in 1..Len(a)
    BY <1>1, <2>1
  <2>2. DOMAIN <<>> = {}
    OBVIOUS
  <2> QED
    BY <1>3, <2>1, <2>2
<1>9. a = <<>> => c = b
  BY ConcatEmptySeq DEF c
<1> QED
  BY <1>2, <1>6, <1>7, <1>8, <1>9 DEF c

Apart(in) ==
    /\ \A g \in DOMAIN in : IsInjective(in[g])
    /\ \A g, h \in DOMAIN in : g # h => Range(in[g]) \cap Range(in[h]) = {}

\* What lies in the first k lists, joined to a.
Joins(a, s, k) ==
    /\ Range(a) = UNION {Range(s[i]) : i \in 1..k}
    /\ IsInjective(a)
    /\ a # <<>> => \E g \in 1..k : /\ s[g] # <<>> /\ a[1] = s[g][1]
                                   /\ \A h \in 1..(g - 1) : s[h] = <<>>
    /\ a = <<>> => \A h \in 1..k : s[h] = <<>>

LEMMA JoinsMore ==
  ASSUME NEW V, NEW s \in Seq(Seq(V)), Apart(s), NEW k \in Nat, k + 1 \in 1..Len(s),
         NEW a \in Seq(V), Joins(a, s, k)
  PROVE  a \o s[k + 1] \in Seq(V) /\ Joins(a \o s[k + 1], s, k + 1)
<1> DEFINE b == s[k + 1]
           c == a \o b
<1>1. b \in Seq(V) /\ DOMAIN s = 1..Len(s) /\ Len(s) \in Nat
  BY ElementOfSeq, LenProperties
<1>2. 1..(k + 1) = 1..k \cup {k + 1} /\ 1..k \subseteq DOMAIN s /\ k + 1 \in DOMAIN s
      /\ k + 1 \notin 1..k
  BY <1>1
<1>3. IsInjective(b) /\ \A i \in 1..k : Range(s[i]) \cap Range(b) = {}
  BY <1>2 DEF Apart
<1>4. Range(a) \cap Range(b) = {}
  BY <1>3 DEF Joins
<1>0. IsInjective(a)
  BY DEF Joins
<1> HIDE DEF b
<1>5. /\ c \in Seq(V) /\ Range(c) = Range(a) \cup Range(b) /\ IsInjective(c)
      /\ a # <<>> => c # <<>> /\ c[1] = a[1]
      /\ a = <<>> => c = b
  <2>1. a \in Seq(V) /\ b \in Seq(V)
    BY <1>1
  <2>2. c \in Seq(V)
    BY <2>1, ConcatIs
  <2>3. Range(c) = Range(a) \cup Range(b)
    BY <2>1, ConcatIs
  <2>4. IsInjective(c)
    BY <2>1, <1>3, <1>4, <1>0, ConcatIs
  <2>5. a # <<>> => c # <<>>
    BY <2>1, ConcatIs
  <2>6. a # <<>> => c[1] = a[1]
    BY <2>1, ConcatIs
  <2>7. a = <<>> => c = b
    BY <2>1, ConcatIs
  <2> QED
    BY <2>2, <2>3, <2>4, <2>5, <2>6, <2>7
<1> HIDE DEF c
<1>6. Range(c) = UNION {Range(s[i]) : i \in 1..(k + 1)}
  <2>1. {Range(s[i]) : i \in 1..(k + 1)} = {Range(s[i]) : i \in 1..k} \cup {Range(b)}
    BY <1>2 DEF b
  <2> QED
    BY <1>5, <2>1 DEF Joins
<1>7. CASE a # <<>>
  <2>1. \E g \in 1..(k + 1) : /\ s[g] # <<>> /\ c[1] = s[g][1]
                              /\ \A h \in 1..(g - 1) : s[h] = <<>>
    BY <1>2, <1>5, <1>7, Zenon DEF Joins
  <2> QED
    BY <1>5, <1>6, <1>7, <2>1, Zenon DEF Joins, c, b
<1>8. CASE a = <<>>
  <2>1. \A h \in 1..k : s[h] = <<>>
    BY <1>8 DEF Joins
  <2>2. k + 1 - 1 = k
    OBVIOUS
  <2>3. ASSUME b # <<>>
        PROVE  \E g \in 1..(k + 1) : /\ s[g] # <<>> /\ c[1] = s[g][1]
                                     /\ \A h \in 1..(g - 1) : s[h] = <<>>
    <3>1. /\ s[k + 1] # <<>> /\ c[1] = s[k + 1][1]
          /\ \A h \in 1..(k + 1 - 1) : s[h] = <<>>
      BY <1>5, <1>8, <2>1, <2>2, <2>3 DEF b
    <3>2. k + 1 \in 1..(k + 1)
      OBVIOUS
    <3> WITNESS k + 1 \in 1..(k + 1)
    <3> QED
      BY <3>1
  <2>4. b = <<>> => \A h \in 1..(k + 1) : s[h] = <<>>
    BY <1>2, <2>1 DEF b
  <2>5. c # <<>> => \E g \in 1..(k + 1) : /\ s[g] # <<>> /\ c[1] = s[g][1]
                                          /\ \A h \in 1..(g - 1) : s[h] = <<>>
    BY <1>5, <1>8, <2>3, Zenon
  <2> QED
    BY <1>5, <1>6, <1>8, <2>4, <2>5, Zenon DEF Joins, c, b
<1> QED
  BY <1>7, <1>8 DEF c, b

LEMMA ArrangedIs ==
  ASSUME NEW V, NEW s \in Seq(Seq(V)), s # <<>>, Apart(s)
  PROVE  S!Arranged(s) \in Seq(V) /\ Joins(S!Arranged(s), s, Len(s))
<1>1. PICK f : /\ S!FlattenSeq(s) = f[Len(s)]
               /\ f[1] = s[1]
               /\ \A i \in 2..Len(s) : f[i] = f[i - 1] \o s[i]
  BY FlattenIs
<1>2. Len(s) \in Nat \ {0} /\ DOMAIN s = 1..Len(s)
  BY LenProperties, EmptySeq
<1> DEFINE Bad == {k \in 1..Len(s) : ~ (f[k] \in Seq(V) /\ Joins(f[k], s, k))}
<1>3. f[1] \in Seq(V) /\ Joins(f[1], s, 1)
  <2>1. s[1] \in Seq(V) /\ 1 \in DOMAIN s
    BY <1>2, ElementOfSeq
  <2>2. IsInjective(s[1])
    BY <2>1 DEF Apart
  <2>3. 1..1 = {1} /\ 1..(1 - 1) = {}
    OBVIOUS
  <2>4. Range(s[1]) = UNION {Range(s[i]) : i \in 1..1}
    BY <2>3
  <2>5. s[1] # <<>> => \E g \in 1..1 : /\ s[g] # <<>> /\ s[1][1] = s[g][1]
                                       /\ \A h \in 1..(g - 1) : s[h] = <<>>
    BY <2>3
  <2>6. s[1] = <<>> => \A h \in 1..1 : s[h] = <<>>
    BY <2>3
  <2> QED
    BY <1>1, <2>1, <2>2, <2>4, <2>5, <2>6 DEF Joins
<1>4. SUFFICES Bad = {}
  BY <1>1, <1>2, <1>4 DEF S!Arranged
<1>5. SUFFICES ASSUME Bad # {} PROVE FALSE
  OBVIOUS
<1>6. PICK k \in Bad : \A m \in Bad : k <= m
  <2>1. Bad \in SUBSET Nat
    BY <1>2
  <2> HIDE DEF Bad
  <2> QED
    BY <1>5, <2>1, LeastExists
<1>7. k \in 2..Len(s) /\ k - 1 \in 1..Len(s) /\ k - 1 \in Nat /\ k - 1 + 1 = k
  <2>1. k # 1 /\ k \in 1..Len(s)
    BY <1>3, <1>6
  <2> QED
    BY <2>1, <1>2
<1>8. k - 1 \notin Bad
  <2> HIDE DEF Bad
  <2> QED
    BY <1>6, <1>7
<1>9. f[k - 1] \in Seq(V) /\ Joins(f[k - 1], s, k - 1)
  BY <1>7, <1>8
<1>10. f[k - 1] \o s[k - 1 + 1] \in Seq(V) /\ Joins(f[k - 1] \o s[k - 1 + 1], s, k - 1 + 1)
  <2> DEFINE j == k - 1
             a == f[j]
  <2>1. j \in Nat /\ j + 1 \in 1..Len(s) /\ a \in Seq(V) /\ Joins(a, s, j)
    BY <1>7, <1>9, <1>2
  <2> HIDE DEF j, a
  <2>2. a \o s[j + 1] \in Seq(V) /\ Joins(a \o s[j + 1], s, j + 1)
    BY <2>1, JoinsMore
  <2> QED
    BY <2>2 DEF j, a
<1>11. f[k] = f[k - 1] \o s[k]
  BY <1>1, <1>7
<1>12. f[k] \in Seq(V) /\ Joins(f[k], s, k)
  BY <1>7, <1>10, <1>11
<1> QED
  BY <1>6, <1>12

\* A list cut behind its k-th element.
LEMMA CutIs ==
  ASSUME NEW V, NEW s \in Seq(V), NEW k \in 0..Len(s)
  PROVE  LET a == SubSeq(s, 1, k)
             b == SubSeq(s, k + 1, Len(s))
         IN  /\ a \in Seq(V) /\ Len(a) = k /\ DOMAIN a = 1..k
             /\ \A j \in 1..k : a[j] = s[j]
             /\ b \in Seq(V) /\ Len(b) = Len(s) - k /\ DOMAIN b = 1..(Len(s) - k)
             /\ \A j \in 1..(Len(s) - k) : b[j] = s[k + j]
<1> DEFINE a == SubSeq(s, 1, k)
           b == SubSeq(s, k + 1, Len(s))
           n == Len(s)
<1>1. n \in Nat /\ \A j \in 1..n : s[j] \in V
  BY LenProperties, ElementOfSeq
<1> HIDE DEF n
<1>2. k \in Nat /\ k <= n
  BY <1>1 DEF n
<1>3. /\ a \in Seq(V) /\ Len(a) = (IF 1 <= k THEN k - 1 + 1 ELSE 0)
      /\ \A j \in 1..(k - 1 + 1) : a[j] = s[1 + j - 1]
  <2>1. \A j \in 1..k : s[j] \in V
    BY <1>1, <1>2
  <2> QED
    BY <1>2, <2>1, SubSeqProperties
<1>4. /\ b \in Seq(V) /\ Len(b) = (IF k + 1 <= n THEN n - (k + 1) + 1 ELSE 0)
      /\ \A j \in 1..(n - (k + 1) + 1) : b[j] = s[k + 1 + j - 1]
  <2>1. \A j \in (k + 1)..n : s[j] \in V
    BY <1>1, <1>2
  <2>2. k + 1 \in Int /\ n \in Int
    BY <1>1, <1>2
  <2> QED
    BY <2>1, <2>2, SubSeqProperties DEF n
<1> HIDE DEF a, b
<1>5. Len(a) = k /\ \A j \in 1..k : a[j] = s[j]
  BY <1>2, <1>3
<1>6. Len(b) = n - k
  BY <1>1, <1>2, <1>4
<1>7. ASSUME NEW j \in 1..(n - k) PROVE b[j] = s[k + j]
  <2>1. n - (k + 1) + 1 = n - k /\ k + 1 + j - 1 = k + j
    BY <1>1, <1>2
  <2> QED
    BY <1>4, <2>1
<1>8. DOMAIN a = 1..k /\ DOMAIN b = 1..(n - k)
  BY <1>3, <1>4, <1>5, <1>6, LenProperties
<1> QED
  BY <1>3, <1>4, <1>5, <1>6, <1>7, <1>8 DEF a, b, n

\* A view taken out of a list that has it at most once.
LEMMA RemovedIs ==
  ASSUME NEW V, NEW s \in Seq(V), IsInjective(s), NEW v
  PROVE  LET r == S!RemoveFirst(s, v) IN
         /\ r \in Seq(V) /\ IsInjective(r)
         /\ Range(r) = Range(s) \ {v}
         /\ v \notin Range(s) => r = s
         /\ s # <<>> /\ s[1] # v => r # <<>> /\ r[1] = s[1]
<1> DEFINE r == S!RemoveFirst(s, v)
           I == {i \in 1..Len(s) : s[i] = v}
<1>1. Len(s) \in Nat /\ DOMAIN s = 1..Len(s) /\ (s # <<>> => 1 \in 1..Len(s))
  BY LenProperties, EmptySeq
<1>2. CASE I = {}
  <2>1. r = s
    BY <1>2 DEF S!RemoveFirst
  <2>2. v \notin Range(s)
    BY <1>1, <1>2 DEF Range
  <2> QED
    BY <2>1, <2>2
<1>3. CASE I # {}
  <2>1. PICK i \in I : \A j \in I : i <= j
    <3>1. I \in SUBSET Nat
      BY <1>1
    <3> QED
      BY <1>3, <3>1, LeastExists
  <2>2. /\ i \in 1..Len(s) /\ s[i] = v /\ I = {i}
    BY <1>1, <2>1 DEF IsInjective
  <2>3. S!Min(I) = i
    BY <2>2 DEF S!Min
  <2>4. r = SubSeq(s, 1, i - 1) \o SubSeq(s, i + 1, Len(s))
    BY <1>3, <2>3 DEF S!RemoveFirst, S!SelectInSeq, S!RemoveAt
  <2> DEFINE a == SubSeq(s, 1, i - 1)
             b == SubSeq(s, i + 1, Len(s))
  <2>5. /\ a \in Seq(V) /\ Len(a) = i - 1 /\ DOMAIN a = 1..(i - 1)
        /\ \A j \in 1..(i - 1) : a[j] = s[j]
    <3>1. i - 1 \in 0..Len(s)
      BY <1>1, <2>2
    <3> QED
      BY <3>1, CutIs
  <2>6. /\ b \in Seq(V) /\ Len(b) = Len(s) - i /\ DOMAIN b = 1..(Len(s) - i)
        /\ \A j \in 1..(Len(s) - i) : b[j] = s[i + j]
    <3>1. i \in 0..Len(s)
      BY <1>1, <2>2
    <3> QED
      BY <3>1, CutIs
  <2>7. r \in Seq(V)
    BY <2>4, <2>5, <2>6, ConcatIs
  <2> HIDE DEF r, a, b, I
  <2>8. \A j \in 1..(i - 1) : j \in 1..Len(s) /\ j # i
    BY <1>1, <2>2
  <2>9. \A j \in 1..(Len(s) - i) : i + j \in 1..Len(s) /\ i + j # i
    BY <1>1, <2>2
  <2>10. IsInjective(a)
    BY <1>1, <2>5, <2>8, Zenon DEF IsInjective
  <2>11. IsInjective(b)
    <3>1. SUFFICES ASSUME NEW j \in 1..(Len(s) - i), NEW k \in 1..(Len(s) - i),
                          s[i + j] = s[i + k]
                   PROVE  j = k
      BY <2>6 DEF IsInjective
    <3>2. i + j = i + k
      BY <1>1, <2>9, <3>1, Zenon DEF IsInjective
    <3> QED
      BY <1>1, <2>2, <3>2
  <2>12. Range(a) \cap Range(b) = {}
    <3>1. SUFFICES ASSUME NEW j \in 1..(i - 1), NEW k \in 1..(Len(s) - i), a[j] = b[k]
                   PROVE FALSE
      BY <2>5, <2>6 DEF Range
    <3>2. s[j] = s[i + k]
      BY <2>5, <2>6, <3>1
    <3>3. j = i + k
      BY <1>1, <2>8, <2>9, <3>2, Zenon DEF IsInjective
    <3> QED
      BY <1>1, <2>2, <3>3
  <2>13. IsInjective(r) /\ Range(r) = Range(a) \cup Range(b)
    <3>1. a \in Seq(V) /\ b \in Seq(V) /\ r = a \o b
      BY <2>4, <2>5, <2>6 DEF a, b
    <3>2. Range(a \o b) = Range(a) \cup Range(b)
      BY <3>1, ConcatIs
    <3>3. IsInjective(a \o b)
      BY <3>1, <2>10, <2>11, <2>12, ConcatIs
    <3> QED
      BY <3>1, <3>2, <3>3
  <2>14. Range(a) \cup Range(b) = Range(s) \ {v}
    <3>1. ASSUME NEW x \in Range(a) PROVE x \in Range(s) /\ x # v
      BY <1>1, <2>2, <2>5, <2>8, <3>1, Zenon DEF Range, IsInjective
    <3>2. ASSUME NEW x \in Range(b) PROVE x \in Range(s) /\ x # v
      <4>1. PICK j \in 1..(Len(s) - i) : x = b[j]
        BY <2>6, <3>2 DEF Range
      <4>2. x = s[i + j] /\ i + j \in 1..Len(s) /\ i + j # i
        BY <2>6, <2>9, <4>1
      <4> QED
        BY <1>1, <2>2, <4>2, Zenon DEF Range, IsInjective
    <3>3. ASSUME NEW x \in Range(s), x # v PROVE x \in Range(a) \cup Range(b)
      <4>1. PICK j \in 1..Len(s) : x = s[j]
        BY <1>1 DEF Range
      <4>2. j \in 1..(i - 1) \/ (j - i \in 1..(Len(s) - i) /\ i + (j - i) = j)
        BY <1>1, <2>2, <3>3, <4>1
      <4>3. j \in 1..(i - 1) => x \in Range(a)
        BY <2>5, <4>1, Zenon DEF Range
      <4>4. j - i \in 1..(Len(s) - i) /\ i + (j - i) = j => x \in Range(b)
        BY <2>6, <4>1 DEF Range
      <4> QED
        BY <4>2, <4>3, <4>4
    <3> QED
      BY <3>1, <3>2, <3>3
  <2>15. v \in Range(s)
    BY <1>1, <2>2 DEF Range
  <2>16. ASSUME s[1] # v PROVE r # <<>> /\ r[1] = s[1]
    <3>1. 1 \in 1..(i - 1)
      BY <1>1, <2>2, <2>16
    <3>2. a # <<>> /\ a[1] = s[1]
      BY <2>5, <3>1
    <3>3. r # <<>> /\ r[1] = a[1]
      BY <2>4, <2>5, <2>6, <3>2, ConcatIs DEF a, b
    <3> QED
      BY <3>2, <3>3
  <2> QED
    BY <2>7, <2>13, <2>14, <2>15, <2>16 DEF r
<1> QED
  BY <1>2, <1>3

\* The lists without a view, of which none has another's views.
LEMMA WithoutIs ==
  ASSUME lists \in Seq(Seq(Views)), lists # <<>>, Apart(lists), NEW view
  PROVE  LET in == S!Without(view) IN
         /\ in \in Seq(Seq(Views)) /\ in # <<>> /\ Apart(in)
         /\ DOMAIN in = DOMAIN lists /\ Len(in) = Len(lists)
         /\ \A g \in DOMAIN lists :
               /\ in[g] \in Seq(Views)
               /\ Range(in[g]) = Range(lists[g]) \ {view}
               /\ view \notin Range(lists[g]) => in[g] = lists[g]
               /\ lists[g] # <<>> /\ lists[g][1] # view
                     => in[g] # <<>> /\ in[g][1] = lists[g][1]
<1> DEFINE in == S!Without(view)
<1>1. /\ DOMAIN lists = 1..Len(lists) /\ Len(lists) \in Nat
      /\ \A g \in DOMAIN lists : lists[g] \in Seq(Views) /\ IsInjective(lists[g])
  BY LenProperties, ElementOfSeq DEF Apart
<1>2. in = [g \in 1..Len(lists) |-> S!RemoveFirst(lists[g], view)]
  BY <1>1 DEF S!Without
<1> HIDE DEF in
<1>3. ASSUME NEW g \in DOMAIN lists
      PROVE  /\ in[g] \in Seq(Views) /\ IsInjective(in[g])
             /\ Range(in[g]) = Range(lists[g]) \ {view}
             /\ view \notin Range(lists[g]) => in[g] = lists[g]
             /\ lists[g] # <<>> /\ lists[g][1] # view
                   => in[g] # <<>> /\ in[g][1] = lists[g][1]
  <2> DEFINE s == lists[g]
             r == S!RemoveFirst(s, view)
  <2>1. s \in Seq(Views) /\ IsInjective(s)
    BY <1>1
  <2>2. in[g] = r
    BY <1>1, <1>2
  <2> HIDE DEF s
  <2>3. /\ r \in Seq(Views) /\ IsInjective(r)
        /\ Range(r) = Range(s) \ {view}
        /\ view \notin Range(s) => r = s
        /\ s # <<>> /\ s[1] # view => r # <<>> /\ r[1] = s[1]
    BY <2>1, RemovedIs
  <2> HIDE DEF r
  <2> QED
    BY <2>2, <2>3 DEF s
<1>4. DOMAIN in = DOMAIN lists
  BY <1>1, <1>2
<1>5. in \in Seq(Seq(Views)) /\ Len(in) = Len(lists)
  <2> DEFINE T == Seq(Views)
             n == Len(lists)
  <2>1. in \in [1..n -> T] /\ n \in Nat
    BY <1>1, <1>2, <1>3
  <2> HIDE DEF T, n
  <2>2. in \in Seq(T) /\ Len(in) = n
    BY <2>1
  <2> QED
    BY <2>2 DEF T, n
<1>6. in # <<>>
  <2>1. Len(lists) # 0
    BY EmptySeq
  <2> QED
    BY <1>5, <2>1, EmptySeq
<1>7. Apart(in)
  BY <1>3, <1>4 DEF Apart
<1> QED
  BY <1>3, <1>4, <1>5, <1>6, <1>7 DEF in

\* A view put at a place of one list.
Puts(new, in, view, g, at) ==
    new = [in EXCEPT ![g] = SubSeq(@, 1, at) \o <<view>> \o SubSeq(@, at + 1, Len(@))]

LEMMA PutIs ==
  ASSUME NEW in \in Seq(Seq(Views)), in # <<>>, Apart(in), NEW view \in Views,
         NEW g \in DOMAIN in, NEW at \in 0..Len(in[g]),
         \A h \in DOMAIN in : view \notin Range(in[h]),
         NEW to, Puts(to, in, view, g, at)
  PROVE  to \in Seq(Seq(Views)) /\ to # <<>> /\ Apart(to) /\ Len(to) = Len(in)
<1> DEFINE s == in[g]
           a == SubSeq(s, 1, at)
           b == SubSeq(s, at + 1, Len(s))
           c == a \o <<view>>
           d == c \o b
           new == [in EXCEPT ![g] = d]
<1>1. /\ DOMAIN in = 1..Len(in) /\ Len(in) \in Nat
      /\ s \in Seq(Views) /\ IsInjective(s)
      /\ DOMAIN s = 1..Len(s) /\ Len(s) \in Nat
  BY LenProperties, ElementOfSeq DEF Apart
<1>2. at \in 0..Len(s) /\ view \notin Range(s)
  OBVIOUS
<1> HIDE DEF s
<1>3. /\ a \in Seq(Views) /\ Len(a) = at /\ DOMAIN a = 1..at
      /\ \A j \in 1..at : a[j] = s[j]
      /\ b \in Seq(Views) /\ Len(b) = Len(s) - at /\ DOMAIN b = 1..(Len(s) - at)
      /\ \A j \in 1..(Len(s) - at) : b[j] = s[at + j]
  BY <1>1, <1>2, CutIs
<1> HIDE DEF a, b
<1>4. /\ \A j \in 1..at : j \in 1..Len(s)
      /\ \A j \in 1..(Len(s) - at) : at + j \in 1..Len(s)
  BY <1>1, <1>2
<1>5. IsInjective(a)
  BY <1>1, <1>3, <1>4, Zenon DEF IsInjective
<1>6. IsInjective(b)
  <2>1. SUFFICES ASSUME NEW j \in DOMAIN b, NEW k \in DOMAIN b, b[j] = b[k]
                 PROVE  j = k
    BY Zenon DEF IsInjective
  <2>2. s[at + j] = s[at + k] /\ at + j \in 1..Len(s) /\ at + k \in 1..Len(s)
    BY <1>3, <1>4, <2>1
  <2>3. at + j = at + k
    BY <1>1, <2>2, Zenon DEF IsInjective
  <2> QED
    BY <1>1, <1>2, <1>3, <2>3
<1>7. Range(a) \cap Range(b) = {}
  <2>1. SUFFICES ASSUME NEW j \in 1..at, NEW k \in 1..(Len(s) - at), a[j] = b[k]
                 PROVE FALSE
    BY <1>3 DEF Range
  <2>2. s[j] = s[at + k]
    BY <1>3, <2>1
  <2>3. j = at + k
    BY <1>1, <1>4, <2>2, Zenon DEF IsInjective
  <2> QED
    BY <1>1, <1>2, <2>3
<1>8. Range(a) \subseteq Range(s) /\ Range(b) \subseteq Range(s)
  <2>1. ASSUME NEW x \in Range(a) PROVE x \in Range(s)
    <3>1. PICK j \in 1..at : x = a[j]
      BY <1>3, <2>1 DEF Range
    <3>2. x = s[j] /\ j \in 1..Len(s)
      BY <1>3, <1>4, <3>1
    <3> QED
      BY <1>1, <3>2 DEF Range
  <2>2. ASSUME NEW x \in Range(b) PROVE x \in Range(s)
    <3>1. PICK j \in 1..(Len(s) - at) : x = b[j]
      BY <1>3, <2>2 DEF Range
    <3>2. x = s[at + j] /\ at + j \in 1..Len(s)
      BY <1>3, <1>4, <3>1
    <3> QED
      BY <1>1, <3>2 DEF Range
  <2> QED
    BY <2>1, <2>2
<1>9. <<view>> \in Seq(Views) /\ IsInjective(<<view>>) /\ Range(<<view>>) = {view}
  BY DEF IsInjective, Range
<1>10. c \in Seq(Views) /\ IsInjective(c) /\ Range(c) = Range(a) \cup {view}
  <2> DEFINE v == <<view>>
  <2>1. v \in Seq(Views) /\ IsInjective(v) /\ Range(v) = {view}
    BY <1>9
  <2> HIDE DEF v
  <2>2. Range(a) \cap Range(v) = {}
    BY <1>2, <1>8, <2>1
  <2>3. a \o v \in Seq(Views)
    BY <1>3, <2>1, ConcatIs
  <2>4. Range(a \o v) = Range(a) \cup Range(v)
    BY <1>3, <2>1, ConcatIs
  <2>5. IsInjective(a \o v)
    BY <1>3, <1>5, <2>1, <2>2, ConcatIs
  <2> QED
    BY <2>1, <2>3, <2>4, <2>5 DEF v
<1> HIDE DEF c
<1>11. d \in Seq(Views) /\ IsInjective(d) /\ Range(d) \subseteq Range(s) \cup {view}
  <2>1. d \in Seq(Views)
    BY <1>3, <1>10, ConcatIs
  <2>2. Range(d) = Range(c) \cup Range(b)
    BY <1>3, <1>10, ConcatIs
  <2>3. Range(c) \cap Range(b) = {}
    BY <1>2, <1>7, <1>8, <1>10
  <2>4. IsInjective(d)
    BY <1>3, <1>6, <1>10, <2>3, ConcatIs
  <2> QED
    BY <1>8, <1>10, <2>1, <2>2, <2>4
<1> HIDE DEF d
<1>12. new \in Seq(Seq(Views)) /\ Len(new) = Len(in)
  BY <1>1, <1>11, ExceptSeq
<1>13. new # <<>>
  <2>1. Len(in) # 0
    BY EmptySeq
  <2> QED
    BY <1>12, <2>1, EmptySeq
<1>14. DOMAIN new = DOMAIN in /\ \A h \in DOMAIN in : new[h] = IF h = g THEN d ELSE in[h]
  OBVIOUS
<1>15. Apart(new)
  <2>1. \A h \in DOMAIN in : h # g => Range(in[h]) \cap (Range(s) \cup {view}) = {}
    BY DEF Apart, s
  <2> HIDE DEF new
  <2>2. \A h \in DOMAIN in : IsInjective(new[h])
    BY <1>11, <1>14 DEF Apart
  <2>3. ASSUME NEW h \in DOMAIN in, NEW k \in DOMAIN in, h # k
        PROVE  Range(new[h]) \cap Range(new[k]) = {}
    <3>1. CASE h = g
      BY <1>11, <1>14, <2>1, <2>3, <3>1
    <3>2. CASE k = g
      BY <1>11, <1>14, <2>1, <2>3, <3>2
    <3>3. CASE h # g /\ k # g
      BY <1>14, <2>3, <3>3 DEF Apart
    <3> QED
      BY <3>1, <3>2, <3>3
  <2> QED
    BY <1>14, <2>2, <2>3 DEF Apart
<1>16. to = new
  BY DEF Puts, new, d, c, b, a, s
<1> QED
  BY <1>12, <1>13, <1>15, <1>16

\* The views of a stack but the first, each held to the first.
Others(views) == IF views = <<>> THEN {} ELSE {<<v, views[1]>> : v \in Range(views) \ {views[1]}}

LEMMA SharedIs ==
  ASSUME NEW views \in Seq(Views), IsInjective(views), NEW all
  PROVE  /\ S!Shared(views, TRUE) = Others(views)
         /\ S!Shared(views, all) \subseteq Others(views)
<1>1. DOMAIN views = 1..Len(views) /\ Len(views) \in Nat
  BY LenProperties
<1>2. CASE Len(views) < 2
  <2>1. S!Shared(views, TRUE) = {} /\ S!Shared(views, all) = {}
    BY <1>2 DEF S!Shared
  <2>2. Others(views) = {}
    <3>1. CASE views = <<>>
      BY <3>1 DEF Others
    <3>2. CASE views # <<>>
      <4>1. Len(views) = 1
        BY <1>1, <1>2, <3>2, EmptySeq
      <4>2. DOMAIN views = {1}
        BY <1>1, <4>1
      <4>3. Range(views) = {views[1]}
        BY <4>2 DEF Range
      <4> QED
        BY <3>2, <4>3 DEF Others
    <3> QED
      BY <3>1, <3>2
  <2> QED
    BY <2>1, <2>2
<1>3. CASE ~(Len(views) < 2)
  <2> DEFINE X == {<<views[i], views[1]>> : i \in 2..Len(views)}
  <2>1. S!Shared(views, TRUE) = X /\ S!Shared(views, all) \in {X, {}}
    BY <1>3 DEF S!Shared
  <2>2. /\ 1 \in 1..Len(views) /\ views # <<>>
        /\ \A i \in 2..Len(views) : i \in 1..Len(views) /\ i # 1
        /\ \A i \in 1..Len(views) : i # 1 => i \in 2..Len(views)
    BY <1>1, <1>3, EmptySeq
  <2>3. Range(views) \ {views[1]} = {views[i] : i \in 2..Len(views)}
    <3>1. ASSUME NEW x \in Range(views) \ {views[1]}
          PROVE  x \in {views[i] : i \in 2..Len(views)}
      BY <1>1, <2>2, <3>1, Zenon DEF Range
    <3>2. ASSUME NEW i \in 2..Len(views) PROVE views[i] \in Range(views) \ {views[1]}
      BY <1>1, <2>2, <3>2, Zenon DEF Range, IsInjective
    <3> QED
      BY <3>1, <3>2
  <2>4. X = {<<v, views[1]>> : v \in {views[i] : i \in 2..Len(views)}}
    BY Zenon
  <2>5. X = Others(views)
    BY <2>2, <2>3, <2>4, Zenon DEF Others
  <2> QED
    BY <2>1, <2>5
<1> QED
  BY <1>2, <1>3

\* The constraints hold the views arranged to the first, and all of them if the
\* stack fills equally.
HeldEqual(views) == equal \subseteq Others(views) /\ (equally => equal = Others(views))

StackInv ==
    /\ lists \in Seq(Seq(Views)) /\ Len(lists) = Gravities /\ Apart(lists)
    /\ index[1] <= index[2] /\ equally \in BOOLEAN
    /\ HeldEqual(S!Arranged(lists))

\* The distribution applied to lists that are not as they were.
LEMMA ApplyHolds ==
  ASSUME Allowed \cap {"first", "again"} = {}, NEW in \in Seq(Seq(Views)), in # <<>>,
         Apart(in), NEW before, NEW left, NEW all \in BOOLEAN, S!Apply(in, before, left, all)
  PROVE  /\ equal' \subseteq Others(S!Arranged(in))
         /\ all => equal' = Others(S!Arranged(in))
<1> DEFINE views == S!Arranged(in)
<1>1. views \in Seq(Views) /\ IsInjective(views)
  BY ArrangedIs DEF Joins
<1>2. equal' = S!Shared(views, all)
  BY DEF S!Apply
<1> HIDE DEF views
<1>3. /\ S!Shared(views, TRUE) = Others(views)
      /\ S!Shared(views, all) \subseteq Others(views)
  BY <1>1, SharedIs
<1> QED
  BY <1>2, <1>3 DEF views

LEMMA ListsAre ==
  ASSUME StackInv
  PROVE  /\ lists # <<>> /\ DOMAIN lists = 1..Gravities /\ Gravities \in Nat \ {0}
         /\ S!Arranged(lists) \in Seq(Views)
         /\ Joins(S!Arranged(lists), lists, Gravities)
         /\ \A view : S!Within(view, lists)
                         <=> \E g \in DOMAIN lists : view \in Range(lists[g])
<1>1. Gravities \in Nat \ {0}
  BY FrameworkConstants DEF S!StackConstants
<1>2. lists # <<>> /\ DOMAIN lists = 1..Gravities
  BY <1>1, EmptySeq, LenProperties DEF StackInv
<1>3. S!Arranged(lists) \in Seq(Views) /\ Joins(S!Arranged(lists), lists, Gravities)
  BY <1>2, ArrangedIs DEF StackInv
<1>4. ASSUME NEW view
      PROVE  S!Within(view, lists) <=> \E g \in DOMAIN lists : view \in Range(lists[g])
  <2>1. S!Range(S!Arranged(lists)) = Range(S!Arranged(lists))
    BY DEF Range, S!Range
  <2>2. Range(S!Arranged(lists)) = UNION {Range(lists[g]) : g \in DOMAIN lists}
    BY <1>2, <1>3 DEF Joins
  <2> QED
    BY <2>1, <2>2 DEF S!Within
<1> QED
  BY <1>1, <1>2, <1>3, <1>4

LEMMA PutHolds ==
  ASSUME Allowed \cap {"first", "again"} = {}, StackInv, NEW view \in Views,
         NEW gravity \in 1..Gravities, NEW i \in Nat, S!Put(view, gravity, i)
  PROVE  StackInv'
<1> DEFINE in == S!Without(view)
           at == IF S!Within(view, lists) THEN S!Place(in, gravity, i) ELSE i
           new == [in EXCEPT ![gravity] = SubSeq(@, 1, at) \o <<view>>
                                          \o SubSeq(@, at + 1, Len(@))]
<1>1. /\ i <= Len(lists[gravity]) /\ lists' = new /\ index' = <<at, Len(in[gravity])>>
      /\ S!Apply(lists', builtFor, S!Unlinked(view), equally)
      /\ equally' = equally
  BY DEF S!Put
<1>2. /\ lists \in Seq(Seq(Views)) /\ lists # <<>> /\ Apart(lists)
      /\ DOMAIN lists = 1..Gravities /\ Len(lists) = Gravities
      /\ S!Within(view, lists) <=> \E g \in DOMAIN lists : view \in Range(lists[g])
  BY ListsAre DEF StackInv
<1>3. /\ in \in Seq(Seq(Views)) /\ in # <<>> /\ Apart(in)
      /\ DOMAIN in = DOMAIN lists /\ Len(in) = Len(lists)
      /\ \A g \in DOMAIN lists : /\ in[g] \in Seq(Views)
                                 /\ Range(in[g]) = Range(lists[g]) \ {view}
                                 /\ view \notin Range(lists[g]) => in[g] = lists[g]
  BY <1>2, WithoutIs
<1> HIDE DEF in
<1>4. Len(in[gravity]) \in Nat
  BY <1>2, <1>3, LenProperties
<1>5. at \in 0..Len(in[gravity])
  <2>1. CASE S!Within(view, lists)
    BY <1>4, <2>1 DEF S!Place
  <2>2. CASE ~S!Within(view, lists)
    <3>1. in[gravity] = lists[gravity]
      BY <1>2, <1>3, <2>2
    <3> QED
      BY <1>1, <1>4, <2>2, <3>1
  <2> QED
    BY <2>1, <2>2
<1> HIDE DEF at
<1>6. \A h \in DOMAIN in : view \notin Range(in[h])
  BY <1>3
<1>7. new \in Seq(Seq(Views)) /\ new # <<>> /\ Apart(new) /\ Len(new) = Len(in)
  <2>1. gravity \in DOMAIN in
    BY <1>2, <1>3
  <2>2. Puts(new, in, view, gravity, at)
    BY DEF Puts
  <2> HIDE DEF new
  <2>3. in \in Seq(Seq(Views)) /\ in # <<>> /\ Apart(in)
    BY <1>3
  <2>4. \A s \in Seq(Seq(Views)) : s # <<>> /\ Apart(s) =>
          \A g \in DOMAIN s : \A k \in 0..Len(s[g]) :
           (\A h \in DOMAIN s : view \notin Range(s[h])) => \A t : Puts(t, s, view, g, k) =>
             t \in Seq(Seq(Views)) /\ t # <<>> /\ Apart(t) /\ Len(t) = Len(s)
    BY PutIs
  <2> QED
    BY <1>5, <1>6, <2>1, <2>2, <2>3, <2>4
<1>8. index'[1] <= index'[2]
  BY <1>1, <1>4, <1>5
<1> HIDE DEF new
<1>9. /\ lists' \in Seq(Seq(Views)) /\ lists' # <<>> /\ Apart(lists')
      /\ Len(lists') = Gravities
  BY <1>1, <1>2, <1>3, <1>7
<1>10. /\ equal' \subseteq Others(S!Arranged(lists'))
       /\ equally => equal' = Others(S!Arranged(lists'))
  <2>1. equally \in BOOLEAN
    BY DEF StackInv
  <2> QED
    BY <1>1, <1>9, <2>1, ApplyHolds, Zenon
<1> QED
  BY <1>1, <1>8, <1>9, <1>10 DEF StackInv, HeldEqual

\* The first n lists are the same but for v.
Leaves(s, r, n, v) ==
    \A g \in 1..n :
       /\ v \notin Range(s[g]) => r[g] = s[g]
       /\ s[g] # <<>> /\ s[g][1] # v => r[g] # <<>> /\ r[g][1] = s[g][1]

\* The stack begins with the same view, unless that is the one that left.
LEMMA HeadStays ==
  ASSUME NEW s \in Seq(Seq(Views)), NEW r \in Seq(Seq(Views)), NEW n \in Nat,
         NEW a \in Seq(Views), NEW b \in Seq(Views), Joins(a, s, n), Joins(b, r, n),
         NEW v, Range(b) = Range(a) \ {v}, a # <<>>, a[1] # v, Leaves(s, r, n, v)
  PROVE  b # <<>> /\ b[1] = a[1]
<1>1. b # <<>>
  <2>1. a[1] \in Range(a)
    <3>1. 1 \in 1..Len(a) /\ DOMAIN a = 1..Len(a)
      BY EmptySeq, LenProperties
    <3> QED
      BY <3>1 DEF Range
  <2>2. Range(<<>>) = {}
    BY DEF Range
  <2> QED
    BY <2>1, <2>2
<1>2. PICK g \in 1..n : /\ s[g] # <<>> /\ a[1] = s[g][1]
                        /\ \A h \in 1..(g - 1) : s[h] = <<>>
  BY DEF Joins
<1>3. PICK k \in 1..n : /\ r[k] # <<>> /\ b[1] = r[k][1]
                        /\ \A h \in 1..(k - 1) : r[h] = <<>>
  BY <1>1 DEF Joins
<1>4. r[g] # <<>> /\ r[g][1] = a[1]
  BY <1>2 DEF Leaves
<1>5. ~(g < k)
  BY <1>3, <1>4
<1>6. ~(k < g)
  <2>1. SUFFICES ASSUME k < g PROVE FALSE
    OBVIOUS
  <2>2. s[k] = <<>>
    BY <1>2, <2>1
  <2>3. Range(s[k]) = {}
    BY <2>2 DEF Range
  <2> QED
    BY <1>3, <2>2, <2>3 DEF Leaves
<1> QED
  BY <1>1, <1>3, <1>4, <1>5, <1>6

LEMMA RemoveHolds ==
  ASSUME Allowed \cap {"first", "again"} = {}, StackInv, NEW view \in Views,
         S!RemoveArrangedSubview(view)
  PROVE  StackInv'
<1> DEFINE in == S!Without(view)
           a == S!Arranged(lists)
           b == S!Arranged(in)
<1>1. /\ S!Within(view, lists) /\ lists' = in /\ equal' = S!Unlinked(view)
      /\ view = Head(a) => ~(Len(a) > 2)
      /\ index' = index /\ equally' = equally
  BY DEF S!RemoveArrangedSubview
<1>2. /\ lists \in Seq(Seq(Views)) /\ lists # <<>> /\ Apart(lists)
      /\ DOMAIN lists = 1..Gravities /\ Len(lists) = Gravities /\ Gravities \in Nat
      /\ a \in Seq(Views) /\ Joins(a, lists, Gravities)
      /\ \E g \in DOMAIN lists : view \in Range(lists[g])
  BY <1>1, ListsAre DEF StackInv
<1>3. /\ in \in Seq(Seq(Views)) /\ in # <<>> /\ Apart(in)
      /\ DOMAIN in = DOMAIN lists /\ Len(in) = Len(lists)
      /\ \A g \in DOMAIN lists :
            /\ Range(in[g]) = Range(lists[g]) \ {view}
            /\ view \notin Range(lists[g]) => in[g] = lists[g]
            /\ lists[g] # <<>> /\ lists[g][1] # view
                  => in[g] # <<>> /\ in[g][1] = lists[g][1]
  BY <1>2, WithoutIs
<1> HIDE DEF in
<1>4. b \in Seq(Views) /\ Joins(b, in, Gravities)
  BY <1>2, <1>3, ArrangedIs
<1>5. equal \subseteq Others(a) /\ (equally => equal = Others(a)) /\ equally \in BOOLEAN
  BY DEF StackInv, HeldEqual
<1> HIDE DEF a, b
<1>6. Range(b) = Range(a) \ {view}
  <2>1. Range(a) = UNION {Range(lists[g]) : g \in 1..Gravities}
    BY <1>2 DEF Joins
  <2>2. Range(b) = UNION {Range(in[g]) : g \in 1..Gravities}
    BY <1>4 DEF Joins
  <2>3. \A g \in 1..Gravities : Range(in[g]) = Range(lists[g]) \ {view}
    BY <1>2, <1>3
  <2> QED
    BY <2>1, <2>2, <2>3
<1>7. view \in Range(a)
  BY <1>2 DEF Joins
<1>8. /\ Len(a) \in Nat /\ DOMAIN a = 1..Len(a) /\ a # <<>> /\ Head(a) = a[1]
      /\ IsInjective(a) /\ IsInjective(b)
  <2>1. Len(a) \in Nat /\ DOMAIN a = 1..Len(a)
    BY <1>2, LenProperties
  <2>2. a # <<>>
    BY <1>7 DEF Range
  <2> QED
    BY <1>2, <1>4, <2>1, <2>2 DEF Joins
<1>9. equal' \subseteq Others(b) /\ (equally => equal' = Others(b))
  <2>1. CASE view = a[1]
    <3>1. Len(a) <= 2
      BY <1>1, <1>8, <2>1
    <3>2. equal' = {}
      BY <1>1, <1>5, <1>8, <2>1 DEF S!Unlinked, Others
    <3>3. Range(a) \subseteq {a[1], a[2]}
      BY <1>8, <3>1 DEF Range
    <3>4. Range(b) \subseteq {a[2]}
      BY <1>6, <2>1, <3>3
    <3>5. ASSUME b # <<>> PROVE b[1] \in Range(b)
      <4>1. 1 \in 1..Len(b) /\ DOMAIN b = 1..Len(b)
        BY <1>4, <3>5, EmptySeq, LenProperties
      <4> QED
        BY <4>1 DEF Range
    <3>6. Others(b) = {}
      BY <3>4, <3>5 DEF Others
    <3> QED
      BY <3>2, <3>6
  <2>2. CASE view # a[1]
    <3>1. b # <<>> /\ b[1] = a[1]
      <4>1. Leaves(lists, in, Gravities, view)
        BY <1>2, <1>3 DEF Leaves
      <4>2. /\ lists \in Seq(Seq(Views)) /\ in \in Seq(Seq(Views)) /\ Gravities \in Nat
            /\ a \in Seq(Views) /\ b \in Seq(Views)
            /\ Joins(a, lists, Gravities) /\ Joins(b, in, Gravities)
        BY <1>2, <1>3, <1>4
      <4>3. Range(b) = Range(a) \ {view} /\ a # <<>> /\ a[1] # view
        BY <1>6, <1>8, <2>2
      <4> QED
        BY <4>1, <4>2, <4>3, HeadStays
    <3>2. Others(b) = {<<v, a[1]>> : v \in (Range(a) \ {view}) \ {a[1]}}
      BY <1>6, <3>1 DEF Others
    <3>3. Others(a) = {<<v, a[1]>> : v \in Range(a) \ {a[1]}}
      BY <1>8 DEF Others
    <3>4. equal' = {c \in equal : view \notin {c[1], c[2]}}
      BY <1>1 DEF S!Unlinked
    <3>5. {c \in Others(a) : view \notin {c[1], c[2]}} = Others(b)
      BY <2>2, <3>2, <3>3
    <3> QED
      BY <1>5, <3>4, <3>5
  <2> QED
    BY <2>1, <2>2
<1> QED
  BY <1>1, <1>2, <1>3, <1>5, <1>9 DEF StackInv, HeldEqual, b

LEMMA DistributionHolds ==
  ASSUME Allowed \cap {"first", "again"} = {}, StackInv, NEW fill \in BOOLEAN,
         S!SetDistribution(fill)
  PROVE  StackInv'
<1>1. /\ equally' = fill /\ S!Apply(lists, Nil, {}, fill)
      /\ lists' = lists /\ index' = index
  BY DEF S!SetDistribution
<1>2. lists \in Seq(Seq(Views)) /\ lists # <<>> /\ Apart(lists)
  BY ListsAre DEF StackInv
<1>3. /\ equal' \subseteq Others(S!Arranged(lists))
      /\ fill => equal' = Others(S!Arranged(lists))
  BY <1>1, <1>2, ApplyHolds
<1> QED
  BY <1>1, <1>3 DEF StackInv, HeldEqual

LEMMA StacksStep ==
  ASSUME Allowed \cap {"first", "again"} = {}
  PROVE  StackInv /\ S!Next => StackInv'
<1> SUFFICES ASSUME StackInv, S!Next PROVE StackInv'
  OBVIOUS
<1>1. PICK view \in Views :
         \/ \E gravity \in 1..Gravities :
               \/ S!AddView(view, gravity)
               \/ \E i \in 0..Len(lists[gravity]) : S!InsertView(view, gravity, i)
         \/ S!RemoveArrangedSubview(view)
         \/ \E fill \in BOOLEAN : S!SetDistribution(fill)
         \/ S!Resize(view)
  BY DEF S!Next
<1>2. ASSUME NEW gravity \in 1..Gravities, S!AddView(view, gravity) PROVE StackInv'
  <2>1. Len(S!Without(view)[gravity]) \in Nat
    BY ListsAre, WithoutIs, LenProperties DEF StackInv
  <2> QED
    BY <1>2, <2>1, PutHolds DEF S!AddView
<1>3. ASSUME NEW gravity \in 1..Gravities, NEW i \in 0..Len(lists[gravity]),
             S!InsertView(view, gravity, i)
      PROVE  StackInv'
  BY <1>3, PutHolds DEF S!InsertView
<1>4. S!Resize(view) => StackInv'
  BY DEF S!Resize, StackInv, HeldEqual
<1> QED
  BY <1>1, <1>2, <1>3, <1>4, RemoveHolds, DistributionHolds

LEMMA StacksOnly ==
  ASSUME [MCNext]_frameworks
  PROVE  S!Next \/ UNCHANGED stacks
  BY DEF MCNext, frameworks, stacks, S!vars

LEMMA StacksBegin ==
  ASSUME S!Init
  PROVE  StackInv
<1>1. Gravities \in Nat \ {0}
  BY FrameworkConstants DEF S!StackConstants
<1>2. /\ lists = [g \in 1..Gravities |-> <<>>] /\ equal = {} /\ equally = FALSE
      /\ index = <<0, 0>>
  BY DEF S!Init
<1>3. lists \in Seq(Seq(Views)) /\ Len(lists) = Gravities /\ DOMAIN lists = 1..Gravities
  <2> DEFINE T == Seq(Views)
  <2>1. <<>> \in T
    OBVIOUS
  <2> HIDE DEF T
  <2>2. lists \in [1..Gravities -> T]
    BY <1>2, <2>1
  <2>3. lists \in Seq(T) /\ Len(lists) = Gravities /\ DOMAIN lists = 1..Gravities
    BY <1>1, <2>2
  <2> QED
    BY <2>3 DEF T
<1>4. \A g \in 1..Gravities : lists[g] = <<>>
  BY <1>2
<1>5. Apart(lists)
  <2>1. IsInjective(<<>>) /\ Range(<<>>) = {}
    BY DEF IsInjective, Range
  <2> QED
    BY <1>3, <1>4, <2>1 DEF Apart
<1>6. Others(S!Arranged(lists)) = {}
  <2>1. lists # <<>>
    BY <1>1, <1>3, EmptySeq
  <2>2. Joins(S!Arranged(lists), lists, Gravities)
    BY <1>3, <1>5, <2>1, ArrangedIs
  <2>3. S!Arranged(lists) = <<>>
    BY <1>4, <2>2 DEF Joins
  <2> QED
    BY <2>3 DEF Others
<1>7. index[1] <= index[2]
  BY <1>2
<1>8. HeldEqual(S!Arranged(lists)) /\ equally \in BOOLEAN
  BY <1>2, <1>6 DEF HeldEqual
<1> QED
  BY <1>3, <1>5, <1>7, <1>8 DEF StackInv

LEMMA StacksKept ==
  ASSUME StackInv
  PROVE  S!SharedEqually /\ S!Insertable
<1> DEFINE a == S!Arranged(lists)
<1>1. /\ a \in Seq(Views) /\ IsInjective(a)
      /\ \A view : S!Within(view, lists) <=> view \in Range(a)
  BY ListsAre DEF Joins, S!Within, Range, S!Range
<1>2. /\ equal \subseteq Others(a) /\ (equally => equal = Others(a))
      /\ index[1] <= index[2]
  BY DEF StackInv, HeldEqual
<1> HIDE DEF a
<1>3. S!Shared(a, TRUE) = Others(a)
  BY <1>1, SharedIs
<1>4. ASSUME NEW c \in equal PROVE S!Within(c[1], lists) /\ c[2] = Head(a)
  <2>1. a # <<>> /\ \E v \in Range(a) : c = <<v, a[1]>>
    BY <1>2 DEF Others
  <2>2. Head(a) = a[1]
    BY <1>1, <2>1
  <2> QED
    BY <1>1, <2>1, <2>2
<1>5. S!IsInjective(a)
  BY <1>1 DEF IsInjective, S!IsInjective
<1> QED
  BY <1>2, <1>3, <1>4, <1>5 DEF S!SharedEqually, S!Insertable, a

\* Views share a stack equally, each is in it once and put within it
\* (eh_applyDistribution, EHStackInsertViewAtIndexInGravity), and keep the frames
\* that no constraint determines, if the program does not remove the first view
\* and leave it at that, puts no view back where it was, and does not collapse
\* a view itself.
THEOREM LayoutStays ==
  ASSUME Allowed \cap {"first", "again", "half", "zero"} = {}
  PROVE  MCSpec => []LayoutKept
<1>1. Allowed \cap {"first", "again"} = {} /\ Allowed \cap {"half", "zero"} = {}
  OBVIOUS
<1>2. MCInit => StackInv
  BY StacksBegin DEF MCInit
<1>3. StackInv /\ [MCNext]_frameworks => StackInv'
  <2>1. StackInv /\ UNCHANGED stacks => StackInv'
    BY DEF StackInv, HeldEqual, stacks
  <2> QED
    BY <1>1, <2>1, StacksStep, StacksOnly
<1>4. StackInv /\ FrameKept => LayoutKept
  BY StacksKept DEF LayoutKept
<1>5. MCSpec => []FrameKept
  BY <1>1, FramesKept
<1> QED
  BY <1>2, <1>3, <1>4, <1>5, PTL DEF MCSpec

-----------------------------------------------------------------------------
(***************************************************************************)
(* Delegates                                                               *)
(***************************************************************************)
Phase == {"live", "dying", "compared", "freed"}

LayersType ==
    /\ delegate \in [Layers -> Owners \cup {Nil}]
    /\ made \in [Layers -> Owners \cup {Nil}]
    /\ lives \in [Owners -> Phase]
    /\ links \in [Owners -> SUBSET Layers]
    /\ stale \in [Owners -> SUBSET Layers]
    /\ linking \subseteq Layers \X Owners

\* A layer that points to a delegate is in its backlinks, or about to be ...
Linked == \A l \in Layers, d \in Owners :
    delegate[l] = d => l \in links[d] \/ <<l, d>> \in linking

\* ... while the caller of setDelegate: keeps the delegate alive.
LinkingLive == \A l \in Layers, d \in Owners : <<l, d>> \in linking => lives[d] = "live"

\* Between the comparison and the clearing, exactly the layers found point to it.
Compared == \A l \in Layers, d \in Owners :
    l \in stale[d] <=> lives[d] = "compared" /\ delegate[l] = d

\* The delegates that a change of the tree works with are held throughout.
Hold ==
    /\ change.at \in {"none", "collected", "changed"}
    /\ change.held \subseteq Owners /\ change.due \subseteq change.held
    /\ \A d \in change.due : lives[d] = "live" /\ \A l \in Layers : <<l, d>> \notin linking

\* None is asked on its way out, and all that a change works with are collected.
Spared == Allowed \cap {"dying", "deep"} = {}
OnlyLive == /\ \A d \in change.held : lives[d] = "live"
            /\ change.at = "collected" => change.seen \subseteq change.held
            /\ L!OnlyLiveAsked

LayersInv == /\ LayersType /\ Linked /\ LinkingLive /\ Compared
             /\ Hold /\ L!Zeroing
             /\ Spared => OnlyLive

\* Whom a layer points to has not been destroyed.
LEMMA PointedLives ==
  ASSUME LayersInv, NEW l \in Layers, delegate[l] # Nil
  PROVE  delegate[l] \in Owners /\ lives[delegate[l]] # "freed"
  BY DEF LayersInv, LayersType, L!Zeroing

LEMMA NilIsNone == Nil \notin Layers \cup Owners
  BY FrameworkConstants DEF L!LayerConstants

LEMMA SetDelegateSafe ==
  ASSUME LayersInv, NEW l \in Layers, NEW d \in Owners \cup {Nil},
         L!SetDelegate(l, d), "race" \notin Allowed
  PROVE  LayersInv'
<1> USE NilIsNone DEF LayersInv, LayersType, L!SetDelegate, L!Quiet
<1>1. \A e \in Owners : l \notin stale[e]
  OBVIOUS
<1>2. /\ delegate' = [delegate EXCEPT ![l] = d] /\ made' = [made EXCEPT ![l] = d]
      /\ linking' = IF d = Nil THEN linking ELSE linking \cup {<<l, d>>}
      /\ UNCHANGED <<lives, links, stale, change>> /\ asked' = {}
      /\ d # Nil => lives[d] = "live" /\ d \notin change.due
  OBVIOUS
<1>3. LayersType'
  BY <1>2
<1>4. Linked'
  BY <1>2 DEF Linked
<1>5. LinkingLive'
  BY <1>2 DEF LinkingLive
<1>6. Compared'
  BY <1>1, <1>2 DEF Compared
<1>7. Hold'
  BY <1>2 DEF Hold
<1>8. L!Zeroing'
  BY <1>2 DEF L!Zeroing
<1>9. (Spared => OnlyLive')
  BY <1>2 DEF OnlyLive, L!OnlyLiveAsked
<1> QED
  BY <1>3, <1>4, <1>5, <1>6, <1>7, <1>8, <1>9

LEMMA AddLayerSafe ==
  ASSUME LayersInv, NEW l \in Layers, NEW d \in Owners,
         L!AddLayer(l, d), "direct" \notin Allowed
  PROVE  LayersInv'
<1>1. /\ links' = [links EXCEPT ![d] = @ \cup {l}]
      /\ linking' = linking \ {<<l, d>>} /\ asked' = {}
      /\ UNCHANGED <<delegate, made, lives, stale, change>>
  BY DEF L!AddLayer, L!Quiet
<1>2. LayersType' /\ Linked'
  BY <1>1 DEF LayersInv, LayersType, Linked
<1>3. LinkingLive' /\ Compared' /\ Hold'
  BY <1>1 DEF LayersInv, LinkingLive, Compared, Hold
<1>4. L!Zeroing' /\ (Spared => OnlyLive')
  BY <1>1 DEF LayersInv, L!Zeroing, OnlyLive, L!OnlyLiveAsked
<1> QED
  BY <1>2, <1>3, <1>4 DEF LayersInv

LEMMA ReleaseSafe ==
  ASSUME LayersInv, NEW d \in Owners, L!Release(d)
  PROVE  LayersInv'
<1>1. /\ lives' = [lives EXCEPT ![d] = "dying"] /\ lives[d] = "live"
      /\ d \notin change.held /\ \A l \in Layers : <<l, d>> \notin linking
      /\ UNCHANGED <<delegate, made, links, stale, linking, change>> /\ asked' = {}
  BY DEF L!Release, L!Quiet, L!pointers
<1>2. LayersType' /\ Linked'
  BY <1>1 DEF LayersInv, LayersType, Linked, Phase
<1>3. LinkingLive' /\ Compared' /\ Hold'
  BY <1>1 DEF LayersInv, LayersType, LinkingLive, Compared, Hold
<1>4. L!Zeroing' /\ (Spared => OnlyLive')
  BY <1>1 DEF LayersInv, LayersType, L!Zeroing, OnlyLive, L!OnlyLiveAsked
<1> QED
  BY <1>2, <1>3, <1>4 DEF LayersInv

LEMMA CompareSafe ==
  ASSUME LayersInv, NEW d \in Owners, L!Compare(d)
  PROVE  LayersInv'
<1>1. /\ lives' = [lives EXCEPT ![d] = "compared"] /\ lives[d] = "dying"
      /\ stale' = [stale EXCEPT ![d] = {l \in links[d] : delegate[l] = d}]
      /\ UNCHANGED <<delegate, made, links, linking, change>> /\ asked' = {}
  BY DEF L!Compare, L!Aimed, L!Quiet
<1>2. \A l \in Layers : delegate[l] = d => l \in links[d]
  BY <1>1 DEF LayersInv, Linked, LinkingLive
<1>3. LayersType' /\ Linked'
  BY <1>1 DEF LayersInv, LayersType, Linked, Phase
<1>4. LinkingLive' /\ Hold'
  BY <1>1 DEF LayersInv, LayersType, LinkingLive, Hold
<1>5. Compared'
  BY <1>1, <1>2 DEF LayersInv, LayersType, Compared
<1>6. L!Zeroing' /\ (Spared => OnlyLive')
  BY <1>1 DEF LayersInv, LayersType, L!Zeroing, OnlyLive, L!OnlyLiveAsked
<1> QED
  BY <1>3, <1>4, <1>5, <1>6 DEF LayersInv

LEMMA ClearSafe ==
  ASSUME LayersInv, NEW d \in Owners, L!Clear(d)
  PROVE  LayersInv'
<1>1. /\ lives' = [lives EXCEPT ![d] = "freed"] /\ lives[d] = "compared"
      /\ delegate' = [l \in Layers |-> IF l \in stale[d] THEN Nil ELSE delegate[l]]
      /\ links' = [links EXCEPT ![d] = {}] /\ stale' = [stale EXCEPT ![d] = {}]
      /\ UNCHANGED <<made, linking, change>> /\ asked' = {}
  BY DEF L!Clear, L!Quiet
<1>2. \A l \in Layers : l \in stale[d] <=> delegate[l] = d
  BY <1>1 DEF LayersInv, Compared
<1>3. LayersType'
  BY <1>1 DEF LayersInv, LayersType, Phase
<1>4. Linked'
  BY <1>1, <1>2, NilIsNone DEF LayersInv, LayersType, Linked
<1>5. LinkingLive' /\ Hold'
  BY <1>1 DEF LayersInv, LayersType, LinkingLive, Hold
<1>6. Compared'
  BY <1>1, <1>2, NilIsNone DEF LayersInv, LayersType, Compared
<1>7. L!Zeroing' /\ (Spared => OnlyLive')
  BY <1>1, <1>2, NilIsNone DEF LayersInv, LayersType, L!Zeroing, OnlyLive, L!OnlyLiveAsked
<1> QED
  BY <1>3, <1>4, <1>5, <1>6, <1>7 DEF LayersInv

LEMMA AnimateSafe ==
  ASSUME LayersInv, NEW l \in Layers, L!Animate(l)
  PROVE  LayersInv'
<1>1. /\ asked' = {delegate[l]} /\ delegate[l] # Nil
      /\ lives[delegate[l]] \in {"live", "freed"} \/ "dying" \in Allowed
      /\ UNCHANGED <<delegate, made, lives, links, stale, linking, change>>
  BY DEF L!Animate, L!Asks, L!pointers
<1>2. Spared => OnlyLive'
  BY <1>1, PointedLives DEF LayersInv, Spared, OnlyLive, L!OnlyLiveAsked
<1> QED
  BY <1>1, <1>2 DEF LayersInv, LayersType, Linked, LinkingLive, Compared, Hold, L!Zeroing

\* What the change works with is collected, unless a layer lies too deep.
LEMMA CollectSafe ==
  ASSUME LayersInv, NEW gone, NEW new, NEW into, NEW tops, L!Collect(gone, new, into, tops)
  PROVE  LayersInv'
<1> DEFINE held == L!Involved(tops)
           seen == L!Delegates(L!Under(tops))
<1>1. /\ asked' = held
      /\ \A d \in held : lives[d] \in {"live", "freed"} \/ "dying" \in Allowed
      /\ change'.at = "collected" /\ change'.seen = seen
      /\ change'.held = held /\ change'.due = {}
      /\ UNCHANGED <<delegate, made, lives, links, stale, linking>>
  BY DEF L!Collect, L!Asks, L!NoChange, L!pointers
<1>2. \/ "deep" \in Allowed
      \/ L!Under(tops) \subseteq UNION {L!Collected(l) : l \in tops}
  BY DEF L!Collect
<1>3. Spared => seen \subseteq held
  BY <1>2 DEF Spared, L!Involved, L!Delegates
<1>4. held \subseteq {delegate[l] : l \in Layers} \ {Nil}
  BY DEF L!Involved, L!Delegates, L!Collected, L!Under
<1> HIDE DEF held, seen
<1>5. \A d \in held : d \in Owners /\ lives[d] # "freed"
  BY <1>4, PointedLives
<1>6. Spared => \A d \in held : lives[d] = "live"
  BY <1>1, <1>5 DEF Spared
<1>7. Spared => OnlyLive'
  BY <1>1, <1>3, <1>6 DEF OnlyLive, L!OnlyLiveAsked
<1>8. Hold'
  BY <1>1, <1>5 DEF Hold
<1> QED
  BY <1>1, <1>7, <1>8 DEF LayersInv, LayersType, Linked, LinkingLive, Compared, L!Zeroing

LEMMA RemoveSafe ==
  ASSUME LayersInv, NEW l \in Layers, L!RemoveFromSuperlayer(l)
  PROVE  LayersInv'
  BY CollectSafe DEF L!RemoveFromSuperlayer

LEMMA SetSublayersSafe ==
  ASSUME LayersInv, NEW l \in Layers, NEW new \in SUBSET Layers, L!SetSublayers(l, new)
  PROVE  LayersInv'
  BY CollectSafe DEF L!SetSublayers

LEMMA ChangeSafe ==
  ASSUME LayersInv, NEW ended \in SUBSET Owners, L!Change(ended)
  PROVE  LayersInv'
<1>1. /\ change.at = "collected"
      /\ \A d \in ended : lives[d] = "live" /\ \A l \in Layers : <<l, d>> \notin linking
      /\ lives' = [d \in Owners |-> IF d \in ended \ change.held THEN "dying" ELSE lives[d]]
      /\ change'.at = "changed" /\ change'.held = change.held
      /\ change'.due = ended \cap change.held
      /\ asked' = change.seen
      /\ UNCHANGED <<delegate, made, links, stale, linking>>
  BY DEF L!Change, L!NoChange, L!pointers
<1>2. LayersType' /\ Linked'
  BY <1>1 DEF LayersInv, LayersType, Linked, Phase
<1>3. LinkingLive'
  BY <1>1 DEF LayersInv, LayersType, LinkingLive
<1>4. Compared'
  BY <1>1 DEF LayersInv, LayersType, Compared
<1>5. Hold' /\ (Spared => OnlyLive')
  BY <1>1 DEF LayersInv, LayersType, Hold, OnlyLive, L!OnlyLiveAsked
<1>6. L!Zeroing'
  BY <1>1 DEF LayersInv, LayersType, L!Zeroing
<1> QED
  BY <1>2, <1>3, <1>4, <1>5, <1>6 DEF LayersInv

LEMMA LetGoSafe ==
  ASSUME LayersInv, L!LetGo
  PROVE  LayersInv'
<1>1. /\ lives' = [d \in Owners |-> IF d \in change.due THEN "dying" ELSE lives[d]]
      /\ change'.at = "none" /\ change'.held = {} /\ change'.due = {}
      /\ asked' = {}
      /\ UNCHANGED <<delegate, made, links, stale, linking>>
  BY DEF L!LetGo, L!NoChange, L!Quiet, L!pointers
<1>2. \A d \in change.due : /\ d \in Owners /\ lives[d] = "live"
                            /\ \A l \in Layers : <<l, d>> \notin linking
  BY DEF LayersInv, Hold
<1>3. LayersType' /\ Linked'
  BY <1>1 DEF LayersInv, LayersType, Linked, Phase
<1>4. LinkingLive' /\ Compared'
  BY <1>1, <1>2 DEF LayersInv, LayersType, LinkingLive, Compared
<1>5. Hold' /\ (Spared => OnlyLive')
  BY <1>1 DEF Hold, OnlyLive, L!OnlyLiveAsked
<1>6. L!Zeroing'
  BY <1>1, <1>2 DEF LayersInv, LayersType, L!Zeroing
<1> QED
  BY <1>3, <1>4, <1>5, <1>6 DEF LayersInv

LEMMA LayersStep ==
  ASSUME Allowed \cap {"race", "direct"} = {}
  PROVE  LayersInv /\ L!Next => LayersInv'
<1>1. "race" \notin Allowed /\ "direct" \notin Allowed
  OBVIOUS
<1> QED
  BY <1>1, SetDelegateSafe, AddLayerSafe, ReleaseSafe, CompareSafe, ClearSafe,
     AnimateSafe, RemoveSafe, SetSublayersSafe, ChangeSafe, LetGoSafe DEF L!Next

\* A layer's delegate is a zeroing weak reference (EHLayerSetDelegate), if delegates
\* are set by setDelegate: and not while another thread destroys the one before;
\* and then none is sent a message once its destruction has begun, if all that a
\* change of the layers' tree works with are collected (EHCollectDelegates) and none
\* on its way out is asked for an animation.
THEOREM DelegatesStaySafe ==
  ASSUME Allowed \cap {"race", "direct"} = {}
  PROVE  MCSpec => [](L!Zeroing /\ (Allowed \cap {"dying", "deep"} = {} => DelegatesSafe))
<1>1. MCInit => LayersInv
  <2> SUFFICES ASSUME MCInit PROVE LayersInv
    OBVIOUS
  <2> USE NilIsNone DEF MCInit, L!Init, L!NoChange
  <2>1. LayersType
    BY DEF LayersType, Phase
  <2>2. Linked /\ LinkingLive /\ Compared
    BY DEF Linked, LinkingLive, Compared
  <2>3. Hold /\ L!Zeroing /\ OnlyLive
    BY DEF Hold, L!Zeroing, OnlyLive, L!OnlyLiveAsked
  <2> QED
    BY <2>1, <2>2, <2>3 DEF LayersInv
<1>2. LayersInv /\ [MCNext]_frameworks => LayersInv'
  <2>1. ASSUME [MCNext]_frameworks PROVE L!Next \/ UNCHANGED layers
    BY <2>1 DEF MCNext, frameworks, layers, L!vars
  <2>2. LayersInv /\ UNCHANGED layers => LayersInv'
    BY DEF LayersInv, LayersType, Linked, LinkingLive, Compared, Hold, layers,
           L!Zeroing, OnlyLive, L!OnlyLiveAsked
  <2> QED
    BY <2>1, <2>2, LayersStep
<1>3. LayersInv => L!Zeroing /\ (Allowed \cap {"dying", "deep"} = {} => DelegatesSafe)
  BY DEF LayersInv, Spared, OnlyLive, DelegatesSafe
<1> QED
  BY <1>1, <1>2, <1>3, PTL DEF MCSpec

-----------------------------------------------------------------------------
(***************************************************************************)
(* Controllers                                                             *)
(***************************************************************************)
LEMMA NobodyIsNone == Nil \notin Controllers
  BY FrameworkConstants DEF C!ControllerConstants

Where == {"out", "superview", "window"}
Callbacks == {"DidLoad", "WillAppear", "DidAppear", "WillDisappear", "DidDisappear"}

\* What a call has left to do, in one of six forms.
LoadItems == {C!Item("load", c, "view") : c \in Controllers}
LoadedItems == {C!Item("loaded", c, "view") : c \in Controllers}
MoveItems == {C!Item("move", c, to) : c \in Controllers, to \in Where}
SwapItems == {C!Item("swap", c, d) : c \in Controllers, d \in Controllers}
TellItems == {C!Tell(c, what) : c \in Controllers, what \in Callbacks}
Reasons == {"told", "completion", "loadView"}
InItems == {C!Item("in", c, why) : c \in Controllers, why \in Reasons}
Items == LoadItems \cup LoadedItems \cup MoveItems \cup SwapItems \cup TellItems \cup InItems

\* Each of the two has the view loaded once its call is done; `Marks` is the later.
Makes(x, c) == x[1] \in {"load", "loaded"} /\ x[2] = c
Marks(x, c) == x[1] = "loaded" /\ x[2] = c
Moves(x, c) == \/ x[1] = "move" /\ x[2] = c
               \/ x[1] = "swap" /\ (x[2] = c \/ x[3] = c)
Tells(x, c) == x[1] = "tell" /\ x[2] = c
LoadedBy(x) == {c \in Controllers : Makes(x, c)}

LEMMA LoadItem ==
  ASSUME NEW c \in Controllers, NEW x, x = C!Item("load", c, "view")
  PROVE  /\ x \in Items /\ x[1] = "load" /\ x[2] = c
         /\ \A d : ~Moves(x, d) /\ ~Tells(x, d) /\ ~Marks(x, d) /\ (Makes(x, d) <=> d = c)
  BY DEF Items, LoadItems, C!Item, Makes, Marks, Moves, Tells

LEMMA LoadedItem ==
  ASSUME NEW c \in Controllers, NEW x, x = C!Item("loaded", c, "view")
  PROVE  /\ x \in Items /\ x[1] = "loaded" /\ x[2] = c
         /\ \A d : /\ ~Moves(x, d) /\ ~Tells(x, d)
                  /\ (Marks(x, d) <=> d = c) /\ (Makes(x, d) <=> d = c)
  BY DEF Items, LoadedItems, C!Item, Makes, Marks, Moves, Tells

LEMMA MoveItem ==
  ASSUME NEW c \in Controllers, NEW to \in Where, NEW x, x = C!Item("move", c, to)
  PROVE  /\ x \in Items /\ x[1] = "move" /\ x[2] = c /\ x[3] = to
         /\ \A d : ~Makes(x, d) /\ ~Tells(x, d) /\ (Moves(x, d) <=> d = c)
  BY DEF Items, MoveItems, C!Item, Makes, Moves, Tells

LEMMA SwapItem ==
  ASSUME NEW c \in Controllers, NEW e \in Controllers, NEW x, x = C!Item("swap", c, e)
  PROVE  /\ x \in Items /\ x[1] = "swap" /\ x[2] = c /\ x[3] = e
         /\ \A d : ~Makes(x, d) /\ ~Tells(x, d) /\ (Moves(x, d) <=> d \in {c, e})
  BY DEF Items, SwapItems, C!Item, Makes, Moves, Tells

LEMMA TellItem ==
  ASSUME NEW c \in Controllers, NEW what \in Callbacks, NEW x, x = C!Tell(c, what)
  PROVE  /\ x \in Items /\ x[1] = "tell" /\ x[2] = c /\ x[3] = what
         /\ \A d : ~Makes(x, d) /\ ~Moves(x, d) /\ (Tells(x, d) <=> d = c)
  BY DEF Items, TellItems, C!Tell, C!Item, Makes, Moves, Tells

LEMMA InItem ==
  ASSUME NEW c \in Controllers, NEW why \in Reasons, NEW x, x = C!Item("in", c, why)
  PROVE  /\ x \in Items /\ x[1] = "in"
         /\ \A d : ~Makes(x, d) /\ ~Moves(x, d) /\ ~Tells(x, d)
  BY DEF Items, InItems, C!Item, Makes, Moves, Tells

\* An item's first part says which form it has.
LEMMA ItemForms ==
  ASSUME NEW x \in Items
  PROVE  /\ x[1] = "load" => \E c \in Controllers : x = C!Item("load", c, "view")
         /\ x[1] = "move" => \E c \in Controllers, to \in Where : x = C!Item("move", c, to)
         /\ x[1] = "swap" => \E c, d \in Controllers : x = C!Item("swap", c, d)
         /\ x[1] = "tell" => \E c \in Controllers, what \in Callbacks : x = C!Tell(c, what)
         /\ x[1] = "in" => \E c \in Controllers, why \in Reasons : x = C!Item("in", c, why)
         /\ x[1] = "loaded" => \E c \in Controllers : x = C!Item("loaded", c, "view")
<1>1. CASE x \in LoadItems
  <2>1. PICK c \in Controllers : x = C!Item("load", c, "view")
    BY <1>1 DEF LoadItems
  <2> QED
    BY <2>1, LoadItem
<1>2. CASE x \in MoveItems
  <2>1. PICK c \in Controllers, to \in Where : x = C!Item("move", c, to)
    BY <1>2 DEF MoveItems
  <2> QED
    BY <2>1, MoveItem
<1>3. CASE x \in SwapItems
  <2>1. PICK c \in Controllers, d \in Controllers : x = C!Item("swap", c, d)
    BY <1>3 DEF SwapItems
  <2> QED
    BY <2>1, SwapItem
<1>4. CASE x \in TellItems
  <2>1. PICK c \in Controllers, what \in Callbacks : x = C!Tell(c, what)
    BY <1>4 DEF TellItems
  <2> QED
    BY <2>1, TellItem
<1>5. CASE x \in InItems
  <2>1. PICK c \in Controllers, why \in Reasons : x = C!Item("in", c, why)
    BY <1>5 DEF InItems
  <2> QED
    BY <2>1, InItem
<1>6. CASE x \in LoadedItems
  <2>1. PICK c \in Controllers : x = C!Item("loaded", c, "view")
    BY <1>6 DEF LoadedItems
  <2> QED
    BY <2>1, LoadedItem
<1> QED
  BY <1>1, <1>2, <1>3, <1>4, <1>5, <1>6 DEF Items

-----------------------------------------------------------------------------
\* An item put on what is left to do, and what that means by place.
Onto(x, s) == <<x>> \o s

LEMMA OntoParts ==
  ASSUME NEW x \in Items, NEW s \in Seq(Items)
  PROVE  /\ Onto(x, s) \in Seq(Items) /\ Onto(x, s) # <<>>
         /\ Head(Onto(x, s)) = x /\ Tail(Onto(x, s)) = s
         /\ DOMAIN Onto(x, s) = 1..(Len(s) + 1) /\ DOMAIN s = 1..Len(s) /\ Len(s) \in Nat
         /\ Onto(x, s)[1] = x
         /\ \A i \in 1..Len(s) : Onto(x, s)[i + 1] = s[i]
  BY DEF Onto

LEMMA HeadOnTail ==
  ASSUME NEW s \in Seq(Items), s # <<>>
  PROVE  Head(s) \in Items /\ Tail(s) \in Seq(Items) /\ s = Onto(Head(s), Tail(s))
<1>1. Head(s) \in Items /\ Tail(s) \in Seq(Items)
  BY HeadTailProperties
<1>2. s = Onto(Head(s), Tail(s))
  BY <1>1 DEF Onto
<1> QED
  BY <1>1, <1>2

\* Two items put on a sequence are one put on the other.
LEMMA Pushed ==
  ASSUME NEW E, NEW x \in E, NEW y \in E, NEW s \in Seq(E)
  PROVE  <<x, y>> \o s = <<x>> \o (<<y>> \o s)
<1> DEFINE a == <<x, y>> \o s
           b == <<y>> \o s
           c == <<x>> \o b
<1>1. /\ <<x>> \in Seq(E) /\ <<y>> \in Seq(E) /\ <<x, y>> \in Seq(E)
      /\ Len(<<x>>) = 1 /\ Len(<<y>>) = 1 /\ Len(<<x, y>>) = 2 /\ Len(s) \in Nat
  OBVIOUS
<1>2. /\ b \in Seq(E) /\ Len(b) = Len(s) + 1
      /\ \A i \in 1..Len(s) + 1 : b[i] = IF i = 1 THEN y ELSE s[i - 1]
  BY <1>1, ConcatProperties
<1> HIDE DEF b
<1>3. /\ c \in Seq(E) /\ Len(c) = Len(s) + 2
      /\ \A i \in 1..Len(s) + 2 : c[i] = IF i = 1 THEN x ELSE b[i - 1]
  BY <1>1, <1>2, ConcatProperties
<1>4. /\ a \in Seq(E) /\ Len(a) = Len(s) + 2
      /\ \A i \in 1..Len(s) + 2 :
             a[i] = IF i = 1 THEN x ELSE IF i = 2 THEN y ELSE s[i - 2]
  BY <1>1, ConcatProperties
<1> HIDE DEF a, c
<1>5. ASSUME NEW i \in 1..Len(a) PROVE a[i] = c[i]
  <2>1. i = 1 \/ i = 2 \/ i \in 3..Len(s) + 2
    BY <1>1, <1>4
  <2>2. ASSUME i # 1 PROVE c[i] = b[i - 1] /\ i - 1 \in 1..Len(s) + 1
    BY <1>1, <1>3, <1>4, <2>2
  <2>3. ASSUME i \in 3..Len(s) + 2 PROVE b[i - 1] = s[i - 2]
    BY <1>1, <1>2, <2>3
  <2> QED
    BY <1>1, <1>2, <1>3, <1>4, <2>1, <2>2, <2>3
<1>6. a = c
  BY <1>3, <1>4, <1>5, SeqEqual
<1> QED
  BY <1>6 DEF a, b, c

LEMMA Tripled ==
  ASSUME NEW E, NEW x \in E, NEW y \in E, NEW z \in E
  PROVE  <<x, y, z>> = <<x>> \o <<y, z>>
<1> DEFINE a == <<x, y, z>>
           c == <<x>> \o <<y, z>>
<1>1. /\ <<x>> \in Seq(E) /\ <<y, z>> \in Seq(E)
      /\ Len(<<x>>) = 1 /\ Len(<<y, z>>) = 2
  OBVIOUS
<1>2. /\ c \in Seq(E) /\ Len(c) = 3
      /\ \A i \in 1..3 : c[i] = IF i = 1 THEN x ELSE IF i = 2 THEN y ELSE z
  BY <1>1, ConcatProperties
<1>3. /\ a \in Seq(E) /\ Len(a) = 3
      /\ \A i \in 1..3 : a[i] = IF i = 1 THEN x ELSE IF i = 2 THEN y ELSE z
  OBVIOUS
<1> HIDE DEF a, c
<1>4. a = c
  BY <1>2, <1>3, SeqEqual
<1> QED
  BY <1>4 DEF a, c

LEMMA Stacked ==
  ASSUME NEW s \in Seq(Items), NEW x \in Items, NEW y \in Items
  PROVE  /\ <<>> \o s = s
         /\ <<x>> \o s = Onto(x, s)
         /\ <<x, y>> \o s = Onto(x, Onto(y, s))
<1>1. <<>> \o s = s
  BY ConcatEmptySeq
<1>2. <<x, y>> \o s = Onto(x, Onto(y, s))
  BY Pushed DEF Onto
<1> QED
  BY <1>1, <1>2 DEF Onto

LEMMA ThreeStacked ==
  ASSUME NEW s \in Seq(Items), NEW x \in Items, NEW y \in Items, NEW z \in Items
  PROVE  <<x, y, z>> \o s = Onto(x, Onto(y, Onto(z, s)))
<1>1. <<x>> \in Seq(Items) /\ <<y, z>> \in Seq(Items)
  OBVIOUS
<1>2. <<y, z>> \o s = Onto(y, Onto(z, s))
  BY Stacked
<1>3. (<<x>> \o <<y, z>>) \o s = <<x>> \o (<<y, z>> \o s)
  BY <1>1, ConcatAssociative
<1> QED
  BY <1>2, <1>3, Tripled DEF Onto

LEMMA ThreeInPartsStacked ==
  ASSUME NEW s \in Seq(Items), NEW x \in Items, NEW y \in Items, NEW z \in Items
  PROVE  (<<x>> \o <<y, z>>) \o s = Onto(x, Onto(y, Onto(z, s)))
<1>1. <<x, y, z>> = <<x>> \o <<y, z>>
  BY Tripled, Zenon
<1>2. <<x, y, z>> \o s = Onto(x, Onto(y, Onto(z, s)))
  BY ThreeStacked, ZenonT(60)
<1> QED
  BY <1>1, <1>2, Zenon

LEMMA NoneStacked ==
  ASSUME NEW x \in Items, NEW y \in Items
  PROVE  <<>> \o <<x, y>> = <<x, y>>
<1>1. <<x, y>> \in Seq(Items)
  OBVIOUS
<1> QED
  BY <1>1, ConcatEmptySeq

-----------------------------------------------------------------------------
\* What is asked of the items left to do.  A controller's view moves with no
\* call to the controller left to make below;
Silent(s, c) == \A i \in DOMAIN s : ~Tells(s[i], c)
Ordered(s) == \A i, j \in DOMAIN s : \A c \in Controllers :
                  i < j /\ Moves(s[i], c) => ~Tells(s[j], c)
\* once the view was loaded, or when it will have been;
LoadDue(s, known) ==
    \A j \in DOMAIN s : \A c \in Controllers :
        Moves(s[j], c) => c \in known \/ \E i \in DOMAIN s : i < j /\ Makes(s[i], c)
\* a view to be marked as loaded is not, and none will have been before;
Fresh(s, known) ==
    \A i \in DOMAIN s : \A c \in Controllers :
        Marks(s[i], c) => c \notin known /\ \A j \in DOMAIN s : j < i => ~Makes(s[j], c)
\* and the controllers to be told are there.
Living(s, there) == \A i \in DOMAIN s : \A c \in Controllers :
                        Makes(s[i], c) \/ Tells(s[i], c) => c \in there

\* One call is left to make to c.
Owed(s, c, what) == \E i \in DOMAIN s : /\ s[i] = C!Tell(c, what)
                                        /\ \A j \in DOMAIN s : j # i => ~Tells(s[j], c)

LEMMA SilentOnto ==
  ASSUME NEW x \in Items, NEW s \in Seq(Items), NEW c
  PROVE  Silent(Onto(x, s), c) <=> ~Tells(x, c) /\ Silent(s, c)
<1> DEFINE o == Onto(x, s)
<1>1. /\ DOMAIN o = 1..(Len(s) + 1) /\ DOMAIN s = 1..Len(s) /\ Len(s) \in Nat
      /\ o[1] = x /\ \A i \in 1..Len(s) : o[i + 1] = s[i]
  BY OntoParts
<1> HIDE DEF o
<1>2. \A j \in DOMAIN o : j = 1 \/ (j - 1 \in DOMAIN s /\ o[j] = s[j - 1])
  <2> SUFFICES ASSUME NEW j \in DOMAIN o, j # 1
               PROVE  j - 1 \in DOMAIN s /\ o[j] = s[j - 1]
    OBVIOUS
  <2>1. j - 1 \in 1..Len(s) /\ (j - 1) + 1 = j
    BY <1>1
  <2> QED
    BY <1>1, <2>1
<1>3. \A i \in DOMAIN s : i + 1 \in DOMAIN o /\ o[i + 1] = s[i]
  BY <1>1
<1>4. 1 \in DOMAIN o
  BY <1>1
<1>5. Silent(o, c) <=> ~Tells(x, c) /\ Silent(s, c)
  BY <1>1, <1>2, <1>3, <1>4 DEF Silent
<1> QED
  BY <1>5 DEF o

LEMMA LeftOnto ==
  ASSUME NEW x \in Items, NEW s \in Seq(Items), NEW c \in Controllers,
         NEW what \in Callbacks
  PROVE  Owed(Onto(x, s), c, what) <=> \/ ~Tells(x, c) /\ Owed(s, c, what)
                                       \/ x = C!Tell(c, what) /\ Silent(s, c)
<1> DEFINE o == Onto(x, s)
<1>1. /\ DOMAIN o = 1..(Len(s) + 1) /\ DOMAIN s = 1..Len(s) /\ Len(s) \in Nat
      /\ o[1] = x /\ \A i \in 1..Len(s) : o[i + 1] = s[i]
  BY OntoParts
<1> HIDE DEF o
<1>2. \A j \in DOMAIN o : j = 1 \/ (j - 1 \in DOMAIN s /\ o[j] = s[j - 1])
  <2> SUFFICES ASSUME NEW j \in DOMAIN o, j # 1
               PROVE  j - 1 \in DOMAIN s /\ o[j] = s[j - 1]
    OBVIOUS
  <2>1. j - 1 \in 1..Len(s) /\ (j - 1) + 1 = j
    BY <1>1
  <2> QED
    BY <1>1, <2>1
<1>3. \A i \in DOMAIN s : i + 1 \in DOMAIN o /\ o[i + 1] = s[i] /\ i + 1 # 1
  BY <1>1
<1>4. 1 \in DOMAIN o /\ \A i \in DOMAIN s : i \in Int
  BY <1>1
<1>5. Tells(C!Tell(c, what), c)
  BY TellItem
<1>6. ASSUME Owed(o, c, what), Tells(x, c) PROVE x = C!Tell(c, what) /\ Silent(s, c)
  <2>1. PICK i \in DOMAIN o : /\ o[i] = C!Tell(c, what)
                              /\ \A j \in DOMAIN o : j # i => ~Tells(o[j], c)
    BY <1>6 DEF Owed
  <2>2. i = 1
    BY <1>1, <1>4, <1>6, <2>1
  <2> QED
    BY <1>1, <1>3, <2>1, <2>2 DEF Silent
<1>7. ASSUME Owed(o, c, what), ~Tells(x, c) PROVE Owed(s, c, what)
  <2>1. PICK i \in DOMAIN o : /\ o[i] = C!Tell(c, what)
                              /\ \A j \in DOMAIN o : j # i => ~Tells(o[j], c)
    BY <1>7 DEF Owed
  <2>2. i # 1
    BY <1>1, <1>5, <1>7, <2>1
  <2>3. i - 1 \in DOMAIN s /\ s[i - 1] = C!Tell(c, what) /\ i \in Int
    BY <1>1, <1>2, <2>1, <2>2
  <2>4. ASSUME NEW j \in DOMAIN s, j # i - 1 PROVE ~Tells(s[j], c)
    <3>1. j + 1 # i
      BY <1>4, <2>3, <2>4
    <3> QED
      BY <1>3, <2>1, <3>1
  <2> QED
    BY <2>3, <2>4 DEF Owed
<1>8. ASSUME ~Tells(x, c), Owed(s, c, what) PROVE Owed(o, c, what)
  <2>1. PICK i \in DOMAIN s : /\ s[i] = C!Tell(c, what)
                              /\ \A j \in DOMAIN s : j # i => ~Tells(s[j], c)
    BY <1>8 DEF Owed
  <2>2. ASSUME NEW j \in DOMAIN o, j # i + 1 PROVE ~Tells(o[j], c)
    <3>1. CASE j = 1
      BY <1>1, <1>8, <3>1
    <3>2. CASE j # 1
      <4>1. j - 1 \in DOMAIN s /\ o[j] = s[j - 1] /\ j - 1 # i
        BY <1>1, <1>2, <2>2, <3>2
      <4> QED
        BY <2>1, <4>1
    <3> QED
      BY <3>1, <3>2
  <2> QED
    BY <1>3, <2>1, <2>2 DEF Owed
<1>9. ASSUME x = C!Tell(c, what), Silent(s, c) PROVE Owed(o, c, what)
  <2>1. ASSUME NEW j \in DOMAIN o, j # 1 PROVE ~Tells(o[j], c)
    BY <1>2, <1>9, <2>1 DEF Silent
  <2> QED
    BY <1>1, <1>4, <1>9, <2>1 DEF Owed
<1>10. Owed(o, c, what) <=> \/ ~Tells(x, c) /\ Owed(s, c, what)
                            \/ x = C!Tell(c, what) /\ Silent(s, c)
  BY <1>6, <1>7, <1>8, <1>9
<1> QED
  BY <1>10 DEF o

\* So far as its items go, what is left to do is in order.
Fine(s, known, there) ==
    /\ s \in Seq(Items) /\ Ordered(s) /\ LoadDue(s, known)
    /\ Fresh(s, known) /\ Living(s, there)

\* What an item adds.
Fits(x, s, known, there) ==
    \A c \in Controllers : /\ Moves(x, c) => c \in known /\ Silent(s, c)
                           /\ Marks(x, c) => c \notin known
                           /\ Makes(x, c) \/ Tells(x, c) => c \in there

LEMMA FineOnto ==
  ASSUME NEW x \in Items, NEW s \in Seq(Items), NEW known, NEW there
  PROVE  Fine(Onto(x, s), known, there) <=>
             Fine(s, known \cup LoadedBy(x), there) /\ Fits(x, s, known, there)
<1> DEFINE o == Onto(x, s)
<1>0. Onto(x, s) \in Seq(Items)
  BY OntoParts
<1>1. /\ DOMAIN o = 1..(Len(s) + 1) /\ DOMAIN s = 1..Len(s) /\ Len(s) \in Nat
      /\ o[1] = x /\ \A i \in 1..Len(s) : o[i + 1] = s[i]
  BY OntoParts
<1> HIDE DEF o
<1>2. \A j \in DOMAIN o : j = 1 \/ (j - 1 \in DOMAIN s /\ o[j] = s[j - 1])
  <2> SUFFICES ASSUME NEW j \in DOMAIN o, j # 1
               PROVE  j - 1 \in DOMAIN s /\ o[j] = s[j - 1]
    OBVIOUS
  <2>1. j - 1 \in 1..Len(s) /\ (j - 1) + 1 = j
    BY <1>1
  <2> QED
    BY <1>1, <2>1
<1>3. \A i \in DOMAIN s : i + 1 \in DOMAIN o /\ o[i + 1] = s[i] /\ i + 1 > 1
  BY <1>1
<1>4. /\ 1 \in DOMAIN o /\ \A i \in DOMAIN s : i \in Int
      /\ \A i \in DOMAIN o : i \in Int /\ i >= 1
  BY <1>1
<1>5. Living(o, there) <=>
          /\ Living(s, there)
          /\ \A c \in Controllers : Makes(x, c) \/ Tells(x, c) => c \in there
  BY <1>1, <1>2, <1>3, <1>4 DEF Living
<1>6. Ordered(o) <=>
          Ordered(s) /\ \A c \in Controllers : Moves(x, c) => Silent(s, c)
  <2>1. ASSUME Ordered(o), NEW i \in DOMAIN s, NEW j \in DOMAIN s, NEW c \in Controllers,
               i < j, Moves(s[i], c)
        PROVE  ~Tells(s[j], c)
    <3>1. i + 1 < j + 1
      BY <1>4, <2>1
    <3> QED
      BY <1>3, <2>1, <3>1 DEF Ordered
  <2>2. ASSUME Ordered(o), NEW c \in Controllers, Moves(x, c) PROVE Silent(s, c)
    BY <1>1, <1>3, <1>4, <2>2 DEF Ordered, Silent
  <2>3. ASSUME Ordered(s), \A c \in Controllers : Moves(x, c) => Silent(s, c),
               NEW i \in DOMAIN o, NEW j \in DOMAIN o, NEW c \in Controllers,
               i < j, Moves(o[i], c)
        PROVE  ~Tells(o[j], c)
    <3>1. j - 1 \in DOMAIN s /\ o[j] = s[j - 1]
      BY <1>2, <1>4, <2>3
    <3>2. CASE i = 1
      BY <1>1, <2>3, <3>1, <3>2 DEF Silent
    <3>3. CASE i # 1
      <4>1. i - 1 \in DOMAIN s /\ o[i] = s[i - 1] /\ i - 1 < j - 1
        BY <1>2, <1>4, <2>3, <3>3
      <4> QED
        BY <2>3, <3>1, <4>1 DEF Ordered
    <3> QED
      BY <3>2, <3>3
  <2> QED
    BY <2>1, <2>2, <2>3 DEF Ordered
<1>7. LoadDue(o, known) <=>
          /\ LoadDue(s, known \cup LoadedBy(x))
          /\ \A c \in Controllers : Moves(x, c) => c \in known
  <2>1. ASSUME LoadDue(o, known), NEW j \in DOMAIN s, NEW c \in Controllers, Moves(s[j], c)
        PROVE  c \in known \cup LoadedBy(x) \/ \E i \in DOMAIN s : i < j /\ Makes(s[i], c)
    <3>1. c \in known \/ \E i \in DOMAIN o : i < j + 1 /\ Makes(o[i], c)
      BY <1>3, <2>1 DEF LoadDue
    <3>2. ASSUME NEW i \in DOMAIN o, i < j + 1, Makes(o[i], c)
          PROVE  c \in LoadedBy(x) \/ \E k \in DOMAIN s : k < j /\ Makes(s[k], c)
      <4>1. CASE i = 1
        BY <1>1, <3>2, <4>1 DEF LoadedBy
      <4>2. CASE i # 1
        <5>1. i - 1 \in DOMAIN s /\ o[i] = s[i - 1] /\ i - 1 < j
          BY <1>2, <1>4, <3>2, <4>2
        <5> QED
          BY <3>2, <5>1
      <4> QED
        BY <4>1, <4>2
    <3> QED
      BY <3>1, <3>2
  <2>2. ASSUME LoadDue(o, known), NEW c \in Controllers, Moves(x, c) PROVE c \in known
    <3>1. ~\E i \in DOMAIN o : i < 1
      BY <1>4
    <3> QED
      BY <1>1, <1>4, <2>2, <3>1 DEF LoadDue
  <2>3. ASSUME LoadDue(s, known \cup LoadedBy(x)),
               \A c \in Controllers : Moves(x, c) => c \in known,
               NEW j \in DOMAIN o, NEW c \in Controllers, Moves(o[j], c)
        PROVE  c \in known \/ \E i \in DOMAIN o : i < j /\ Makes(o[i], c)
    <3>1. CASE j = 1
      BY <1>1, <2>3, <3>1
    <3>2. CASE j # 1
      <4>1. j - 1 \in DOMAIN s /\ o[j] = s[j - 1] /\ 1 < j
        BY <1>2, <1>4, <3>2
      <4>2. \/ c \in known \/ Makes(x, c)
            \/ \E i \in DOMAIN s : i < j - 1 /\ Makes(s[i], c)
        BY <2>3, <4>1 DEF LoadDue, LoadedBy
      <4>3. ASSUME NEW i \in DOMAIN s, i < j - 1, Makes(s[i], c)
            PROVE  \E k \in DOMAIN o : k < j /\ Makes(o[k], c)
        <5>1. i + 1 \in DOMAIN o /\ o[i + 1] = s[i] /\ i + 1 < j
          BY <1>3, <1>4, <4>3
        <5> QED
          BY <4>3, <5>1
      <4> QED
        BY <1>1, <1>4, <4>1, <4>2, <4>3
    <3> QED
      BY <3>1, <3>2
  <2> QED
    BY <2>1, <2>2, <2>3 DEF LoadDue
<1>8. Fresh(o, known) <=>
          /\ Fresh(s, known \cup LoadedBy(x))
          /\ \A c \in Controllers : Marks(x, c) => c \notin known
  <2>1. ASSUME Fresh(o, known), NEW i \in DOMAIN s, NEW c \in Controllers, Marks(s[i], c)
        PROVE  /\ c \notin known \cup LoadedBy(x)
               /\ \A j \in DOMAIN s : j < i => ~Makes(s[j], c)
    <3>1. c \notin known /\ \A j \in DOMAIN o : j < i + 1 => ~Makes(o[j], c)
      BY <1>3, <2>1 DEF Fresh
    <3>2. 1 < i + 1 /\ \A j \in DOMAIN s : j < i => j + 1 < i + 1
      BY <1>3, <1>4
    <3>3. ~Makes(x, c)
      BY <1>1, <1>4, <3>1, <3>2
    <3>4. c \notin LoadedBy(x)
      BY <3>3 DEF LoadedBy
    <3>5. ASSUME NEW j \in DOMAIN s, j < i PROVE ~Makes(s[j], c)
      BY <1>3, <3>1, <3>2, <3>5
    <3> QED
      BY <3>1, <3>4, <3>5
  <2>2. ASSUME Fresh(o, known), NEW c \in Controllers, Marks(x, c) PROVE c \notin known
    BY <1>1, <1>4, <2>2 DEF Fresh
  <2>3. ASSUME Fresh(s, known \cup LoadedBy(x)),
               \A c \in Controllers : Marks(x, c) => c \notin known,
               NEW i \in DOMAIN o, NEW c \in Controllers, Marks(o[i], c)
        PROVE  c \notin known /\ \A j \in DOMAIN o : j < i => ~Makes(o[j], c)
    <3>1. CASE i = 1
      <4>1. \A j \in DOMAIN o : ~(j < i)
        BY <1>4, <3>1
      <4> QED
        BY <1>1, <2>3, <3>1, <4>1
    <3>2. CASE i # 1
      <4>1. i - 1 \in DOMAIN s /\ o[i] = s[i - 1]
        BY <1>2, <3>2
      <4>2. /\ c \notin known /\ c \notin LoadedBy(x)
            /\ \A j \in DOMAIN s : j < i - 1 => ~Makes(s[j], c)
        BY <2>3, <4>1 DEF Fresh
      <4>3. ~Makes(x, c)
        BY <4>2 DEF LoadedBy
      <4>4. ASSUME NEW j \in DOMAIN o, j < i PROVE ~Makes(o[j], c)
        <5>1. CASE j = 1
          BY <1>1, <4>3, <5>1
        <5>2. CASE j # 1
          <6>1. j - 1 \in DOMAIN s /\ o[j] = s[j - 1] /\ j - 1 < i - 1
            BY <1>2, <1>4, <4>4, <5>2
          <6> QED
            BY <4>2, <6>1
        <5> QED
          BY <5>1, <5>2
      <4> QED
        BY <4>2, <4>4
    <3> QED
      BY <3>1, <3>2
  <2> QED
    BY <2>1, <2>2, <2>3 DEF Fresh
<1>9. Fine(o, known, there) <=>
          Fine(s, known \cup LoadedBy(x), there) /\ Fits(x, s, known, there)
  <2>1. o \in Seq(Items)
    BY <1>0 DEF o
  <2> QED
    BY <2>1, <1>5, <1>6, <1>7, <1>8 DEF Fine, Fits
<1> QED
  BY <1>9 DEF o

LEMMA FineMore ==
  ASSUME NEW s, NEW known, NEW c \in Controllers, NEW there,
         Fine(s, known, there), \A i \in DOMAIN s : ~Marks(s[i], c)
  PROVE  Fine(s, known \cup {c}, there)
  BY DEF Fine, LoadDue, Fresh

\* An item that loads nothing.
LEMMA PlainOnto ==
  ASSUME NEW x \in Items, NEW s \in Seq(Items), NEW known, NEW there,
         \A c : ~Makes(x, c), Fine(s, known, there),
         \A c \in Controllers : /\ Moves(x, c) => c \in known /\ Silent(s, c)
                                /\ Tells(x, c) => c \in there
  PROVE  Fine(Onto(x, s), known, there)
<1>1. known \cup LoadedBy(x) = known
  BY DEF LoadedBy
<1>2. Fits(x, s, known, there)
  BY DEF Fits, Marks, Makes
<1> QED
  BY <1>1, <1>2, FineOnto

\* The program asks no controller for its view while that is being loaded.
LEMMA NotLoading ==
  ASSUME NEW c \in Controllers, ~C!Loading(c)
  PROVE  \A i \in DOMAIN todo : ~Marks(todo[i], c)
  BY DEF C!Loading, C!Due, Marks

-----------------------------------------------------------------------------
\* Where a controller is with what it is told, of what is left to do in s and what
\* it heard last: at rest, or told the first of two;
Resting(c, h, known, shown) ==
    IF c \notin known THEN h = "nothing" /\ c \notin shown
    ELSE IF c \in shown THEN h = "DidAppear" ELSE h \in {"DidLoad", "DidDisappear"}
Steady(s, c, h, known, shown) ==
    \/ Silent(s, c) /\ Resting(c, h, known, shown)
    \/ c \in known /\ c \in shown /\ h = "WillAppear" /\ Owed(s, c, "DidAppear")
    \/ c \in known /\ c \notin shown /\ h = "WillDisappear" /\ Owed(s, c, "DidDisappear")

\* or about to be told, s being what is left to do after x.
Starting(x, s, c, h, known, shown) ==
    /\ c \in known
    /\ \/ /\ x = C!Tell(c, "DidLoad") /\ Silent(s, c)
          /\ h = "nothing" /\ c \notin shown
       \/ /\ x = C!Tell(c, "WillAppear") /\ Owed(s, c, "DidAppear")
          /\ h \in {"DidLoad", "DidDisappear"} /\ c \in shown
       \/ /\ x = C!Tell(c, "WillDisappear") /\ Owed(s, c, "DidDisappear")
          /\ h = "DidAppear" /\ c \notin shown

InTurn(c, s, h, known, shown) ==
    \/ Steady(s, c, h, known, shown)
    \/ s # <<>> /\ Starting(Head(s), Tail(s), c, h, known, shown)

ControllersType ==
    /\ alive \subseteq Controllers /\ loaded \subseteq Controllers
    /\ place \in [Controllers -> Where]
    /\ children \in [Controllers -> SUBSET Controllers]
    /\ parent \in [Controllers -> Controllers \cup {Nil}]
    /\ heard \in [Controllers -> {"nothing"} \cup Callbacks]

\* The view of a controller is in a window when the wrapper takes it to appear.
Seen == \A c \in alive : place[c] = "window" <=> c \in appeared

\* Parents and children know each other.
Family == \A p, c \in alive : c \in children[p] <=> parent[c] = p

ControllersInv ==
    /\ ControllersType /\ Seen /\ Family
    /\ Fine(todo, loaded, alive)
    /\ \A c \in Controllers : InTurn(c, todo, heard[c], loaded, appeared)

LEMMA SteadyOnto ==
  ASSUME NEW x \in Items, NEW s \in Seq(Items), NEW c \in Controllers,
         NEW h, NEW known, NEW shown, ~Tells(x, c)
  PROVE  Steady(Onto(x, s), c, h, known, shown) <=> Steady(s, c, h, known, shown)
<1>1. "DidAppear" \in Callbacks /\ "DidDisappear" \in Callbacks
  BY DEF Callbacks
<1>2. Tells(C!Tell(c, "DidAppear"), c) /\ Tells(C!Tell(c, "DidDisappear"), c)
  BY <1>1, TellItem
<1> QED
  BY <1>1, <1>2, SilentOnto, LeftOnto DEF Steady

\* Only one about to be told something is not steady.
LEMMA TurnSteady ==
  ASSUME NEW c \in Controllers, NEW h, NEW known, NEW shown, NEW s \in Seq(Items),
         InTurn(c, s, h, known, shown), s = <<>> \/ ~Tells(Head(s), c)
  PROVE  Steady(s, c, h, known, shown)
<1>1. "DidLoad" \in Callbacks /\ "WillAppear" \in Callbacks /\ "WillDisappear" \in Callbacks
  BY DEF Callbacks
<1>2. \A what \in Callbacks : Tells(C!Tell(c, what), c)
  BY TellItem
<1> QED
  BY <1>1, <1>2 DEF InTurn, Starting

LEMMA TurnOnto ==
  ASSUME NEW c \in Controllers, NEW h, NEW known, NEW shown,
         NEW x \in Items, NEW s \in Seq(Items)
  PROVE  InTurn(c, Onto(x, s), h, known, shown) <=>
             \/ Steady(Onto(x, s), c, h, known, shown)
             \/ Starting(x, s, c, h, known, shown)
  BY OntoParts DEF InTurn

\* A controller that is not told is as it was.
LEMMA StillInTurn ==
  ASSUME NEW c \in Controllers, NEW h, NEW known, NEW shown, NEW more, NEW seen,
         NEW s, Steady(s, c, h, known, shown),
         c \in known <=> c \in more, c \in shown <=> c \in seen
  PROVE  /\ Steady(s, c, h, more, seen)
         /\ InTurn(c, s, h, more, seen)
  BY DEF InTurn, Steady, Resting

\* The program calls when no call is about to be made.
LEMMA AtProgram ==
  ASSUME ControllersInv, C!Program
  PROVE  /\ todo \in Seq(Items)
         /\ \A c \in Controllers : Steady(todo, c, heard[c], loaded, appeared)
<1>1. todo \in Seq(Items)
  BY DEF ControllersInv, Fine
<1>2. ASSUME NEW c \in Controllers PROVE Steady(todo, c, heard[c], loaded, appeared)
  <2>1. todo = <<>> \/ ~Tells(Head(todo), c)
    BY DEF C!Program, C!Doing, Tells
  <2>2. InTurn(c, todo, heard[c], loaded, appeared)
    BY DEF ControllersInv
  <2> QED
    BY <1>1, <2>1, <2>2, TurnSteady
<1> QED
  BY <1>1, <1>2

\* A call is told of nothing when none is being told of c.
LEMMA NotTelling ==
  ASSUME NEW c \in Controllers, ~C!Telling(c)
  PROVE  Silent(todo, c)
  BY DEF C!Telling, C!Due, Silent, Tells

-----------------------------------------------------------------------------
LEMMA ViewInTurn ==
  ASSUME ControllersInv, NEW c \in Controllers, C!View(c), "loadview" \notin Allowed
  PROVE  ControllersInv'
<1> DEFINE x == C!Item("load", c, "view")
<1>1. /\ todo \in Seq(Items)
      /\ \A d \in Controllers : Steady(todo, d, heard[d], loaded, appeared)
  BY AtProgram DEF C!View, C!Push
<1>2. /\ x \in Items
      /\ \A d : ~Moves(x, d) /\ ~Tells(x, d) /\ ~Marks(x, d) /\ (Makes(x, d) <=> d = c)
  BY LoadItem
<1>3. todo' = Onto(x, todo) /\ c \in alive /\ ~C!Loading(c)
  BY <1>1, <1>2, Stacked DEF C!View, C!Push
<1> HIDE DEF x
<1>4. Fine(Onto(x, todo), loaded, alive)
  <2>1. Fine(todo, loaded \cup LoadedBy(x), alive)
    <3>1. LoadedBy(x) = {c}
      BY <1>2 DEF LoadedBy
    <3> QED
      BY <1>3, <3>1, NotLoading, FineMore DEF ControllersInv
  <2>2. Fits(x, todo, loaded, alive)
    BY <1>2, <1>3 DEF Fits
  <2> QED
    BY <1>1, <1>2, <2>1, <2>2, FineOnto
<1>5. ASSUME NEW d \in Controllers
      PROVE  InTurn(d, Onto(x, todo), heard[d], loaded, appeared)
  BY <1>1, <1>2, SteadyOnto, StillInTurn
<1>6. UNCHANGED <<alive, loaded, appeared, place, children, parent, heard>>
  BY DEF C!View, C!family
<1> QED
  BY <1>3, <1>4, <1>5, <1>6 DEF ControllersInv, ControllersType, Seen, Family

LEMMA MoveInTurn ==
  ASSUME ControllersInv, NEW c \in Controllers, NEW to \in Where, C!Move(c, to),
         "nested" \notin Allowed, "early" \notin Allowed
  PROVE  ControllersInv'
<1> DEFINE x == C!Item("move", c, to)
<1>1. /\ todo \in Seq(Items)
      /\ \A d \in Controllers : Steady(todo, d, heard[d], loaded, appeared)
  BY AtProgram DEF C!Move, C!Push
<1>2. /\ x \in Items
      /\ \A d : ~Makes(x, d) /\ ~Tells(x, d) /\ (Moves(x, d) <=> d = c)
  BY MoveItem
<1>3. todo' = Onto(x, todo) /\ c \in loaded /\ Silent(todo, c)
  BY <1>1, <1>2, Stacked, NotTelling DEF C!Move, C!Push
<1> HIDE DEF x
<1>4. Fine(Onto(x, todo), loaded, alive)
  BY <1>1, <1>2, <1>3, PlainOnto DEF ControllersInv
<1>5. ASSUME NEW d \in Controllers
      PROVE  InTurn(d, Onto(x, todo), heard[d], loaded, appeared)
  BY <1>1, <1>2, SteadyOnto, StillInTurn
<1>6. UNCHANGED <<alive, loaded, appeared, place, children, parent, heard>>
  BY DEF C!Move, C!family
<1> QED
  BY <1>3, <1>4, <1>5, <1>6 DEF ControllersInv, ControllersType, Seen, Family

LEMMA TransitionInTurn ==
  ASSUME ControllersInv, NEW c \in Controllers, NEW d \in Controllers,
         C!Transition(c, d), "nested" \notin Allowed, "loadview" \notin Allowed
  PROVE  ControllersInv'
<1> DEFINE x == C!Item("load", c, "view")
           y == C!Item("load", d, "view")
           z == C!Item("swap", c, d)
<1>1. /\ todo \in Seq(Items)
      /\ \A e \in Controllers : Steady(todo, e, heard[e], loaded, appeared)
  BY AtProgram DEF C!Transition, C!Push
<1>2. /\ x \in Items
      /\ \A e : ~Moves(x, e) /\ ~Tells(x, e) /\ ~Marks(x, e) /\ (Makes(x, e) <=> e = c)
  BY LoadItem
<1>3. /\ y \in Items
      /\ \A e : ~Moves(y, e) /\ ~Tells(y, e) /\ ~Marks(y, e) /\ (Makes(y, e) <=> e = d)
  BY LoadItem
<1>4. /\ z \in Items
      /\ \A e : ~Makes(z, e) /\ ~Tells(z, e) /\ (Moves(z, e) <=> e \in {c, d})
  BY SwapItem
<1>5. /\ todo' = <<x, y, z>> \o todo
      /\ {c, d} \subseteq alive /\ Silent(todo, c) /\ Silent(todo, d)
      /\ ~C!Loading(c) /\ ~C!Loading(d)
  BY NotTelling DEF C!Transition, C!Push
<1> HIDE DEF x, y, z
<1> DEFINE v == Onto(z, todo)
           u == Onto(y, v)
<1>6. /\ v \in Seq(Items) /\ u \in Seq(Items)
      /\ todo' = Onto(x, u)
  <2>1. v \in Seq(Items)
    BY <1>1, <1>4, OntoParts
  <2>2. u \in Seq(Items)
    BY <1>3, <2>1, OntoParts
  <2>3. <<x, y, z>> \o todo = Onto(x, Onto(y, Onto(z, todo)))
    <3>1. todo \in Seq(Items) /\ x \in Items /\ y \in Items /\ z \in Items
      BY <1>1, <1>2, <1>3, <1>4
    <3> QED
      BY <3>1, ThreeStacked, ZenonT(60)
  <2> QED
    BY <1>5, <2>1, <2>2, <2>3
<1>7. LoadedBy(x) = {c} /\ LoadedBy(y) = {d}
  BY <1>2, <1>3 DEF LoadedBy
<1>8. Fine(v, (loaded \cup LoadedBy(x)) \cup LoadedBy(y), alive)
  <2>1. Fine(todo, loaded \cup {c}, alive)
    BY <1>5, NotLoading, FineMore DEF ControllersInv
  <2>2. Fine(todo, (loaded \cup {c}) \cup {d}, alive)
    BY <1>5, <2>1, NotLoading, FineMore
  <2> QED
    BY <1>1, <1>4, <1>5, <1>7, <2>2, PlainOnto
<1> HIDE DEF v
<1>9. Fine(u, loaded \cup LoadedBy(x), alive)
  <2>1. Fits(y, v, loaded \cup LoadedBy(x), alive)
    BY <1>3, <1>5 DEF Fits
  <2> QED
    BY <1>3, <1>6, <1>8, <2>1, FineOnto
<1>10. ASSUME NEW e \in Controllers
       PROVE  Steady(u, e, heard[e], loaded, appeared)
  <2>1. Steady(v, e, heard[e], loaded, appeared)
    BY <1>1, <1>4, SteadyOnto DEF v
  <2> QED
    BY <1>3, <1>6, <2>1, SteadyOnto
<1> HIDE DEF u
<1>11. Fine(Onto(x, u), loaded, alive)
  <2>1. Fits(x, u, loaded, alive)
    BY <1>2, <1>5 DEF Fits
  <2> QED
    BY <1>2, <1>6, <1>9, <2>1, FineOnto
<1>12. ASSUME NEW e \in Controllers
       PROVE  InTurn(e, Onto(x, u), heard[e], loaded, appeared)
  BY <1>2, <1>6, <1>10, SteadyOnto, StillInTurn
<1>13. UNCHANGED <<alive, loaded, appeared, place, children, parent, heard>>
  BY DEF C!Transition, C!family
<1> QED
  BY <1>6, <1>11, <1>12, <1>13 DEF ControllersInv, ControllersType, Seen, Family

\* What changes the family alone.
LEMMA FamilyInTurn ==
  ASSUME ControllersInv, UNCHANGED <<alive, loaded, appeared, place, heard, todo>>,
         ControllersType', Family'
  PROVE  ControllersInv'
  BY DEF ControllersInv, Seen

LEMMA AddChildInTurn ==
  ASSUME ControllersInv, NEW p \in Controllers, NEW c \in Controllers,
         C!AddChild(p, c), "reparent" \notin Allowed
  PROVE  ControllersInv'
<1>1. /\ p \in alive /\ c \in alive
      /\ parent[c] \in {Nil, p} \/ parent[c] \notin alive
      /\ children' = [children EXCEPT ![p] = {c} \cup children[p]]
      /\ parent' = [parent EXCEPT ![c] = p]
      /\ UNCHANGED <<alive, loaded, appeared, place, heard, todo>>
  BY DEF C!AddChild, C!Heirs
<1>2. ControllersType'
  BY <1>1 DEF ControllersInv, ControllersType
<1>3. Family'
  BY <1>1, NobodyIsNone DEF ControllersInv, ControllersType, Family
<1> QED
  BY <1>1, <1>2, <1>3, FamilyInTurn

LEMMA RemoveInTurn ==
  ASSUME ControllersInv, NEW c \in Controllers, C!RemoveFromParent(c)
  PROVE  ControllersInv'
<1>1. /\ c \in alive /\ parent[c] \in alive
      /\ children' = [children EXCEPT ![parent[c]] = @ \ {c}]
      /\ parent' = [parent EXCEPT ![c] = Nil]
      /\ UNCHANGED <<alive, loaded, appeared, place, heard, todo>>
  BY DEF C!RemoveFromParent
<1>2. ControllersType'
  BY <1>1 DEF ControllersInv, ControllersType
<1>3. Family'
  BY <1>1, NobodyIsNone DEF ControllersInv, ControllersType, Family
<1> QED
  BY <1>1, <1>2, <1>3, FamilyInTurn

\* None that is to be told is freed.
LEMMA FreeInTurn ==
  ASSUME ControllersInv, NEW c \in Controllers, C!Free(c)
  PROVE  ControllersInv'
<1>1. /\ \A i \in DOMAIN todo : todo[i][2] # c
      /\ alive' = alive \ {c}
      /\ children' = [children EXCEPT ![c] = {}]
      /\ UNCHANGED <<loaded, appeared, place, parent, heard, todo>>
  BY DEF C!Free
<1>2. Fine(todo, loaded, alive \ {c})
  BY <1>1 DEF ControllersInv, Fine, Living, Makes, Tells
<1>3. ControllersType' /\ Seen' /\ Family'
  BY <1>1 DEF ControllersInv, ControllersType, Seen, Family
<1>4. \A d \in Controllers : InTurn(d, todo, heard[d], loaded, appeared)
  BY DEF ControllersInv
<1> QED
  BY <1>1, <1>2, <1>3, <1>4 DEF ControllersInv

\* The call under way, and what it leaves.
LEMMA Under ==
  ASSUME ControllersInv, NEW do, C!Doing(do)
  PROVE  /\ Head(todo) \in Items /\ Tail(todo) \in Seq(Items)
         /\ todo = Onto(Head(todo), Tail(todo)) /\ Head(todo)[1] = do
         /\ Fine(Tail(todo), loaded \cup LoadedBy(Head(todo)), alive)
         /\ Fits(Head(todo), Tail(todo), loaded, alive)
         /\ \A c \in Controllers : ~Tells(Head(todo), c) =>
                Steady(Tail(todo), c, heard[c], loaded, appeared)
<1>1. todo \in Seq(Items) /\ todo # <<>> /\ Head(todo)[1] = do
  BY DEF ControllersInv, Fine, C!Doing
<1>2. /\ Head(todo) \in Items /\ Tail(todo) \in Seq(Items)
      /\ todo = Onto(Head(todo), Tail(todo))
  BY <1>1, HeadOnTail
<1> DEFINE x == Head(todo)
           t == Tail(todo)
<1>3. Fine(Onto(x, t), loaded, alive)
  BY <1>2 DEF ControllersInv
<1>4. ASSUME NEW c \in Controllers, ~Tells(x, c)
      PROVE  Steady(t, c, heard[c], loaded, appeared)
  <2>1. Steady(todo, c, heard[c], loaded, appeared)
    BY <1>1, <1>4, TurnSteady DEF ControllersInv
  <2>2. Steady(Onto(x, t), c, heard[c], loaded, appeared)
    BY <1>2, <2>1
  <2> QED
    BY <1>2, <1>4, <2>2, SteadyOnto
<1>5. Fine(t, loaded \cup LoadedBy(x), alive) /\ Fits(x, t, loaded, alive)
  BY <1>2, <1>3, FineOnto
<1> QED
  BY <1>1, <1>2, <1>4, <1>5

LEMMA ReturnInTurn ==
  ASSUME ControllersInv, C!Return
  PROVE  ControllersInv'
<1> DEFINE x == Head(todo)
           t == Tail(todo)
<1>1. /\ x \in Items /\ t \in Seq(Items) /\ x[1] = "in"
      /\ Fine(t, loaded \cup LoadedBy(x), alive)
      /\ \A c \in Controllers : ~Tells(x, c) => Steady(t, c, heard[c], loaded, appeared)
  BY Under DEF C!Return
<1>2. todo' = t
  BY <1>1, Stacked DEF C!Return, C!Rest
<1> HIDE DEF x, t
<1>3. LoadedBy(x) = {} /\ \A c : ~Tells(x, c)
  BY <1>1 DEF LoadedBy, Makes, Tells
<1>4. loaded \cup LoadedBy(x) = loaded
  BY <1>3
<1>5. Fine(t, loaded, alive)
  BY <1>1, <1>4
<1>6. \A c \in Controllers : InTurn(c, t, heard[c], loaded, appeared)
  BY <1>1, <1>3 DEF InTurn
<1>7. UNCHANGED <<alive, loaded, appeared, place, children, parent, heard>>
  BY DEF C!Return, C!family
<1> QED
  BY <1>2, <1>5, <1>6, <1>7 DEF ControllersInv, ControllersType, Seen, Family

LEMMA LoadInTurn ==
  ASSUME ControllersInv, C!Load
  PROVE  ControllersInv'
<1> DEFINE x == Head(todo)
           t == Tail(todo)
           c == x[2]
           y == C!Item("loaded", c, "view")
           f == C!Item("in", c, "loadView")
<1>1. /\ x \in Items /\ t \in Seq(Items) /\ x[1] = "load" /\ todo = Onto(x, t)
      /\ Fine(t, loaded \cup LoadedBy(x), alive) /\ Fits(x, t, loaded, alive)
      /\ \A d \in Controllers : ~Tells(x, d) => Steady(t, d, heard[d], loaded, appeared)
  BY Under DEF C!Load
<1>2. \/ c \in loaded /\ todo' = <<>> \o t
      \/ c \notin loaded /\ todo' = <<y>> \o t
      \/ c \notin loaded /\ todo' = <<f, y>> \o t
  BY DEF C!Load, C!Rest
<1>3. UNCHANGED <<alive, loaded, appeared, place, children, parent, heard>>
  BY DEF C!Load, C!family
<1> HIDE DEF x, t
<1>4. c \in Controllers /\ Makes(x, c) /\ \A d : ~Tells(x, d) /\ (Makes(x, d) <=> d = c)
  <2>1. PICK d \in Controllers : x = C!Item("load", d, "view")
    BY <1>1, ItemForms
  <2> QED
    BY <2>1, LoadItem
<1>5. /\ LoadedBy(x) = {c} /\ c \in alive /\ Fine(t, loaded \cup {c}, alive)
      /\ \A d \in Controllers : Steady(t, d, heard[d], loaded, appeared)
  BY <1>1, <1>4 DEF LoadedBy, Fits
<1> HIDE DEF c
<1>6. /\ y \in Items
      /\ \A d : /\ ~Moves(y, d) /\ ~Tells(y, d)
               /\ (Marks(y, d) <=> d = c) /\ (Makes(y, d) <=> d = c)
  BY <1>4, LoadedItem
<1>7. /\ f \in Items /\ \A d : ~Makes(f, d) /\ ~Moves(f, d) /\ ~Tells(f, d)
  BY <1>4, InItem DEF Reasons
<1> HIDE DEF y, f
<1>8. CASE c \in loaded
  <2>1. todo' = t /\ loaded \cup {c} = loaded
    BY <1>1, <1>2, <1>8, Stacked
  <2>2. Fine(t, loaded, alive)
    BY <1>5, <2>1
  <2>3. \A d \in Controllers : InTurn(d, t, heard[d], loaded, appeared)
    BY <1>5 DEF InTurn
  <2> QED
    BY <1>3, <2>1, <2>2, <2>3 DEF ControllersInv, ControllersType, Seen, Family
<1>9. CASE c \notin loaded
  <2> DEFINE u == Onto(y, t)
  <2>1. u \in Seq(Items)
    BY <1>1, <1>6, OntoParts
  <2>2. todo' = u \/ todo' = Onto(f, u)
    BY <1>1, <1>2, <1>6, <1>7, <1>9, Stacked
  <2>3. Fine(u, loaded, alive)
    <3>1. LoadedBy(y) = {c}
      BY <1>4, <1>6 DEF LoadedBy
    <3>2. Fits(y, t, loaded, alive)
      BY <1>5, <1>6, <1>9 DEF Fits
    <3> QED
      BY <1>1, <1>5, <1>6, <3>1, <3>2, FineOnto
  <2>4. \A d \in Controllers : Steady(u, d, heard[d], loaded, appeared)
    BY <1>1, <1>5, <1>6, SteadyOnto
  <2> HIDE DEF u
  <2>5. Fine(Onto(f, u), loaded, alive)
    BY <1>7, <2>1, <2>3, PlainOnto
  <2>6. \A d \in Controllers : Steady(Onto(f, u), d, heard[d], loaded, appeared)
    BY <1>7, <2>1, <2>4, SteadyOnto
  <2>7. Fine(todo', loaded, alive) /\ \A d \in Controllers :
            InTurn(d, todo', heard[d], loaded, appeared)
    BY <2>2, <2>3, <2>4, <2>5, <2>6 DEF InTurn
  <2> QED
    BY <1>3, <2>7 DEF ControllersInv, ControllersType, Seen, Family
<1> QED
  BY <1>8, <1>9

LEMMA LoadedInTurn ==
  ASSUME ControllersInv, C!Loaded
  PROVE  ControllersInv'
<1> DEFINE x == Head(todo)
           t == Tail(todo)
           c == x[2]
           y == C!Tell(c, "DidLoad")
<1>1. /\ x \in Items /\ t \in Seq(Items) /\ x[1] = "loaded" /\ todo = Onto(x, t)
      /\ Fine(t, loaded \cup LoadedBy(x), alive) /\ Fits(x, t, loaded, alive)
      /\ \A d \in Controllers : ~Tells(x, d) => Steady(t, d, heard[d], loaded, appeared)
  BY Under DEF C!Loaded
<1>2. loaded' = loaded \cup {c} /\ todo' = <<y>> \o t
  BY DEF C!Loaded, C!Rest
<1>3. UNCHANGED <<alive, appeared, place, children, parent, heard>>
  BY DEF C!Loaded, C!family
<1> HIDE DEF x, t
<1>4. /\ c \in Controllers
      /\ \A d : ~Tells(x, d) /\ (Makes(x, d) <=> d = c) /\ (Marks(x, d) <=> d = c)
  <2>1. PICK d \in Controllers : x = C!Item("loaded", d, "view")
    BY <1>1, ItemForms
  <2> QED
    BY <2>1, LoadedItem
<1>5. LoadedBy(x) = {c} /\ c \in alive /\ c \notin loaded
  BY <1>1, <1>4 DEF LoadedBy, Fits
<1> HIDE DEF c
<1>6. /\ y \in Items
      /\ \A d : ~Makes(y, d) /\ ~Moves(y, d) /\ (Tells(y, d) <=> d = c)
  BY <1>4, TellItem DEF Callbacks
<1>7. InTurn(c, Onto(y, t), heard[c], loaded \cup {c}, appeared)
  <2>1. Steady(t, c, heard[c], loaded, appeared)
    BY <1>1, <1>4
  <2>2. Silent(t, c) /\ heard[c] = "nothing" /\ c \notin appeared
    BY <1>5, <2>1 DEF Steady, Resting
  <2>3. Starting(y, t, c, heard[c], loaded \cup {c}, appeared)
    BY <2>2 DEF Starting
  <2> HIDE DEF y
  <2> QED
    BY <1>1, <1>4, <1>6, <2>3, TurnOnto
<1> HIDE DEF y
<1>8. todo' = Onto(y, t)
  BY <1>1, <1>2, <1>6, Stacked
<1>9. Fine(Onto(y, t), loaded \cup {c}, alive)
  BY <1>1, <1>5, <1>6, PlainOnto
<1>10. ASSUME NEW d \in Controllers, d # c
       PROVE  InTurn(d, Onto(y, t), heard[d], loaded \cup {c}, appeared)
  <2>1. Steady(Onto(y, t), d, heard[d], loaded, appeared)
    BY <1>1, <1>4, <1>6, <1>10, SteadyOnto
  <2> QED
    BY <1>10, <2>1, StillInTurn
<1>11. \A d \in Controllers : InTurn(d, todo', heard'[d], loaded', appeared')
  BY <1>2, <1>3, <1>7, <1>8, <1>10
<1> QED
  BY <1>2, <1>3, <1>4, <1>8, <1>9, <1>11 DEF ControllersInv, ControllersType, Seen, Family

\* Two calls put on t tell c one thing and then the other.
LEMMA TwoTold ==
  ASSUME ControllersInv, NEW t \in Seq(Items),
         NEW c \in Controllers, c \in loaded, c \in alive,
         NEW will \in Callbacks, NEW did \in Callbacks,
         NEW shown, appeared \ {c} = shown \ {c},
         Fine(t, loaded, alive),
         \A d \in Controllers : Steady(t, d, heard[d], loaded, appeared),
         Silent(t, c),
         \/ /\ heard[c] \in {"DidLoad", "DidDisappear"} /\ c \in shown
            /\ will = "WillAppear" /\ did = "DidAppear"
         \/ /\ heard[c] = "DidAppear" /\ c \notin shown
            /\ will = "WillDisappear" /\ did = "DidDisappear",
         NEW s, s = <<C!Tell(c, will), C!Tell(c, did)>> \o t
  PROVE  /\ Fine(s, loaded, alive)
         /\ \A d \in Controllers : InTurn(d, s, heard[d], loaded, shown)
<1> DEFINE y == C!Tell(c, will)
           z == C!Tell(c, did)
           v == Onto(z, t)
<1>1. /\ y \in Items /\ z \in Items
      /\ \A d : ~Makes(y, d) /\ ~Moves(y, d) /\ (Tells(y, d) <=> d = c)
      /\ \A d : ~Makes(z, d) /\ ~Moves(z, d) /\ (Tells(z, d) <=> d = c)
  BY TellItem
<1>2. Owed(v, c, did)
  BY <1>1, LeftOnto
<1>3. Starting(y, v, c, heard[c], loaded, shown)
  BY <1>2 DEF Starting
<1> HIDE DEF y, z
<1>4. v \in Seq(Items)
  BY <1>1, OntoParts
<1>5. s = Onto(y, v)
  <2>1. s = <<y, z>> \o t
    BY DEF y, z
  <2> QED
    BY <1>1, <2>1, Stacked
<1>6. Fine(v, loaded, alive)
  BY <1>1, PlainOnto
<1> HIDE DEF v
<1>7. ASSUME NEW d \in Controllers, d # c PROVE InTurn(d, s, heard[d], loaded, shown)
  <2>1. Steady(t, d, heard[d], loaded, appeared) /\ ~Tells(y, d) /\ ~Tells(z, d)
    BY <1>1, <1>7
  <2>2. Steady(v, d, heard[d], loaded, appeared)
    BY <1>1, <2>1, SteadyOnto DEF v
  <2>3. Steady(Onto(y, v), d, heard[d], loaded, appeared)
    BY <1>1, <1>4, <2>1, <2>2, SteadyOnto
  <2>4. d \in shown <=> d \in appeared
    BY <1>7
  <2> QED
    BY <1>5, <2>3, <2>4, StillInTurn
<1>8. Fine(s, loaded, alive)
  BY <1>1, <1>4, <1>5, <1>6, PlainOnto
<1>9. InTurn(c, s, heard[c], loaded, shown)
  <2>1. InTurn(c, Onto(y, v), heard[c], loaded, shown)
    BY <1>1, <1>3, <1>4, TurnOnto
  <2> QED
    BY <1>5, <2>1
<1> QED
  BY <1>7, <1>8, <1>9

LEMMA DidMoveInTurn ==
  ASSUME ControllersInv, C!DidMove
  PROVE  ControllersInv'
<1> DEFINE x == Head(todo)
           t == Tail(todo)
           c == x[2]
           to == x[3]
           known == c \in loaded /\ c \in alive
           shows == known /\ to = "window" /\ c \notin appeared
           hides == known /\ to # "window" /\ c \in appeared
<1>1. /\ x \in Items /\ t \in Seq(Items) /\ x[1] = "move" /\ todo = Onto(x, t)
      /\ Fine(t, loaded \cup LoadedBy(x), alive) /\ Fits(x, t, loaded, alive)
      /\ \A d \in Controllers : ~Tells(x, d) => Steady(t, d, heard[d], loaded, appeared)
  BY Under DEF C!DidMove
<1>2. /\ place' = [place EXCEPT ![c] = to]
      /\ shows => /\ appeared' = appeared \cup {c}
                  /\ todo' = <<C!Tell(c, "WillAppear"), C!Tell(c, "DidAppear")>> \o t
      /\ hides => /\ appeared' = appeared \ {c}
                  /\ todo' = <<C!Tell(c, "WillDisappear"), C!Tell(c, "DidDisappear")>> \o t
      /\ ~shows /\ ~hides => appeared' = appeared /\ todo' = <<>> \o t
  BY DEF C!DidMove, C!Rest
<1>3. UNCHANGED <<alive, loaded, children, parent, heard>>
  BY DEF C!DidMove, C!family
<1> HIDE DEF x, t
<1>4. /\ c \in Controllers /\ to \in Where /\ Moves(x, c)
      /\ \A d : ~Makes(x, d) /\ ~Tells(x, d)
  <2>1. PICK d \in Controllers, e \in Where : x = C!Item("move", d, e)
    BY <1>1, ItemForms
  <2> QED
    BY <2>1, MoveItem
<1>5. LoadedBy(x) = {} /\ c \in loaded /\ Silent(t, c)
  BY <1>1, <1>4 DEF LoadedBy, Fits
<1>6. /\ Fine(t, loaded, alive)
      /\ \A d \in Controllers : Steady(t, d, heard[d], loaded, appeared)
  <2>1. loaded \cup LoadedBy(x) = loaded
    BY <1>5
  <2> QED
    BY <1>1, <1>4, <2>1
<1>7. Resting(c, heard[c], loaded, appeared)
  <2>1. \A what \in Callbacks : ~Owed(t, c, what)
    BY <1>4, <1>5, TellItem DEF Owed, Silent
  <2> QED
    BY <1>4, <1>6, <2>1 DEF Steady, Callbacks
<1> HIDE DEF c, to
<1>8. ControllersType' /\ Family'
  BY <1>2, <1>3, <1>4 DEF ControllersInv, ControllersType, Family
<1>9. Fine(todo', loaded, alive) /\ \A d \in Controllers :
          InTurn(d, todo', heard[d], loaded, appeared')
  <2>1. CASE shows
    <3>1. heard[c] \in {"DidLoad", "DidDisappear"}
      BY <1>5, <1>7, <2>1 DEF Resting
    <3>2. appeared \ {c} = appeared' \ {c} /\ c \in appeared'
      BY <1>2, <2>1
    <3> QED
      BY <1>1, <1>2, <1>4, <1>5, <1>6, <2>1, <3>1, <3>2, TwoTold DEF Callbacks
  <2>2. CASE hides
    <3>1. heard[c] = "DidAppear"
      BY <1>5, <1>7, <2>2 DEF Resting
    <3>2. appeared \ {c} = appeared' \ {c} /\ c \notin appeared'
      BY <1>2, <2>2
    <3> QED
      BY <1>1, <1>2, <1>4, <1>5, <1>6, <2>2, <3>1, <3>2, TwoTold DEF Callbacks
  <2>3. CASE ~shows /\ ~hides
    <3>1. appeared' = appeared /\ todo' = t
      BY <1>1, <1>2, <2>3, Stacked
    <3> QED
      BY <1>6, <3>1 DEF InTurn
  <2> QED
    BY <2>1, <2>2, <2>3
<1>10. Seen'
  <2> SUFFICES ASSUME NEW d \in alive
               PROVE  place'[d] = "window" <=> d \in appeared'
    BY <1>3 DEF Seen
  <2>1. d \in Controllers /\ (place[d] = "window" <=> d \in appeared)
    BY DEF ControllersInv, ControllersType, Seen
  <2>2. CASE d # c
    BY <1>2, <2>1, <2>2 DEF ControllersInv, ControllersType
  <2>3. CASE d = c
    <3>1. place'[c] = to
      BY <1>2, <1>4 DEF ControllersInv, ControllersType
    <3> QED
      BY <1>2, <1>5, <2>3, <3>1
  <2> QED
    BY <2>2, <2>3
<1> QED
  BY <1>3, <1>8, <1>9, <1>10 DEF ControllersInv

LEMMA SwapInTurn ==
  ASSUME ControllersInv, C!Swap
  PROVE  ControllersInv'
<1> DEFINE x == Head(todo)
           t == Tail(todo)
           c == x[2]
           d == x[3]
           a == C!Item("move", d, place[c])
           b == C!Item("move", c, "out")
           f == C!Item("in", c, "completion")
<1>1. /\ x \in Items /\ t \in Seq(Items) /\ x[1] = "swap" /\ todo = Onto(x, t)
      /\ Fine(t, loaded \cup LoadedBy(x), alive) /\ Fits(x, t, loaded, alive)
      /\ \A e \in Controllers : ~Tells(x, e) => Steady(t, e, heard[e], loaded, appeared)
  BY Under DEF C!Swap
<1>2. todo' = ((IF place[c] = "out" THEN <<>> ELSE <<a>>) \o <<b, f>>) \o t
  BY DEF C!Swap, C!Rest
<1>3. UNCHANGED <<alive, loaded, appeared, place, children, parent, heard>>
  BY DEF C!Swap, C!family
<1> HIDE DEF x, t
<1>4. /\ c \in Controllers /\ d \in Controllers /\ Moves(x, c) /\ Moves(x, d)
      /\ \A e : ~Makes(x, e) /\ ~Tells(x, e)
  <2>1. PICK e \in Controllers, g \in Controllers : x = C!Item("swap", e, g)
    BY <1>1, ItemForms
  <2> QED
    BY <2>1, SwapItem
<1>5. LoadedBy(x) = {} /\ {c, d} \subseteq loaded /\ Silent(t, c) /\ Silent(t, d)
  BY <1>1, <1>4 DEF LoadedBy, Fits
<1>6. /\ Fine(t, loaded, alive)
      /\ \A e \in Controllers : Steady(t, e, heard[e], loaded, appeared)
  <2>1. loaded \cup LoadedBy(x) = loaded
    BY <1>5
  <2> QED
    BY <1>1, <1>4, <2>1
<1> HIDE DEF c, d
<1>7. /\ a \in Items /\ \A e : ~Makes(a, e) /\ ~Tells(a, e) /\ (Moves(a, e) <=> e = d)
  <2>1. place[c] \in Where
    BY <1>4 DEF ControllersInv, ControllersType
  <2> QED
    BY <1>4, <2>1, MoveItem
<1>8. /\ b \in Items /\ \A e : ~Makes(b, e) /\ ~Tells(b, e) /\ (Moves(b, e) <=> e = c)
  BY <1>4, MoveItem DEF Where
<1>9. /\ f \in Items /\ \A e : ~Makes(f, e) /\ ~Moves(f, e) /\ ~Tells(f, e)
  BY <1>4, InItem DEF Reasons
<1> HIDE DEF a, b, f
<1> DEFINE v == Onto(f, t)
           u == Onto(b, v)
<1>10. v \in Seq(Items) /\ u \in Seq(Items)
  BY <1>1, <1>8, <1>9, OntoParts
<1>11. todo' = u \/ todo' = Onto(a, u)
  <2>1. <<>> \o <<b, f>> = <<b, f>>
    BY <1>8, <1>9, NoneStacked
  <2>2. <<b, f>> \o t = Onto(b, Onto(f, t))
    BY <1>1, <1>8, <1>9, Stacked
  <2>3. (<<a>> \o <<b, f>>) \o t = Onto(a, Onto(b, Onto(f, t)))
    <3>1. t \in Seq(Items) /\ a \in Items /\ b \in Items /\ f \in Items
      BY <1>1, <1>7, <1>8, <1>9
    <3> QED
      BY <3>1, ThreeInPartsStacked, ZenonT(60)
  <2> QED
    BY <1>2, <2>1, <2>2, <2>3
<1>12. Silent(v, c) /\ Silent(v, d) /\ Silent(u, d)
  BY <1>1, <1>5, <1>8, <1>9, <1>10, SilentOnto
<1>13. ASSUME NEW e \in Controllers
       PROVE  Steady(u, e, heard[e], loaded, appeared)
  <2>1. Steady(v, e, heard[e], loaded, appeared)
    BY <1>1, <1>6, <1>9, SteadyOnto
  <2> QED
    BY <1>8, <1>10, <2>1, SteadyOnto
<1>14. Fine(v, loaded, alive)
  BY <1>1, <1>6, <1>9, PlainOnto
<1> HIDE DEF v
<1>15. Fine(u, loaded, alive)
  BY <1>5, <1>8, <1>10, <1>12, <1>14, PlainOnto
<1> HIDE DEF u
<1>16. Fine(Onto(a, u), loaded, alive)
  BY <1>5, <1>7, <1>10, <1>12, <1>15, PlainOnto
<1>17. \A e \in Controllers : Steady(Onto(a, u), e, heard[e], loaded, appeared)
  BY <1>7, <1>10, <1>13, SteadyOnto
<1>18. Fine(todo', loaded, alive) /\ \A e \in Controllers :
           InTurn(e, todo', heard[e], loaded, appeared)
  BY <1>11, <1>13, <1>15, <1>16, <1>17 DEF InTurn
<1> QED
  BY <1>3, <1>18 DEF ControllersInv, ControllersType, Seen, Family

\* A controller that is told something hears what comes next, and is then in turn.
LEMMA ToldNext ==
  ASSUME ControllersInv, NEW c \in Controllers, NEW what \in Callbacks,
         NEW t \in Seq(Items), todo = Onto(C!Tell(c, what), t)
  PROVE  /\ Steady(t, c, what, loaded, appeared)
         /\ <<heard[c], what>> \in
                {<<"nothing", "DidLoad">>, <<"DidLoad", "WillAppear">>,
                 <<"WillAppear", "DidAppear">>, <<"DidAppear", "WillDisappear">>,
                 <<"WillDisappear", "DidDisappear">>, <<"DidDisappear", "WillAppear">>}
<1> DEFINE x == C!Tell(c, what)
<1>1. /\ x \in Items /\ Tells(x, c)
      /\ \A w \in Callbacks : x = C!Tell(c, w) => w = what
  <2>1. x \in Items /\ Tells(x, c) /\ x[3] = what
    BY TellItem
  <2>2. \A w \in Callbacks : \A z : z = C!Tell(c, w) => z[3] = w
    BY TellItem
  <2> QED
    BY <2>1, <2>2
<1> HIDE DEF x
<1>2. todo = Onto(x, t)
  BY DEF x
<1>3. InTurn(c, Onto(x, t), heard[c], loaded, appeared)
  BY <1>2 DEF ControllersInv
<1>4. \/ Steady(Onto(x, t), c, heard[c], loaded, appeared)
      \/ Starting(x, t, c, heard[c], loaded, appeared)
  BY <1>1, <1>3, TurnOnto
<1>5. CASE Steady(Onto(x, t), c, heard[c], loaded, appeared)
  <2>1. ~Silent(Onto(x, t), c)
    BY <1>1, SilentOnto
  <2>2. ASSUME NEW w \in Callbacks, Owed(Onto(x, t), c, w) PROVE w = what /\ Silent(t, c)
    BY <1>1, <2>2, LeftOnto
  <2>3. "DidAppear" \in Callbacks /\ "DidDisappear" \in Callbacks
    BY DEF Callbacks
  <2>4. \/ /\ c \in loaded /\ c \in appeared /\ heard[c] = "WillAppear"
           /\ what = "DidAppear" /\ Silent(t, c)
        \/ /\ c \in loaded /\ c \notin appeared /\ heard[c] = "WillDisappear"
           /\ what = "DidDisappear" /\ Silent(t, c)
    BY <1>5, <2>1, <2>2, <2>3 DEF Steady
  <2> QED
    BY <2>4 DEF Steady, Resting
<1>6. CASE Starting(x, t, c, heard[c], loaded, appeared)
  <2>1. \/ /\ c \in loaded /\ what = "DidLoad" /\ Silent(t, c)
           /\ heard[c] = "nothing" /\ c \notin appeared
        \/ /\ c \in loaded /\ what = "WillAppear" /\ Owed(t, c, "DidAppear")
           /\ heard[c] \in {"DidLoad", "DidDisappear"} /\ c \in appeared
        \/ /\ c \in loaded /\ what = "WillDisappear" /\ Owed(t, c, "DidDisappear")
           /\ heard[c] = "DidAppear" /\ c \notin appeared
    BY <1>1, <1>6 DEF Starting, Callbacks
  <2> QED
    BY <2>1 DEF Steady, Resting
<1> QED
  BY <1>4, <1>5, <1>6

LEMMA ToldInTurn ==
  ASSUME ControllersInv, C!Told
  PROVE  ControllersInv'
<1> DEFINE x == Head(todo)
           t == Tail(todo)
           c == x[2]
           what == x[3]
           f == C!Item("in", c, "told")
<1>1. /\ x \in Items /\ t \in Seq(Items) /\ x[1] = "tell" /\ todo = Onto(x, t)
      /\ Fine(t, loaded \cup LoadedBy(x), alive) /\ Fits(x, t, loaded, alive)
      /\ \A e \in Controllers : ~Tells(x, e) => Steady(t, e, heard[e], loaded, appeared)
  BY Under DEF C!Told
<1>2. /\ heard' = [heard EXCEPT ![c] = what]
      /\ todo' = <<f>> \o t
  BY DEF C!Told, C!Rest
<1>3. UNCHANGED <<alive, loaded, appeared, place, children, parent>>
  BY DEF C!Told, C!family
<1> HIDE DEF x, t
<1>4. /\ c \in Controllers /\ what \in Callbacks /\ x = C!Tell(c, what)
      /\ \A e : ~Makes(x, e) /\ (Tells(x, e) <=> e = c)
  <2>1. PICK e \in Controllers, w \in Callbacks : x = C!Tell(e, w)
    BY <1>1, ItemForms
  <2> QED
    BY <2>1, TellItem
<1> HIDE DEF c, what
<1>5. /\ f \in Items /\ \A e : ~Makes(f, e) /\ ~Moves(f, e) /\ ~Tells(f, e)
  BY <1>4, InItem DEF Reasons
<1> HIDE DEF f
<1>6. todo' = Onto(f, t)
  BY <1>1, <1>2, <1>5, Stacked
<1>7. Fine(Onto(f, t), loaded, alive)
  <2>1. LoadedBy(x) = {}
    BY <1>4 DEF LoadedBy
  <2>2. loaded \cup LoadedBy(x) = loaded
    BY <2>1
  <2>3. Fine(t, loaded, alive)
    BY <1>1, <2>2
  <2> QED
    BY <1>1, <1>5, <2>3, PlainOnto
<1>8. ASSUME NEW e \in Controllers
      PROVE  InTurn(e, Onto(f, t), heard'[e], loaded, appeared)
  <2>1. Steady(t, e, heard'[e], loaded, appeared)
    <3>1. CASE e = c
      <4>1. heard'[c] = what
        BY <1>2, <1>4 DEF ControllersInv, ControllersType
      <4> QED
        BY <1>1, <1>4, <3>1, <4>1, ToldNext
    <3>2. CASE e # c
      <4>1. heard'[e] = heard[e]
        BY <1>2, <3>2 DEF ControllersInv, ControllersType
      <4> QED
        BY <1>1, <1>4, <3>2, <4>1
    <3> QED
      BY <3>1, <3>2
  <2> QED
    BY <1>1, <1>5, <2>1, SteadyOnto, StillInTurn
<1>9. ControllersType' /\ Seen' /\ Family'
  BY <1>2, <1>3, <1>4 DEF ControllersInv, ControllersType, Seen, Family
<1> QED
  BY <1>3, <1>6, <1>7, <1>8, <1>9 DEF ControllersInv

LEMMA ControllersStep ==
  ASSUME Allowed \cap {"nested", "early", "reparent", "loadview"} = {},
         ControllersInv, C!Next
  PROVE  ControllersInv'
<1>1. /\ "nested" \notin Allowed /\ "early" \notin Allowed
      /\ "reparent" \notin Allowed /\ "loadview" \notin Allowed
  OBVIOUS
<1> QED
  BY <1>1, ViewInTurn, MoveInTurn, TransitionInTurn, AddChildInTurn, RemoveInTurn,
     FreeInTurn, LoadInTurn, LoadedInTurn, DidMoveInTurn, SwapInTurn, ToldInTurn, ReturnInTurn
     DEF C!Next, Where

\* What is in turn is settled.
LEMMA InTurnSettled ==
  ASSUME ControllersInv
  PROVE  C!Settled
<1>1. ASSUME C!Doing("tell") PROVE heard[Head(todo)[2]] # Head(todo)[3]
  <2>1. /\ Head(todo) \in Items /\ Tail(todo) \in Seq(Items)
        /\ todo = Onto(Head(todo), Tail(todo)) /\ Head(todo)[1] = "tell"
    BY <1>1, Under
  <2>2. PICK c \in Controllers, what \in Callbacks : Head(todo) = C!Tell(c, what)
    BY <2>1, ItemForms
  <2>3. Head(todo)[2] = c /\ Head(todo)[3] = what
    BY <2>2, TellItem
  <2>4. <<heard[c], what>> \in
            {<<"nothing", "DidLoad">>, <<"DidLoad", "WillAppear">>,
             <<"WillAppear", "DidAppear">>, <<"DidAppear", "WillDisappear">>,
             <<"WillDisappear", "DidDisappear">>, <<"DidDisappear", "WillAppear">>}
    BY <2>1, <2>2, ToldNext
  <2>5. heard[c] # what
    BY <2>4
  <2> QED
    BY <2>3, <2>5
<1>2. ASSUME todo = <<>>, NEW c \in alive
      PROVE  (place[c] = "window") <=> (heard[c] = "DidAppear")
  <2>1. c \in Controllers /\ (place[c] = "window" <=> c \in appeared)
    BY DEF ControllersInv, ControllersType, Seen
  <2>2. InTurn(c, todo, heard[c], loaded, appeared)
    BY <2>1 DEF ControllersInv
  <2>3. \A what : ~Owed(todo, c, what)
    BY <1>2 DEF Owed
  <2>4. Resting(c, heard[c], loaded, appeared)
    BY <1>2, <2>2, <2>3 DEF InTurn, Steady
  <2> QED
    BY <2>1, <2>4 DEF Resting
<1> QED
  BY <1>1, <1>2 DEF C!Settled, ControllersInv, Family

\* What a controller hears is what comes next for it.
LEMMA HeardInTurn ==
  ASSUME ControllersInv, C!Next, NEW c \in Controllers, heard'[c] # heard[c]
  PROVE  /\ c \in alive
         /\ <<heard[c], heard'[c]>> \in
                {<<"nothing", "DidLoad">>, <<"DidLoad", "WillAppear">>,
                 <<"WillAppear", "DidAppear">>, <<"DidAppear", "WillDisappear">>,
                 <<"WillDisappear", "DidDisappear">>, <<"DidDisappear", "WillAppear">>}
<1>1. C!Told
  BY DEF C!Next, C!View, C!Move, C!Transition, C!AddChild, C!RemoveFromParent, C!Free,
         C!Load, C!Loaded, C!DidMove, C!Swap, C!Return
<1> DEFINE x == Head(todo)
           t == Tail(todo)
<1>2. /\ x \in Items /\ t \in Seq(Items) /\ x[1] = "tell" /\ todo = Onto(x, t)
      /\ Fits(x, t, loaded, alive)
  BY <1>1, Under DEF C!Told
<1>3. heard' = [heard EXCEPT ![x[2]] = x[3]]
  BY <1>1 DEF C!Told
<1> HIDE DEF x, t
<1>4. PICK d \in Controllers, what \in Callbacks : x = C!Tell(d, what)
  BY <1>2, ItemForms
<1>5. x[2] = d /\ x[3] = what /\ Tells(x, d)
  BY <1>4, TellItem
<1>6. d = c /\ heard'[c] = what
  BY <1>3, <1>5 DEF ControllersInv, ControllersType
<1>7. c \in alive
  BY <1>2, <1>5, <1>6 DEF Fits
<1> QED
  BY <1>2, <1>4, <1>6, <1>7, ToldNext

\* A controller is told once that its view was loaded, before anything else, and then
\* in turn that it will appear, did, will disappear and did (EHViewControllerView,
\* EHViewDidMoveToWindow), if the program asks a controller for its view before it
\* shows it and not from its loadView, moves none in the call that says it will move,
\* and gives a child that has a parent no other.
THEOREM ControllersToldInOrder ==
  ASSUME Allowed \cap {"nested", "early", "reparent", "loadview"} = {}
  PROVE  MCSpec => CallbacksInOrder
<1>1. MCInit => ControllersInv
  <2> SUFFICES ASSUME MCInit PROVE ControllersInv
    OBVIOUS
  <2> USE DEF MCInit, C!Init
  <2>1. ControllersType /\ Seen /\ Family
    BY NobodyIsNone DEF ControllersType, Where, Callbacks, Seen, Family
  <2>2. Fine(todo, loaded, alive)
    BY DEF Fine, Ordered, LoadDue, Fresh, Living
  <2>3. ASSUME NEW c \in Controllers
        PROVE  InTurn(c, todo, heard[c], loaded, appeared)
    BY DEF InTurn, Steady, Silent, Resting
  <2> QED
    BY <2>1, <2>2, <2>3 DEF ControllersInv
<1>2. [MCNext]_frameworks => C!Next \/ UNCHANGED C!vars
  BY DEF MCNext, frameworks, controllers, C!vars
<1>3. ControllersInv /\ [MCNext]_frameworks => ControllersInv'
  <2>1. ControllersInv /\ UNCHANGED C!vars => ControllersInv'
    BY DEF ControllersInv, ControllersType, Seen, Family, C!vars
  <2> QED
    BY <1>2, <2>1, ControllersStep
<1>4. ControllersInv /\ ControllersInv' /\ [MCNext]_frameworks =>
          [/\ \A c \in Controllers :
                  heard'[c] # heard[c] =>
                      /\ c \in alive
                      /\ <<heard[c], heard'[c]>> \in
                             {<<"nothing", "DidLoad">>, <<"DidLoad", "WillAppear">>,
                              <<"WillAppear", "DidAppear">>,
                              <<"DidAppear", "WillDisappear">>,
                              <<"WillDisappear", "DidDisappear">>,
                              <<"DidDisappear", "WillAppear">>}
           /\ C!Settled']_(C!vars)
  <2>1. ControllersInv' => C!Settled'
    <3>1. ControllersInv => C!Settled
      BY InTurnSettled
    <3> QED
      BY <3>1, PTL
  <2> QED
    BY <1>2, <2>1, HeardInTurn
<1> QED
  BY <1>1, <1>3, <1>4, PTL DEF MCSpec, CallbacksInOrder, C!CallbacksInOrder
-----------------------------------------------------------------------------
(***************************************************************************)
(* Weak references.  What the calls keep among themselves (CallsInv) needs *)
(* only that no two threads are in calls on one slot; on it rest what      *)
(* keeps a slot's word backed by one of the two tables (BackedInv), and    *)
(* what leaves nothing of a slot in either (TracesInv).                    *)
(***************************************************************************)
Ours == {"undo", "attach", "associate", "remember", "write"}
Theirs == {"drop", "clear", "store", "init", "record"}
Storing == {"look"} \cup Ours \cup Theirs
Loading == {"read", "retain", "load"}
Ending == {"end", "unregister", "blank"}
Dying == {"zero", "free"}
Points == {"idle", "bind", "release"} \cup Storing \cup Loading \cup Ending \cup Dying

Calls == [at : Points, loc : Slots \cup {Nil}, obj : Objects \cup {Nil},
          next : {"none", "look", "init", "read", "end", "idle"},
          left : Seq({"store", "init", "load", "destroy"}),
          then : {"none", "copy", "move", "copied", "moved"},
          from : Slots \cup {Nil}, kept : BOOLEAN]

Tables == {"none", "ours", "objc"}

TypeOK == /\ life \in [Objects -> {"live", "dying", "freed"}]
          /\ strong \in [Threads -> SUBSET Objects]
          /\ exists \subseteq Slots
          /\ value \in [Slots -> Objects \cup {Nil}]
          /\ reg \in [Slots -> [obj : Objects \cup {Nil}, owner : Tables]]
          /\ given \in [Slots -> Objects \cup {Nil}]
          /\ sentinel \subseteq Objects
          /\ call \in [Threads -> Calls]

\* Where a call is, and what it goes on to, as one: the binding of objc's
\* functions comes before a call's first step, an object's end after its last.
Stage(c) == IF c.at \in Dying \cup {"bind"} THEN c.next ELSE c.at

\* A store has an object of one kind or the other, or none; a copy loads from
\* one slot and then stores in the other.
Formed(c) ==
    /\ Stage(c) \in Storing \cup Loading \cup Ending \cup {"idle", "release"}
    /\ c.at \in Dying => Stage(c) \in {"idle", "end"}
    /\ c.at = "bind" => Stage(c) \in {"look", "init", "read", "end"}
    /\ c.loc = Nil <=> Stage(c) = "idle"
    /\ c.from = Nil <=> c.then = "none"
    /\ c.from # Nil => c.from # c.loc
    /\ c.then \in {"copy", "move"} => Stage(c) \in Loading
    /\ c.then \in {"copied", "moved"} =>
          c.at \in Storing \cup {"release"} /\ c.obj # Nil
    /\ c.at \in Dying \cup {"release", "retain"} => c.obj # Nil
    /\ c.at = "release" => c.then # "none"
    /\ c.at \in Ours => c.obj \in Custom
    /\ Stage(c) \in Theirs => c.obj \notin Custom

\* The slots of a call, and the one of them that is going away.
Held(c) == {c.loc, c.from} \ {Nil}
Leaving(c) == CASE Stage(c) \in Ending \/ c.then = "move" -> {c.loc}
                [] c.then = "moved" -> {c.from}
                [] OTHER -> {}

\* No two threads are in calls on one slot, ...
Separate == \A t, u \in Threads : t # u => Held(call[t]) \cap Held(call[u]) = {}

\* ... and of the slots that a call is on there are those it does not take away.
Kept == \A t \in Threads : /\ Held(call[t]) \ Leaving(call[t]) \subseteq exists
                           /\ Leaving(call[t]) \cap exists = {}

CallsInv == TypeOK /\ (\A t \in Threads : Formed(call[t])) /\ Separate /\ Kept

LEMMA InitCalls == Init => CallsInv
<1> SUFFICES ASSUME Init PROVE CallsInv
  OBVIOUS
<1>1. Idle \in Calls /\ Formed(Idle) /\ Held(Idle) = {} /\ Leaving(Idle) = {}
  BY WeakConstants DEF Idle, Calls, Points, Formed, Stage, Held, Leaving, Storing, Ours, Theirs,
     Loading, Ending, Dying
<1>2. \A t \in Threads : call[t] = Idle
  BY DEF Init
<1> QED
  BY <1>1, <1>2 DEF Init, CallsInv, TypeOK, Tables, Unknown, Separate, Kept

\* A call goes on, on no more slots.
Passes(c, d) == /\ Formed(d) /\ Held(d) \subseteq Held(c)
                /\ Held(d) \ Leaving(d) \subseteq Held(c) \ Leaving(c)
                /\ Leaving(d) \subseteq Leaving(c)

LEMMA CallPasses ==
  ASSUME CallsInv, NEW t \in Threads, NEW d \in Calls, Passes(call[t], d), TypeOK',
         call' = [call EXCEPT ![t] = d], exists' = exists
  PROVE  CallsInv'
<1>1. call'[t] = d /\ \A u \in Threads \ {t} : call'[u] = call[u]
  BY DEF CallsInv, TypeOK
<1>2. \A u \in Threads : Formed(call'[u])
  BY <1>1 DEF CallsInv, Passes
<1>3. \A u \in Threads : Held(call'[u]) \subseteq Held(call[u])
  BY <1>1 DEF Passes
<1>4. Separate'
  BY <1>3 DEF CallsInv, Separate
<1>5. Kept'
  BY <1>1 DEF CallsInv, Kept, Passes
<1> QED
  BY <1>2, <1>4, <1>5 DEF CallsInv

\* What the registry's operators make of the registry.
LEMMA RegistryTyped ==
  ASSUME TypeOK, NEW x, NEW o \in Objects \cup {Nil}, NEW p, NEW owner \in Tables
  PROVE  /\ Forget(x) => reg' \in [Slots -> [obj : Objects \cup {Nil}, owner : Tables]]
         /\ Remember(x, o, owner) =>
                reg' \in [Slots -> [obj : Objects \cup {Nil}, owner : Tables]]
         /\ ZeroFor(p) => /\ reg' \in [Slots -> [obj : Objects \cup {Nil}, owner : Tables]]
                          /\ value' \in [Slots -> Objects \cup {Nil}]
<1>1. Unknown \in [obj : Objects \cup {Nil}, owner : Tables]
  BY DEF Unknown, Tables
<1>2. [obj |-> o, owner |-> owner] \in [obj : Objects \cup {Nil}, owner : Tables]
  OBVIOUS
<1>3. Forget(x) => reg' \in [Slots -> [obj : Objects \cup {Nil}, owner : Tables]]
  BY <1>1 DEF Forget, TypeOK
<1>4. Remember(x, o, owner) => reg' \in [Slots -> [obj : Objects \cup {Nil}, owner : Tables]]
  <2>1. Remember(x, o, owner) =>
            \E e \in [obj : Objects \cup {Nil}, owner : Tables] : reg' = [reg EXCEPT ![x] = e]
    BY <1>1, <1>2 DEF Remember
  <2> QED
    BY <2>1 DEF TypeOK
<1>5. ZeroFor(p) => /\ reg' \in [Slots -> [obj : Objects \cup {Nil}, owner : Tables]]
                    /\ value' \in [Slots -> Objects \cup {Nil}]
  BY <1>1 DEF ZeroFor, TypeOK
<1> QED
  BY <1>3, <1>4, <1>5

\* The steps of a store.
LEMMA StoreCalls ==
  ASSUME CallsInv, NEW t \in Threads,
         \/ Look(t) \/ Undo(t) \/ Attach(t) \/ Associate(t) \/ RememberOurs(t)
         \/ Drop(t) \/ Clear(t) \/ RealStore(t)
  PROVE  CallsInv'
<1> DEFINE c == call[t]
<1>0. c \in Calls /\ Formed(c)
  BY DEF CallsInv, TypeOK
<1>1. \E at \in Storing :
         /\ call' = [call EXCEPT ![t] = [c EXCEPT !.at = at]]
         /\ (at \in Ours => c.obj \in Custom) /\ (at \in Theirs => c.obj \notin Custom)
  <2>1. c.at \in Ours => c.obj \in Custom
    BY <1>0 DEF Formed
  <2>2. c.at \in Theirs => c.obj \notin Custom
    BY <1>0 DEF Formed, Stage, Theirs, Dying
  <2>3. CASE Look(t)
    <3>1. PICK at \in {"drop", "undo", "attach"} :
            /\ Goto(t, at)
            /\ (at # "drop" => c.obj \in Custom) /\ (at = "drop" => c.obj \notin Custom)
      BY <2>3 DEF Look
    <3> QED
      BY <3>1 DEF Goto, Storing, Ours, Theirs
  <2>4. CASE Undo(t) \/ Attach(t) \/ Associate(t) \/ RememberOurs(t)
    BY <2>1, <2>4 DEF Undo, Attach, Associate, RememberOurs, Goto, At, Storing, Ours, Theirs
  <2>5. CASE Drop(t) \/ Clear(t) \/ RealStore(t)
    BY <2>2, <2>5 DEF Drop, Clear, RealStore, Goto, At, Storing, Ours, Theirs
  <2> QED
    BY <2>3, <2>4, <2>5
<1>01. PICK at \in Storing :
         /\ call' = [call EXCEPT ![t] = [c EXCEPT !.at = at]]
         /\ (at \in Ours => c.obj \in Custom) /\ (at \in Theirs => c.obj \notin Custom)
  BY <1>1
<1>2. c.at \in Storing /\ exists' = exists
  BY DEF Look, Undo, Attach, Associate, RememberOurs, Drop, Clear, RealStore, At, Storing, Ours,
     Theirs
<1>3. [c EXCEPT !.at = at] \in Calls
  BY <1>0 DEF Calls, Points
<1>4. Passes(c, [c EXCEPT !.at = at])
  <2> DEFINE d == [c EXCEPT !.at = at]
  <2>1. d.at = at /\ d.loc = c.loc /\ d.from = c.from /\ d.then = c.then /\ d.obj = c.obj
    BY <1>0 DEF Calls
  <2>2. Stage(c) = c.at /\ Stage(d) = at
    BY <1>2, <2>1 DEF Stage, Storing, Ours, Theirs, Dying
  <2>3. Storing \cap (Loading \cup Ending \cup Dying \cup {"idle", "bind", "release", "retain"}) = {}
    BY DEF Storing, Ours, Theirs, Loading, Ending, Dying
  <2>4. Formed(d)
    BY <1>0, <1>01, <1>2, <2>1, <2>2, <2>3 DEF Formed
  <2>5. Held(d) = Held(c) /\ Leaving(d) = Leaving(c)
    BY <1>0, <1>01, <1>2, <2>1, <2>2, <2>3 DEF Held, Leaving
  <2> QED
    BY <2>4, <2>5 DEF Passes
<1>5. TypeOK'
  <2>1. call' \in [Threads -> Calls]
    BY <1>01, <1>3 DEF CallsInv, TypeOK
  <2>2. UNCHANGED <<life, strong, exists>>
    BY DEF Look, Undo, Attach, Associate, RememberOurs, Drop, Clear, RealStore
  <2>3. value' \in [Slots -> Objects \cup {Nil}]
    BY <1>0, SMTT(60) DEF Look, Undo, Attach, Associate, RememberOurs, Drop, Clear, RealStore, ZeroFor,
       CallsInv, TypeOK, tables, Calls
  <2>4. reg' \in [Slots -> [obj : Objects \cup {Nil}, owner : Tables]]
    <3>1. reg' = reg \/ (\E o : ZeroFor(o)) \/ Forget(c.loc) \/ Remember(c.loc, c.obj, "ours")
      BY DEF Look, Undo, Attach, Associate, RememberOurs, Drop, Clear, RealStore, tables
    <3> QED
      BY <1>0, <3>1, RegistryTyped DEF CallsInv, TypeOK, Calls, Tables
  <2>5. given' \in [Slots -> Objects \cup {Nil}]
    BY <1>0 DEF Look, Undo, Attach, Associate, RememberOurs, Drop, Clear, RealStore,
       CallsInv, TypeOK, tables, Calls
  <2>6. sentinel' \subseteq Objects
    <3>1. At(t, "associate") => c.obj \in Objects
      BY <1>0, WeakConstants DEF At, Formed, Ours
    <3> QED
      BY <3>1 DEF Look, Undo, Attach, Associate, RememberOurs, Drop, Clear, RealStore,
         CallsInv, TypeOK, tables
  <2> QED
    BY <2>1, <2>2, <2>3, <2>4, <2>5, <2>6 DEF CallsInv, TypeOK
<1> QED
  BY <1>01, <1>2, <1>3, <1>4, <1>5, CallPasses

\* The end of a call's slot, as a move goes on to it.
Ended(x) == [Idle EXCEPT !.at = "end", !.loc = x]

LEMMA IdlePasses ==
  ASSUME NEW c
  PROVE  /\ Idle \in Calls /\ Formed(Idle) /\ Held(Idle) = {} /\ Leaving(Idle) = {}
         /\ Passes(c, Idle)
<1>1. Idle \in Calls /\ Formed(Idle) /\ Held(Idle) = {} /\ Leaving(Idle) = {}
  BY WeakConstants DEF Idle, Calls, Points, Formed, Stage, Held, Leaving, Storing, Ours, Theirs,
     Loading, Ending, Dying
<1> QED
  BY <1>1 DEF Passes

LEMMA EndedPasses ==
  ASSUME NEW c \in Calls, NEW x \in Slots, c.then \in {"move", "moved"}, x \in Leaving(c)
  PROVE  Idle \in Calls /\ Passes(c, Idle) /\ Ended(x) \in Calls /\ Passes(c, Ended(x))
<1>0. /\ Ended(x).at = "end" /\ Ended(x).loc = x /\ Ended(x).from = Nil /\ Ended(x).then = "none"
      /\ Ended(x).obj = Nil /\ Ended(x) \in Calls
  BY IdlePasses DEF Ended, Idle, Calls, Points, Ending
<1>1. /\ Ended(x) \in Calls /\ Formed(Ended(x)) /\ Held(Ended(x)) = {x}
      /\ Leaving(Ended(x)) = {x}
  BY <1>0, WeakConstants DEF Calls, Points, Formed, Stage, Held, Leaving, Storing, Ours, Theirs,
     Loading, Ending, Dying
<1>2. x \in Held(c)
  BY WeakConstants DEF Leaving, Held
<1> QED
  BY <1>1, <1>2, IdlePasses DEF Passes

LEMMA StoringStages ==
  Storing \cap (Loading \cup Ending \cup Dying \cup {"idle", "bind", "release", "retain"}) = {}
BY DEF Storing, Ours, Theirs, Loading, Ending, Dying

\* What a return makes of a call: nothing, the release or the end of a copy.
LEMMA Returned ==
  ASSUME CallsInv, NEW t \in Threads, call[t].at \in {"write", "record"}, Return(t)
  PROVE  \E d \in Calls :
            /\ call' = [call EXCEPT ![t] = d] /\ Passes(call[t], d)
            /\ \/ call[t].then # "moved" /\ d = Idle
               \/ call[t].then = "moved" /\ d = Ended(call[t].from)
               \/ call[t].then # "none" /\ d = [call[t] EXCEPT !.at = "release"]
<1> DEFINE c == call[t]
           r == [c EXCEPT !.at = "release"]
<1>0. c \in Calls /\ Formed(c) /\ c.at \in Storing
  BY DEF CallsInv, TypeOK, Storing, Ours, Theirs
<1>1. c.then = "moved" => c.from \in Slots /\ c.from \in Leaving(c)
  BY <1>0 DEF Formed, Calls, Leaving, Stage, Storing, Ours, Theirs, Dying, Ending
<1>2. c.then \in {"copied", "moved"} => r \in Calls /\ Passes(c, r)
  <2>1. SUFFICES ASSUME c.then \in {"copied", "moved"} PROVE r \in Calls /\ Passes(c, r)
    OBVIOUS
  <2>2. /\ r \in Calls /\ r.at = "release" /\ r.loc = c.loc /\ r.from = c.from /\ r.then = c.then
        /\ r.obj = c.obj
    BY <1>0 DEF Calls, Points
  <2>3. Stage(r) = "release" /\ Stage(c) = c.at
    BY <1>0, <2>2, StoringStages DEF Stage, Dying
  <2>4. Formed(r)
    BY <1>0, <2>1, <2>2, <2>3, StoringStages DEF Formed, Dying, Ours, Theirs, Storing, Loading
  <2>5. Held(r) = Held(c) /\ Leaving(r) = Leaving(c)
    BY <1>0, <2>1, <2>2, <2>3, StoringStages DEF Held, Leaving, Ending
  <2> QED
    BY <2>2, <2>4, <2>5 DEF Passes
<1>3. Idle \in Calls /\ Passes(c, Idle)
  BY IdlePasses
<1>4. CASE c.then \in {"copied", "moved"} /\ ~ c.kept
  BY <1>2, <1>4 DEF Return
<1>5. CASE c.then = "moved" /\ c.kept
  <2>1. call' = [call EXCEPT ![t] = Ended(c.from)]
    BY <1>5 DEF Return, Ended
  <2> QED
    BY <1>0, <1>1, <1>5, <2>1, EndedPasses
<1>6. CASE c.then \notin {"copied", "moved"} \/ (c.then = "copied" /\ c.kept)
  <2>1. call' = [call EXCEPT ![t] = Idle]
    BY <1>6 DEF Return
  <2> QED
    BY <1>3, <1>6, <2>1
<1> QED
  BY <1>0, <1>4, <1>5, <1>6 DEF Calls

\* What a load makes of a call: nothing, a copy's store, or the end of a move.
Copying(t, o) ==
    LET c == call[t]
    IN  [c EXCEPT !.loc = c.from, !.from = c.loc, !.obj = o, !.at = "look",
                  !.then = IF c.then = "move" THEN "moved" ELSE "copied",
                  !.kept = o \in strong[t]]

LEMMA CopyingFields ==
  ASSUME NEW t \in Threads, call[t] \in Calls, NEW o \in Objects \cup {Nil}
  PROVE  LET c == call[t]
             s == Copying(t, o) IN
         /\ s \in Calls /\ s.at = "look" /\ s.loc = c.from /\ s.from = c.loc /\ s.obj = o
         /\ s.then = IF c.then = "move" THEN "moved" ELSE "copied"
<1> DEFINE c == call[t]
           s == Copying(t, o)
<1>1. s \in Calls
  <2> DEFINE then == IF c.then = "move" THEN "moved" ELSE "copied"
             placed == [c EXCEPT !.loc = c.from, !.from = c.loc, !.obj = o, !.at = "look"]
             set == [placed EXCEPT !.then = then]
  <2>1. placed \in Calls
    BY DEF Calls, Points, Storing
  <2>2. set \in Calls
    BY <2>1, ZenonT(60) DEF Calls
  <2>3. s = [set EXCEPT !.kept = o \in strong[t]]
    BY DEF Copying
  <2> HIDE DEF set
  <2>4. PICK kept \in BOOLEAN : kept = (o \in strong[t])
    <3>1. (o \in strong[t]) \in BOOLEAN
      OBVIOUS
    <3> QED
      BY <3>1, Zenon
  <2>5. [set EXCEPT !.kept = kept] \in Calls
    BY <2>2 DEF Calls
  <2> QED
    BY <2>3, <2>4, <2>5
<1>2. s.at = "look" /\ s.loc = c.from
  BY DEF Calls, Copying
<1>3. s.from = c.loc /\ s.obj = o
  BY DEF Calls, Copying
<1>4. s.then = IF c.then = "move" THEN "moved" ELSE "copied"
  BY DEF Calls, Copying
<1> QED
  BY <1>1, <1>2, <1>3, <1>4

LEMMA LoadedCall ==
  ASSUME CallsInv, NEW t \in Threads, call[t].at \in Loading, NEW o \in Objects \cup {Nil},
         Loaded(t, o)
  PROVE  \E d \in Calls :
            /\ call' = [call EXCEPT ![t] = d] /\ Passes(call[t], d)
            /\ \/ call[t].then # "move" /\ d = Idle
               \/ /\ call[t].then # "none" /\ o # Nil
                  /\ d = Copying(t, o)
               \/ call[t].then = "move" /\ o = Nil /\ d = Ended(call[t].loc)
<1> DEFINE c == call[t]
           s == Copying(t, o)
<1>0. c \in Calls /\ Formed(c) /\ Stage(c) = c.at
  BY DEF CallsInv, TypeOK, Loading, Stage, Dying
<1>1. c.then \in {"none", "copy", "move"} /\ c.loc \in Slots
  BY <1>0 DEF Formed, Calls, Loading, Storing, Ours, Theirs
<1>2. Idle \in Calls /\ Passes(c, Idle)
  BY IdlePasses
<1>3. c.then # "none" /\ o # Nil => s \in Calls /\ Passes(c, s)
  <2>1. SUFFICES ASSUME c.then # "none", o # Nil PROVE s \in Calls /\ Passes(c, s)
    OBVIOUS
  <2>2. /\ s \in Calls /\ s.at = "look" /\ s.loc = c.from /\ s.from = c.loc /\ s.obj = o
        /\ s.then = IF c.then = "move" THEN "moved" ELSE "copied"
    BY <1>0, CopyingFields
  <2>3. c.from \in Slots /\ c.from # c.loc
    BY <1>0, <2>1 DEF Formed, Calls
  <2>4. Stage(s) = "look"
    BY <2>2 DEF Stage, Dying
  <2>5. Formed(s)
    BY <1>1, <2>1, <2>2, <2>3, <2>4, WeakConstants DEF Formed, Storing, Dying, Ours, Theirs,
       Loading
  <2>6. Held(s) = Held(c)
    BY <2>2 DEF Held
  <2>7. Leaving(s) = Leaving(c)
    <3>1. CASE c.then = "move"
      BY <1>0, <1>1, <2>2, <2>4, <3>1 DEF Leaving, Ending
    <3>2. CASE c.then = "copy"
      BY <1>0, <1>1, <2>2, <2>4, <3>2 DEF Leaving, Ending, Loading
    <3> QED
      BY <1>1, <2>1, <3>1, <3>2
  <2> QED
    BY <2>2, <2>5, <2>6, <2>7 DEF Passes
<1>4. c.then = "move" => Ended(c.loc) \in Calls /\ Passes(c, Ended(c.loc))
  BY <1>0, <1>1, EndedPasses DEF Leaving
<1>5. \/ c.then # "move" /\ call' = [call EXCEPT ![t] = Idle]
      \/ c.then # "none" /\ o # Nil /\ call' = [call EXCEPT ![t] = s]
      \/ c.then = "move" /\ o = Nil /\ call' = [call EXCEPT ![t] = Ended(c.loc)]
  BY DEF Loaded, Copying, Ended
<1> QED
  BY <1>2, <1>3, <1>4, <1>5

\* The steps of a load.
LEMMA LoadCalls ==
  ASSUME CallsInv, NEW t \in Threads, Read(t) \/ Retain(t) \/ RealLoad(t)
  PROVE  CallsInv'
<1> DEFINE c == call[t]
<1>0. c \in Calls /\ Formed(c) /\ c.at \in Loading /\ c.loc \in Slots
  <2>1. c \in Calls /\ Formed(c) /\ c.at \in Loading
    BY DEF CallsInv, TypeOK, Read, Retain, RealLoad, At, Loading
  <2> QED
    BY <2>1 DEF Formed, Calls, Stage, Loading, Dying
<1>1. UNCHANGED <<life, exists, reg, given, sentinel>>
  BY DEF Read, Retain, RealLoad
<1>2. CASE \E o \in Objects \cup {Nil} : Loaded(t, o)
  <2>1. PICK o \in Objects \cup {Nil} : Loaded(t, o)
    BY <1>2
  <2>2. PICK d \in Calls : call' = [call EXCEPT ![t] = d] /\ Passes(c, d)
    BY <1>0, <2>1, LoadedCall
  <2>3. strong' \in [Threads -> SUBSET Objects]
    BY <2>1 DEF Loaded, CallsInv, TypeOK
  <2>4. value' \in [Slots -> Objects \cup {Nil}]
    BY <2>1 DEF Loaded, CallsInv, TypeOK
  <2>5. TypeOK'
    BY <1>1, <2>2, <2>3, <2>4 DEF CallsInv, TypeOK
  <2> QED
    BY <1>1, <2>2, <2>5, CallPasses
<1>3. CASE \E at \in {"load", "retain"}, o \in Objects \cup {Nil} :
              /\ call' = [call EXCEPT ![t] = [c EXCEPT !.at = at, !.obj = o]]
              /\ at = "retain" => o # Nil
              /\ UNCHANGED <<strong, value>>
  <2>1. PICK at \in {"load", "retain"}, o \in Objects \cup {Nil} :
              /\ call' = [call EXCEPT ![t] = [c EXCEPT !.at = at, !.obj = o]]
              /\ at = "retain" => o # Nil
              /\ UNCHANGED <<strong, value>>
    BY <1>3
  <2> DEFINE d == [c EXCEPT !.at = at, !.obj = o]
  <2>2. /\ d \in Calls /\ d.at = at /\ d.loc = c.loc /\ d.from = c.from /\ d.then = c.then
        /\ d.obj = o
    BY <1>0 DEF Calls, Points, Loading
  <2>3. Stage(c) \in Loading /\ Stage(d) = at /\ at \in Loading
    BY <1>0, <2>2 DEF Stage, Loading, Dying
  <2>4. c.then \notin {"copied", "moved"}
    BY <1>0, StoringStages DEF Formed, Loading, Storing, Ours, Theirs
  <2>5. Formed(d)
    BY <1>0, <2>1, <2>2, <2>3, <2>4 DEF Formed, Loading, Storing, Ours, Theirs, Dying
  <2>6. Held(d) = Held(c) /\ Leaving(d) = Leaving(c)
    BY <2>2, <2>3 DEF Held, Leaving, Loading, Ending
  <2>7. TypeOK'
    BY <1>1, <2>1, <2>2 DEF CallsInv, TypeOK
  <2> QED
    BY <1>1, <2>1, <2>2, <2>5, <2>6, <2>7, CallPasses DEF Passes
<1>4. CASE Read(t)
  <2>1. CASE reg[c.loc].owner # "ours"
    <3>1. call' = [call EXCEPT ![t] = [c EXCEPT !.at = "load", !.obj = c.obj]]
      BY <1>0, <1>4, <2>1 DEF Read, Goto, Calls, CallsInv, TypeOK
    <3> QED
      BY <1>0, <1>3, <1>4, <2>1, <3>1 DEF Read, Calls
  <2>2. CASE reg[c.loc].owner = "ours" /\ value[c.loc] = Nil
    BY <1>2, <1>4, <2>2 DEF Read
  <2>3. CASE reg[c.loc].owner = "ours" /\ value[c.loc] # Nil
    <3>1. /\ call' = [call EXCEPT ![t] = [c EXCEPT !.at = "retain", !.obj = value[c.loc]]]
          /\ UNCHANGED <<strong, value>>
      BY <1>4, <2>3 DEF Read
    <3>2. value[c.loc] \in Objects \cup {Nil}
      BY <1>0 DEF CallsInv, TypeOK
    <3> QED
      BY <1>3, <2>3, <3>1, <3>2
  <2> QED
    BY <2>1, <2>2, <2>3
<1>5. CASE Retain(t)
  BY <1>0, <1>2, <1>5 DEF Retain, Calls
<1>6. CASE RealLoad(t)
  <2>1. value[c.loc] \in Objects \cup {Nil}
    BY <1>0 DEF CallsInv, TypeOK
  <2> QED
    BY <1>2, <1>6, <2>1 DEF RealLoad
<1> QED
  BY <1>4, <1>5, <1>6

\* The ends of the calls.
LEMMA EndCalls ==
  ASSUME CallsInv, NEW t \in Threads,
         Write(t) \/ Record(t) \/ End(t) \/ Unregister(t) \/ Blank(t)
  PROVE  CallsInv'
<1> DEFINE c == call[t]
<1>0. c \in Calls /\ Formed(c)
  BY DEF CallsInv, TypeOK
<1>1. UNCHANGED <<life, strong, exists, sentinel>>
  BY DEF Write, Record, End, Unregister, Blank
<1>2. value' \in [Slots -> Objects \cup {Nil}] /\ given' \in [Slots -> Objects \cup {Nil}]
  BY <1>0 DEF Write, Record, End, Unregister, Blank, CallsInv, TypeOK, Calls
<1>3. reg' \in [Slots -> [obj : Objects \cup {Nil}, owner : Tables]]
  <2>1. reg' = reg \/ Forget(c.loc) \/ Remember(c.loc, c.obj, "objc")
    BY DEF Write, Record, End, Unregister, Blank
  <2> QED
    BY <1>0, <2>1, RegistryTyped DEF CallsInv, TypeOK, Calls, Tables
<1>4. \E d \in Calls : call' = [call EXCEPT ![t] = d] /\ Passes(c, d)
  <2>1. CASE Write(t) \/ Record(t)
    BY <2>1, Returned DEF Write, Record, At
  <2>2. CASE Unregister(t) \/ Blank(t)
    BY <2>2, IdlePasses DEF Unregister, Blank
  <2>3. CASE End(t)
    <3>1. PICK at \in {"unregister", "blank"} : call' = [call EXCEPT ![t] = [c EXCEPT !.at = at]]
      BY <2>3 DEF End, Goto
    <3> DEFINE d == [c EXCEPT !.at = at]
    <3>2. /\ d \in Calls /\ d.at = at /\ d.loc = c.loc /\ d.from = c.from /\ d.then = c.then
          /\ d.obj = c.obj
      BY <1>0 DEF Calls, Points, Ending
    <3>3. Stage(c) = "end" /\ Stage(d) = at /\ c.at = "end"
      BY <2>3, <3>2 DEF End, At, Stage, Dying
    <3>4. Formed(d)
      BY <1>0, <3>2, <3>3 DEF Formed, Loading, Storing, Ours, Theirs, Dying, Ending
    <3>5. Held(d) = Held(c) /\ Leaving(d) = Leaving(c)
      BY <3>2, <3>3 DEF Held, Leaving, Ending
    <3> QED
      BY <3>1, <3>2, <3>4, <3>5 DEF Passes
  <2> QED
    BY <2>1, <2>2, <2>3
<1>5. TypeOK'
  BY <1>1, <1>2, <1>3, <1>4 DEF CallsInv, TypeOK
<1> QED
  BY <1>1, <1>4, <1>5, CallPasses

\* The lookup of objc's functions.
LEMMA BindCalls ==
  ASSUME CallsInv, NEW t \in Threads, Bind(t)
  PROVE  CallsInv'
<1> DEFINE c == call[t]
<1>0. c \in Calls /\ Formed(c) /\ c.at = "bind"
  BY DEF CallsInv, TypeOK, Bind, At
<1>1. UNCHANGED <<life, strong, exists, value, reg, given, sentinel>>
  BY DEF Bind, tables
<1>2. CASE call' = [call EXCEPT ![t] = [c EXCEPT !.at = c.next]]
  <2> DEFINE d == [c EXCEPT !.at = c.next]
  <2>1. c.next \in {"look", "init", "read", "end"} /\ Stage(c) = c.next
    BY <1>0 DEF Formed, Stage
  <2>2. /\ d \in Calls /\ d.at = c.next /\ d.loc = c.loc /\ d.from = c.from /\ d.then = c.then
        /\ d.obj = c.obj
    BY <1>0, <2>1 DEF Calls, Points, Storing, Theirs, Loading, Ending
  <2>3. Stage(d) = c.next
    BY <2>1, <2>2 DEF Stage, Dying
  <2>4. c.then \notin {"copied", "moved"}
    BY <1>0 DEF Formed, Storing, Ours, Theirs
  <2>5. Formed(d)
    BY <1>0, <2>1, <2>2, <2>3, <2>4 DEF Formed, Ours, Dying
  <2>6. Held(d) = Held(c) /\ Leaving(d) = Leaving(c)
    BY <2>1, <2>2, <2>3 DEF Held, Leaving
  <2>7. TypeOK'
    BY <1>1, <1>2, <2>2 DEF CallsInv, TypeOK
  <2> QED
    BY <1>1, <1>2, <2>2, <2>5, <2>6, <2>7, CallPasses DEF Passes
<1>3. CASE call' = [call EXCEPT ![t] = [c EXCEPT !.left = Tail(c.left)]] /\ c.left # <<>>
  <2> DEFINE d == [c EXCEPT !.left = Tail(c.left)]
  <2>1. Tail(c.left) \in Seq({"store", "init", "load", "destroy"})
    BY <1>0, <1>3 DEF Calls
  <2>2. /\ d \in Calls /\ d.at = c.at /\ d.loc = c.loc /\ d.from = c.from /\ d.then = c.then
        /\ d.obj = c.obj /\ d.next = c.next
    BY <1>0, <2>1 DEF Calls
  <2>3. Formed(d) /\ Held(d) = Held(c) /\ Leaving(d) = Leaving(c)
    BY <1>0, <2>2 DEF Formed, Stage, Held, Leaving
  <2>4. TypeOK'
    BY <1>1, <1>3, <2>2 DEF CallsInv, TypeOK
  <2> QED
    BY <1>1, <1>3, <2>2, <2>3, <2>4, CallPasses DEF Passes
<1> QED
  BY <1>2, <1>3 DEF Bind, Goto

\* The last release of an object, and what follows it.
\* What a release makes of a call: nothing, or the end of a move; and before that,
\* if it is the last one, the end of the object.
Dropped(t, d, o) ==
    /\ call' = [call EXCEPT ![t] = d] /\ Passes(call[t], d) /\ Leaving(call[t]) \subseteq Held(d)
    /\ strong' = [strong EXCEPT ![t] = @ \ {o}]
    /\ UNCHANGED <<exists, value, reg, given, sentinel>>
    /\ \/ call[t].at = "idle" /\ o \in strong[t]
       \/ call[t].at = "release" /\ o = call[t].obj
    /\ Stage(d) \in {"idle", "end"} /\ d.then = "none"
    /\ \/ /\ d.at = Stage(d) /\ life' = life
          /\ \E u \in Threads \ {t} : o \in strong[u]
       \/ /\ d.at = "zero" /\ d.obj = o /\ life' = [life EXCEPT ![o] = "dying"]
          /\ \A u \in Threads \ {t} : o \notin strong[u]

LEMMA DropCalls ==
  ASSUME CallsInv, NEW t \in Threads, (\E o \in Objects : Release(t, o)) \/ CopyRelease(t)
  PROVE  \E d \in Calls, o \in Objects : Dropped(t, d, o)
<1> DEFINE c == call[t]
<1>0. c \in Calls /\ Formed(c) /\ c.obj \in Objects \cup {Nil}
  BY DEF CallsInv, TypeOK, Calls
<1>2. ASSUME NEW o \in Objects, NEW after \in Calls, Drops(t, o, after), Passes(c, after),
             Leaving(c) \subseteq Held(after),
             after = Idle \/ \E x \in Slots : after = Ended(x),
             \/ c.at = "idle" /\ o \in strong[t]
             \/ c.at = "release" /\ o = c.obj
      PROVE  \E d \in Calls, p \in Objects : Dropped(t, d, p)
  <2> DEFINE d == [after EXCEPT !.at = "zero", !.obj = o, !.next = after.at]
  <2>1. after.at \in {"idle", "end"} /\ after.then = "none" /\ after.from = Nil
        /\ (after.loc = Nil <=> after.at = "idle")
    <3>1. CASE after = Idle
      BY <3>1 DEF Idle
    <3>2. CASE \E x \in Slots : after = Ended(x)
      <4>1. PICK x \in Slots : after = Ended(x)
        BY <3>2
      <4>2. Ended(x).at = "end" /\ Ended(x).loc = x /\ Ended(x).from = Nil /\ Ended(x).then = "none"
        BY DEF Ended, Idle
      <4> QED
        BY <4>1, <4>2, WeakConstants
    <3> QED
      BY <1>2, <3>1, <3>2
  <2>2. /\ d \in Calls /\ d.at = "zero" /\ d.obj = o /\ d.next = after.at
        /\ d.loc = after.loc /\ d.from = Nil /\ d.then = "none"
    BY <2>1 DEF Calls, Points, Dying
  <2>3. Stage(d) = after.at /\ Stage(after) = after.at
    BY <2>1, <2>2 DEF Stage, Dying
  <2>4. Formed(d)
    BY <2>1, <2>2, <2>3, WeakConstants DEF Formed, Ending, Loading, Storing, Ours, Theirs, Dying
  <2>5. Held(d) = Held(after) /\ Leaving(d) = Leaving(after)
    BY <2>1, <2>2, <2>3 DEF Held, Leaving
  <2>6. Passes(c, d)
    BY <1>2, <2>4, <2>5 DEF Passes
  <2>7. strong' = [strong EXCEPT ![t] = @ \ {o}] /\ UNCHANGED <<exists, value, reg, given, sentinel>>
    BY <1>2 DEF Drops, tables
  <2>8. CASE \E u \in Threads \ {t} : o \in strong[u]
    <3>1. call' = [call EXCEPT ![t] = after] /\ life' = life
      BY <1>2, <2>8 DEF Drops
    <3> QED
      BY <1>2, <2>1, <2>3, <2>7, <2>8, <3>1 DEF Dropped
  <2>9. CASE ~ \E u \in Threads \ {t} : o \in strong[u]
    <3>1. call' = [call EXCEPT ![t] = d] /\ life' = [life EXCEPT ![o] = "dying"]
      BY <1>2, <2>9 DEF Drops
    <3> HIDE DEF d
    <3>2. Dropped(t, d, o)
      BY <1>2, <2>1, <2>2, <2>3, <2>5, <2>6, <2>7, <2>9, <3>1 DEF Dropped
    <3> QED
      BY <2>2, <3>2
  <2> QED
    BY <2>8, <2>9
<1>3. CASE \E o \in Objects : Release(t, o)
  <2>1. PICK o \in Objects : Release(t, o)
    BY <1>3
  <2>2. c.at = "idle" /\ Stage(c) = "idle"
    BY <2>1 DEF Release, At, Stage, Dying
  <2>3. Leaving(c) = {}
    BY <1>0, <2>2 DEF Formed, Leaving, Storing, Ours, Theirs, Loading, Ending
  <2> QED
    BY <1>2, <2>1, <2>2, <2>3, IdlePasses DEF Release
<1>4. CASE CopyRelease(t)
  <2>1. c.at = "release" /\ Stage(c) = "release"
    BY <1>4 DEF CopyRelease, At, Stage, Dying
  <2>2. c.obj \in Objects
    BY <1>0, <2>1 DEF Formed, Dying
  <2>3. c.then = "moved" => c.from \in Slots /\ Leaving(c) = {c.from}
    BY <1>0, <2>1 DEF Formed, Calls, Leaving, Ending
  <2>4. CASE c.then = "moved"
    <3>1. Ended(c.from) \in Calls /\ Passes(c, Ended(c.from)) /\ c.from # Nil
      BY <1>0, <2>3, <2>4, EndedPasses, WeakConstants
    <3>2. Ended(c.from).loc = c.from
      BY DEF Ended, Idle
    <3>3. Leaving(c) \subseteq Held(Ended(c.from))
      BY <2>3, <2>4, <3>1, <3>2 DEF Held
    <3>4. Drops(t, c.obj, Ended(c.from))
      BY <1>4, <2>4 DEF CopyRelease, Ended
    <3> QED
      BY <1>2, <2>1, <2>2, <2>3, <2>4, <3>1, <3>3, <3>4
  <2>5. CASE c.then # "moved"
    <3>1. Leaving(c) = {}
      BY <1>0, <2>1, <2>5 DEF Formed, Leaving, Ending, Loading
    <3>2. Drops(t, c.obj, Idle)
      BY <1>4, <2>5 DEF CopyRelease
    <3> QED
      BY <1>2, <2>1, <2>2, <3>1, <3>2, IdlePasses
  <2> QED
    BY <2>4, <2>5
<1> QED
  BY <1>3, <1>4

LEMMA LifeCalls ==
  ASSUME CallsInv, NEW t \in Threads,
         (\E o \in Objects : Release(t, o)) \/ CopyRelease(t) \/ Zero(t) \/ Dealloc(t)
  PROVE  CallsInv'
<1> DEFINE c == call[t]
<1>0. c \in Calls /\ Formed(c) /\ c.obj \in Objects \cup {Nil}
  BY DEF CallsInv, TypeOK, Calls
<1>1. exists' = exists
  BY DEF Release, CopyRelease, Zero, Dealloc, Drops
<1>4. CASE (\E o \in Objects : Release(t, o)) \/ CopyRelease(t)
  <2>1. PICK d \in Calls, o \in Objects : Dropped(t, d, o)
    BY <1>4, DropCalls
  <2>2. TypeOK'
    BY <2>1 DEF Dropped, CallsInv, TypeOK
  <2> QED
    BY <2>1, <2>2, CallPasses DEF Dropped
<1>5. CASE Zero(t)
  <2> DEFINE d == [c EXCEPT !.at = "free"]
  <2>1. /\ d \in Calls /\ d.at = "free" /\ d.loc = c.loc /\ d.from = c.from /\ d.then = c.then
        /\ d.obj = c.obj /\ d.next = c.next /\ c.at = "zero"
    BY <1>0, <1>5 DEF Calls, Points, Dying, Zero, At
  <2>2. Formed(d) /\ Held(d) = Held(c) /\ Leaving(d) = Leaving(c)
    BY <1>0, <2>1 DEF Formed, Held, Leaving, Stage, Dying, Storing, Ours, Theirs
  <2>3. /\ value' \in [Slots -> Objects \cup {Nil}]
        /\ reg' \in [Slots -> [obj : Objects \cup {Nil}, owner : Tables]]
    <3>1. CASE c.obj \in sentinel
      BY <1>0, <1>5, <3>1, RegistryTyped DEF Zero, CallsInv, Tables
    <3>2. CASE c.obj \notin sentinel
      BY <1>5, <3>2 DEF Zero, CallsInv, TypeOK
    <3> QED
      BY <3>1, <3>2
  <2>4. /\ call' = [call EXCEPT ![t] = d] /\ given' \in [Slots -> Objects \cup {Nil}]
        /\ sentinel' \subseteq Objects /\ UNCHANGED <<life, strong>>
    BY <1>5 DEF Zero, Goto, CallsInv, TypeOK
  <2>5. TypeOK'
    BY <1>1, <2>1, <2>3, <2>4 DEF CallsInv, TypeOK
  <2> QED
    BY <1>1, <2>1, <2>2, <2>4, <2>5, CallPasses DEF Passes
<1>6. CASE Dealloc(t)
  <2> DEFINE d == [c EXCEPT !.at = c.next, !.obj = Nil, !.next = "none"]
  <2>1. c.at = "free" /\ Stage(c) = c.next /\ c.next \in {"idle", "end"}
    BY <1>0, <1>6 DEF Dealloc, At, Formed, Stage, Dying
  <2>2. /\ d \in Calls /\ d.at = c.next /\ d.loc = c.loc /\ d.from = c.from /\ d.then = c.then
        /\ d.obj = Nil
    BY <1>0, <2>1 DEF Calls, Points, Ending
  <2>3. Stage(d) = c.next
    BY <2>1, <2>2 DEF Stage, Dying
  <2>4. c.then \notin {"copied", "moved"}
    BY <1>0, <2>1 DEF Formed, Storing, Ours, Theirs
  <2>5. Formed(d) /\ Held(d) = Held(c) /\ Leaving(d) = Leaving(c)
    BY <1>0, <2>1, <2>2, <2>3, <2>4, WeakConstants
    DEF Formed, Held, Leaving, Dying, Storing, Ours, Theirs
  <2>6. call' = [call EXCEPT ![t] = d]
    BY <1>6 DEF Dealloc
  <2>7. life' \in [Objects -> {"live", "dying", "freed"}] /\ UNCHANGED <<strong, tables>>
    BY <1>6 DEF Dealloc, CallsInv, TypeOK
  <2>8. TypeOK'
    BY <1>1, <2>2, <2>6, <2>7 DEF CallsInv, TypeOK, tables
  <2> QED
    BY <1>1, <2>2, <2>5, <2>6, <2>8, CallPasses DEF Passes
<1> QED
  BY <1>4, <1>5, <1>6

\* A call begins on slots that no other thread is on.
Begins(t) == (\E x \in Slots : \/ \E o \in Objects \cup {Nil} : InitWeak(t, x, o) \/ StoreWeak(t, x, o)
                               \/ LoadWeakRetained(t, x) \/ DestroyWeak(t, x))
             \/ \E x, y \in Slots, moved \in BOOLEAN : x # y /\ CopyWeak(t, x, y, moved)

LEMMA LeavingHeld ==
  ASSUME NEW c \in Calls, Formed(c)
  PROVE  Leaving(c) \subseteq Held(c)
BY DEF Leaving, Held, Formed, Ending, Loading

LEMMA BeginFresh ==
  ASSUME CallsInv, NEW t \in Threads, NEW d \in Calls, At(t, "idle"), TypeOK', Formed(d),
         call' = [call EXCEPT ![t] = d],
         \A x \in Held(d) : ~ Busy(x),
         \A x \in (exists \ exists') \cup (exists' \ exists) : ~ Busy(x),
         Held(d) \ Leaving(d) \subseteq exists', Leaving(d) \cap exists' = {}
  PROVE  CallsInv'
<1>1. call'[t] = d /\ \A u \in Threads \ {t} : call'[u] = call[u]
  BY DEF CallsInv, TypeOK
<1>2. \A u \in Threads : \A x \in Held(call[u]) : Busy(x)
  BY DEF Held, Busy
<1>3. \A u \in Threads : Formed(call'[u])
  BY <1>1 DEF CallsInv
<1>4. Separate'
  BY <1>1, <1>2 DEF CallsInv, Separate
<1>5. Kept'
  <2>1. \A u \in Threads \ {t} : Leaving(call[u]) \subseteq Held(call[u])
    BY LeavingHeld DEF CallsInv, TypeOK
  <2> QED
    BY <1>1, <1>2, <2>1 DEF CallsInv, Kept
<1> QED
  BY <1>3, <1>4, <1>5 DEF CallsInv

\* A call as it begins.
LEMMA CallFields ==
  ASSUME NEW x \in Slots, NEW o \in Objects \cup {Nil},
         NEW next \in {"look", "init", "read", "end"}, next = "init" => o \notin Custom
  PROVE  LET c == Call(x, o, next) IN
         /\ c \in Calls /\ Formed(c) /\ Held(c) = {x} /\ c.then = "none" /\ c.loc = x
         /\ c.from = Nil /\ c.at = "bind" /\ c.obj = o /\ c.next = next /\ c.left = Real
         /\ Leaving(c) = IF next = "end" THEN {x} ELSE {}
<1> DEFINE c == Call(x, o, next)
<1>1. Real \in Seq({"store", "init", "load", "destroy"})
  BY DEF Real
<1>2. c \in Calls
  BY <1>1 DEF Call, Idle, Calls, Points
<1>3. /\ c.at = "bind" /\ c.loc = x /\ c.from = Nil /\ c.then = "none" /\ c.obj = o
      /\ c.next = next /\ c.left = Real
  BY DEF Call, Idle
<1>4. Stage(c) = next
  BY <1>3 DEF Stage
<1> HIDE DEF c
<1>5. Formed(c)
  BY <1>3, <1>4, WeakConstants
  DEF Formed, Storing, Ours, Theirs, Loading, Ending, Dying
<1>6. Held(c) = {x} /\ Leaving(c) = IF next = "end" THEN {x} ELSE {}
  BY <1>3, <1>4, WeakConstants DEF Held, Leaving, Ending
<1> QED
  BY <1>2, <1>3, <1>5, <1>6 DEF c

\* The call of a copy as it begins.
CopyCall(x, y, moved) == [Call(y, Nil, "read") EXCEPT
                              !.then = IF moved THEN "move" ELSE "copy", !.from = x]

LEMMA CopyFields ==
  ASSUME NEW x \in Slots, NEW y \in Slots, x # y, NEW moved \in BOOLEAN
  PROVE  LET c == CopyCall(x, y, moved) IN
         /\ c \in Calls /\ Formed(c) /\ Held(c) = {x, y} /\ c.loc = y
         /\ c.from = x /\ c.at = "bind" /\ c.obj = Nil /\ c.next = "read" /\ c.left = Real
         /\ c.then = IF moved THEN "move" ELSE "copy"
         /\ Leaving(c) = IF moved THEN {y} ELSE {}
<1> DEFINE b == Call(y, Nil, "read")
           then == IF moved THEN "move" ELSE "copy"
           c == [b EXCEPT !.then = then, !.from = x]
<1>1. /\ b \in Calls /\ b.at = "bind" /\ b.loc = y /\ b.obj = Nil /\ b.next = "read"
      /\ b.left = Real
  BY CallFields
<1> HIDE DEF b
<1>2. /\ c \in Calls /\ c.at = "bind" /\ c.loc = y /\ c.from = x /\ c.then = then /\ c.obj = Nil
      /\ c.next = "read" /\ c.left = Real
  BY <1>1 DEF Calls
<1>3. c = CopyCall(x, y, moved)
  BY DEF b, CopyCall
<1> HIDE DEF c
<1>4. Stage(c) = "read"
  BY <1>2 DEF Stage
<1>5. Formed(c)
  BY <1>2, <1>4, WeakConstants
  DEF Formed, Storing, Ours, Theirs, Loading, Ending, Dying
<1>6. Held(c) = {x, y} /\ Leaving(c) = IF moved THEN {y} ELSE {}
  BY <1>2, <1>4, WeakConstants DEF Held, Leaving, Ending
<1> QED
  BY <1>2, <1>3, <1>5, <1>6

LEMMA BeginCalls ==
  ASSUME CallsInv, "share" \notin Uses, NEW t \in Threads, Begins(t)
  PROVE  CallsInv'
<1>1. UNCHANGED <<life, strong, given, sentinel>> /\ At(t, "idle")
  BY DEF Begins, InitWeak, StoreWeak, LoadWeakRetained, DestroyWeak, CopyWeak, OnSlot, Begin, tables
<1>2. ASSUME NEW x \in Slots, NEW o \in Objects \cup {Nil}, InitWeak(t, x, o)
      PROVE  CallsInv'
  <2>1. PICK d \in Calls : /\ call' = [call EXCEPT ![t] = d] /\ Formed(d)
                           /\ Held(d) \subseteq {x} /\ Leaving(d) = {}
    <3>1. CASE o = Nil
      BY <1>2, <3>1, IdlePasses DEF InitWeak, Begin
    <3>2. CASE o # Nil
      <4>1. PICK next \in {"look", "init"} : /\ call' = [call EXCEPT ![t] = Call(x, o, next)]
                                             /\ next = "init" => o \notin Custom
        <5>1. CASE o \in Custom
          BY <1>2, <3>2, <5>1 DEF InitWeak, Begin
        <5>2. CASE o \notin Custom
          BY <1>2, <3>2, <5>2 DEF InitWeak, Begin
        <5> QED
          BY <5>1, <5>2
      <4>2. /\ Call(x, o, next) \in Calls /\ Formed(Call(x, o, next))
            /\ Held(Call(x, o, next)) = {x} /\ Leaving(Call(x, o, next)) = {}
        BY <4>1, CallFields
      <4> QED
        BY <4>1, <4>2
    <3> QED
      BY <3>1, <3>2
  <2>2. /\ exists' = exists \cup {x} /\ ~ Busy(x)
        /\ value' = [value EXCEPT ![x] = Nil] /\ Forget(x)
    BY <1>2 DEF InitWeak
  <2>3. TypeOK'
    BY <1>1, <2>1, <2>2, RegistryTyped DEF CallsInv, TypeOK, Tables
  <2> QED
    BY <1>1, <2>1, <2>2, <2>3, BeginFresh
<1>3. ASSUME NEW x \in Slots, NEW o \in Objects \cup {Nil}, NEW next \in {"look", "read"},
             OnSlot(t, x, Call(x, o, next))
      PROVE  CallsInv'
  <2> DEFINE d == Call(x, o, next)
  <2>1. d \in Calls /\ Formed(d) /\ Held(d) = {x} /\ Leaving(d) = {}
    BY CallFields
  <2>2. /\ x \in exists /\ ~ Busy(x) /\ UNCHANGED <<exists, value, reg>>
        /\ call' = [call EXCEPT ![t] = d]
    BY <1>3 DEF OnSlot, Free, Begin, tables
  <2>3. TypeOK'
    BY <1>1, <2>1, <2>2 DEF CallsInv, TypeOK
  <2> QED
    BY <1>1, <2>1, <2>2, <2>3, BeginFresh
<1>4. ASSUME NEW x \in Slots, DestroyWeak(t, x)
      PROVE  CallsInv'
  <2> DEFINE d == Call(x, Nil, "end")
  <2>1. d \in Calls /\ Formed(d) /\ Held(d) = {x} /\ Leaving(d) = {x}
    BY CallFields
  <2>2. /\ ~ Busy(x) /\ exists' = exists \ {x} /\ UNCHANGED <<value, reg>>
        /\ call' = [call EXCEPT ![t] = d]
    BY <1>4 DEF DestroyWeak, Begin, tables
  <2>3. TypeOK'
    BY <1>1, <2>1, <2>2 DEF CallsInv, TypeOK
  <2> QED
    BY <1>1, <2>1, <2>2, <2>3, BeginFresh
<1>5. ASSUME NEW x \in Slots, NEW y \in Slots, NEW moved \in BOOLEAN, x # y,
             CopyWeak(t, x, y, moved)
      PROVE  CallsInv'
  <2> DEFINE d == CopyCall(x, y, moved)
  <2>1. d \in Calls /\ Formed(d) /\ Held(d) = {x, y} /\ Leaving(d) = IF moved THEN {y} ELSE {}
    BY <1>5, CopyFields
  <2>2. /\ ~ Busy(x) /\ ~ Busy(y) /\ y \in exists /\ UNCHANGED <<value, reg>>
        /\ exists' = (exists \cup {x}) \ (IF moved THEN {y} ELSE {})
        /\ call' = [call EXCEPT ![t] = d]
    BY <1>5 DEF CopyWeak, Free, Begin, tables, CopyCall
  <2>3. TypeOK'
    BY <1>1, <2>1, <2>2 DEF CallsInv, TypeOK
  <2> HIDE DEF d
  <2> QED
    BY <1>1, <1>5, <2>1, <2>2, <2>3, BeginFresh
<1> QED
  BY <1>2, <1>3, <1>4, <1>5 DEF Begins, StoreWeak, LoadWeakRetained

\* The steps, by what they do.
Stores(t) == \/ Look(t) \/ Undo(t) \/ Attach(t) \/ Associate(t) \/ RememberOurs(t)
             \/ Drop(t) \/ Clear(t) \/ RealStore(t)
Loads(t) == Read(t) \/ Retain(t) \/ RealLoad(t)
Finishes(t) == Write(t) \/ Record(t) \/ End(t) \/ Unregister(t) \/ Blank(t)
Lives(t) == (\E o \in Objects : Release(t, o)) \/ CopyRelease(t) \/ Zero(t) \/ Dealloc(t)

LEMMA StepsSplit ==
  ASSUME Next
  PROVE  \E t \in Threads : Begins(t) \/ Bind(t) \/ Stores(t) \/ Loads(t) \/ Finishes(t) \/ Lives(t)
BY DEF Next, Begins, Stores, Loads, Finishes, Lives

LEMMA CallsStep ==
  ASSUME CallsInv, "share" \notin Uses, [Next]_vars
  PROVE  CallsInv'
<1>1. CASE Next
  <2>1. PICK t \in Threads : Begins(t) \/ Bind(t) \/ Stores(t) \/ Loads(t) \/ Finishes(t) \/ Lives(t)
    BY <1>1, StepsSplit
  <2> QED
    BY <2>1, BeginCalls, BindCalls, StoreCalls, LoadCalls, EndCalls, LifeCalls
    DEF Stores, Loads, Finishes, Lives
<1>2. CASE UNCHANGED vars
  BY <1>2 DEF vars, tables, CallsInv, TypeOK, Separate, Kept
<1> QED
  BY <1>1, <1>2

-----------------------------------------------------------------------------
(***************************************************************************)
(* What a slot's word is backed by                                         *)
(***************************************************************************)
Ends(t, o) == call[t].at \in Dying /\ call[t].obj = o
Zeroing(o) == \E t \in Threads : At(t, "zero") /\ call[t].obj = o
Present(o) == life[o] = "live" \/ Zeroing(o)

StrongLive == \A t \in Threads : \A o \in strong[t] : life[o] = "live"

\* What a call stores, its thread has a strong reference to.
Stored ==
    \A t \in Threads :
        Stage(call[t]) \in Storing \cup {"release"} /\ call[t].obj # Nil =>
            call[t].obj \in strong[t]

OneEnd == /\ \A t \in Threads : call[t].at \in Dying => life[call[t].obj] = "dying"
          /\ \A t, u \in Threads : t # u /\ call[t].at \in Dying /\ call[u].at \in Dying =>
                call[t].obj # call[u].obj

\* The sentinel and objc's table have what is live or still to be zeroed.
Sentinels == \A o \in sentinel : o \in Custom /\ Present(o)
OursHaveSentinels == \A x \in Slots : reg[x].owner = "ours" => reg[x].obj \in sentinel
GivenPresent == \A x \in Slots : given[x] # Nil => given[x] \notin Custom /\ Present(given[x])

OneSentinel ==
    \A t \in Threads :
        /\ At(t, "associate") =>
               /\ call[t].obj \notin sentinel
               /\ \A u \in Threads \ {t} : At(u, "associate") => call[u].obj # call[t].obj
        /\ At(t, "remember") => call[t].obj \in sentinel

\* What each step of a call knows of its slot.
Known(t) ==
    LET c == call[t]
        owner == reg[c.loc].owner IN
    /\ c.at = "undo" => owner = "objc"
    /\ c.at = "write" => reg[c.loc] = [obj |-> c.obj, owner |-> "ours"]
    /\ c.at \in {"clear", "store", "record", "unregister", "blank"} \/ Stage(c) = "init" =>
           owner # "ours"
    /\ c.at = "record" => value[c.loc] = c.obj /\ given[c.loc] = c.obj

\* The slots whose word is about to be overwritten, or has not been written yet.
Rewriting == {"attach", "associate", "remember", "write", "clear", "blank"}
Loose(x) == \E t \in Threads : \/ call[t].loc = x /\ call[t].at \in Rewriting
                               \/ call[t].from = x /\ call[t].then \in {"copy", "move"}

Taken(x) == x \in exists \/ \E t \in Threads : x \in Held(call[t])

\* The word of a slot is nothing, or what the slot's table says.
BackedAt(x) ==
    /\ reg[x].owner = "ours" =>
           value[x] \in {Nil, reg[x].obj} \/ \E t \in Threads : At(t, "write") /\ call[t].loc = x
    /\ Taken(x) /\ ~ Loose(x) /\ reg[x].owner # "ours" => value[x] \in {Nil, given[x]}
    /\ ~ Taken(x) => reg[x].owner # "ours"

BackedInv == /\ StrongLive /\ Stored /\ OneEnd /\ Sentinels /\ OursHaveSentinels
             /\ GivenPresent /\ OneSentinel
             /\ (\A t \in Threads : Known(t)) /\ (\A x \in Slots : BackedAt(x))

\* The same of one slot, for the call that may be on it.
LooseFor(c, x) == \/ c.loc = x /\ c.at \in Rewriting
                  \/ c.from = x /\ c.then \in {"copy", "move"}
Word(c, x, there, v, r, g) ==
    /\ r.owner = "ours" => v \in {Nil, r.obj} \/ (c.at = "write" /\ c.loc = x)
    /\ there /\ ~ LooseFor(c, x) /\ r.owner # "ours" => v \in {Nil, g}
    /\ ~ there => r.owner # "ours"

LEMMA InitBacked == Init => BackedInv
<1> SUFFICES ASSUME Init PROVE BackedInv
  OBVIOUS
<1>1. \A t \in Threads : /\ call[t] = Idle /\ Stage(call[t]) = "idle" /\ call[t].at = "idle"
  BY DEF Init, Idle, Stage, Dying
<1>2. \A t \in Threads : Known(t)
  BY <1>1 DEF Known
<1>3. \A x \in Slots : BackedAt(x)
  BY DEF Init, BackedAt, Unknown
<1>4. StrongLive /\ Sentinels /\ OursHaveSentinels /\ GivenPresent
  BY DEF Init, StrongLive, Sentinels, OursHaveSentinels, GivenPresent, Unknown
<1>5. Stored /\ OneEnd /\ OneSentinel
  BY <1>1 DEF Stored, OneEnd, OneSentinel, At, Dying, Storing, Ours, Theirs
<1> QED
  BY <1>2, <1>3, <1>4, <1>5 DEF BackedInv

\* A slot that no other thread is on.
LEMMA WordOf ==
  ASSUME CallsInv, NEW x \in Slots, BackedAt(x), NEW t \in Threads,
         \A u \in Threads \ {t} : x \notin Held(call[u])
  PROVE  Word(call[t], x, x \in exists \/ x \in Held(call[t]), value[x], reg[x], given[x])
<1>1. \A u \in Threads \ {t} : call[u].loc # x /\ call[u].from # x
  BY WeakConstants DEF Held
<1>2. Taken(x) <=> x \in exists \/ x \in Held(call[t])
  BY DEF Taken
<1>3. Loose(x) <=> LooseFor(call[t], x)
  BY <1>1 DEF Loose, LooseFor
<1> QED
  BY <1>1, <1>2, <1>3 DEF BackedAt, Word, At

\* A thread's step on the slots X that no other thread is on.
LEMMA SlotsStep ==
  ASSUME CallsInv, CallsInv', BackedInv, NEW t \in Threads, NEW d \in Calls,
         call' = [call EXCEPT ![t] = d], NEW X \in SUBSET Slots,
         Held(call[t]) \cup Held(d) \subseteq X,
         \A u \in Threads \ {t} : Held(call[u]) \cap X = {},
         \A x \in Slots \ X : /\ value'[x] = value[x] /\ reg'[x] = reg[x] /\ given'[x] = given[x]
                              /\ x \in exists' <=> x \in exists,
         Known(t)',
         \A x \in X : Word(d, x, x \in exists' \/ x \in Held(d), value'[x], reg'[x], given'[x])
  PROVE  (\A u \in Threads : Known(u)') /\ (\A x \in Slots : BackedAt(x)')
<1>1. call'[t] = d /\ \A u \in Threads \ {t} : call'[u] = call[u]
  BY DEF CallsInv, TypeOK
<1>2. ASSUME NEW u \in Threads \ {t} PROVE Known(u)'
  <2>1. Known(u) /\ Formed(call[u]) /\ call[u] \in Calls
    BY DEF BackedInv, CallsInv, TypeOK
  <2>2. CASE call[u].loc = Nil
    <3>1. Stage(call[u]) = "idle"
      BY <2>1, <2>2 DEF Formed
    <3>2. call[u].at \notin {"undo", "write", "clear", "store", "record", "unregister", "blank"}
      BY <3>1 DEF Stage, Dying
    <3> QED
      BY <1>1, <3>1, <3>2 DEF Known
  <2>3. CASE call[u].loc # Nil
    <3>1. call[u].loc \in Slots \ X
      BY <2>1, <2>3 DEF Held, Calls
    <3> QED
      BY <1>1, <2>1, <3>1 DEF Known
  <2> QED
    BY <2>2, <2>3
<1>3. ASSUME NEW x \in Slots \ X PROVE BackedAt(x)'
  <2>1. BackedAt(x)
    BY DEF BackedInv
  <2>2. /\ call[t].loc # x /\ call[t].from # x /\ x \notin Held(call[t])
        /\ d.loc # x /\ d.from # x /\ x \notin Held(d)
    BY WeakConstants DEF Held
  <2>3. Taken(x)' <=> Taken(x)
    BY <1>1, <2>2 DEF Taken
  <2>4. Loose(x)' <=> Loose(x)
    BY <1>1, <2>2 DEF Loose
  <2>5. (\E u \in Threads : At(u, "write") /\ call[u].loc = x) =>
            \E u \in Threads : At(u, "write")' /\ call'[u].loc = x
    BY <1>1, <2>2 DEF At
  <2> QED
    BY <2>1, <2>3, <2>4, <2>5 DEF BackedAt
<1>4. ASSUME NEW x \in X PROVE BackedAt(x)'
  <2>1. \A u \in Threads \ {t} : call'[u].loc # x /\ call'[u].from # x /\ x \notin Held(call'[u])
    BY <1>1, WeakConstants DEF Held
  <2>2. Taken(x)' <=> x \in exists' \/ x \in Held(d)
    BY <1>1, <2>1 DEF Taken
  <2>3. Loose(x)' <=> LooseFor(d, x)
    BY <1>1, <2>1 DEF Loose, LooseFor
  <2>4. Word(d, x, x \in exists' \/ x \in Held(d), value'[x], reg'[x], given'[x])
    OBVIOUS
  <2> QED
    BY <1>1, <2>1, <2>2, <2>3, <2>4 DEF BackedAt, Word, At
<1> QED
  BY <1>1, <1>2, <1>3, <1>4

\* What a step may do to the objects.
LEMMA ObjectsStep ==
  ASSUME CallsInv, BackedInv, NEW t \in Threads, NEW d \in Calls,
         call' = [call EXCEPT ![t] = d], StrongLive', OneEnd',
         \A u \in Threads \ {t} : strong'[u] = strong[u],
         Stage(d) \in Storing \cup {"release"} /\ d.obj # Nil => d.obj \in strong'[t],
         \A o \in Objects : Present(o) => Present(o)',
         sentinel \subseteq sentinel',
         \A o \in sentinel' \ sentinel :
             o \in Custom /\ life'[o] = "live" /\ At(t, "associate") /\ call[t].obj = o,
         d.at = "associate" =>
             /\ d.obj \notin sentinel'
             /\ \A u \in Threads \ {t} : At(u, "associate") => call[u].obj # d.obj,
         d.at = "remember" => d.obj \in sentinel',
         \A x \in Slots : reg'[x].owner = "ours" => reg'[x] = reg[x] \/ reg'[x].obj \in sentinel',
         \A x \in Slots : \/ given'[x] \in {given[x], Nil}
                          \/ given'[x] \notin Custom /\ life'[given'[x]] = "live"
  PROVE  /\ StrongLive' /\ Stored' /\ OneEnd' /\ Sentinels' /\ OursHaveSentinels'
         /\ GivenPresent' /\ OneSentinel'
<1>1. call'[t] = d /\ \A u \in Threads \ {t} : call'[u] = call[u]
  BY DEF CallsInv, TypeOK
<1>2. Stored'
  BY <1>1 DEF BackedInv, Stored
<1>3. Sentinels'
  BY DEF BackedInv, Sentinels, CallsInv, TypeOK, Present
<1>4. OursHaveSentinels'
  BY DEF BackedInv, OursHaveSentinels
<1>5. GivenPresent'
  BY DEF BackedInv, GivenPresent, CallsInv, TypeOK, Present
<1>6. OneSentinel'
  BY <1>1 DEF BackedInv, OneSentinel, At
<1> QED
  BY <1>2, <1>3, <1>4, <1>5, <1>6

\* The threads that are ending an object go on with it.
LEMMA EndsSame ==
  ASSUME OneEnd, life' = life,
         \A u \in Threads : call'[u].at \in Dying => call'[u] = call[u]
  PROVE  OneEnd'
BY DEF OneEnd

\* A store's step, on its own slot.
StoreEffect(t, at) ==
    LET c == call[t]
        x == c.loc
        owner == reg'[x].owner
    IN
    /\ at \in Storing /\ c.at \in Storing
    /\ call' = [call EXCEPT ![t] = [c EXCEPT !.at = at]]
    /\ UNCHANGED <<life, strong, exists>>
    /\ \A y \in Slots \ {x} : value'[y] = value[y] /\ reg'[y] = reg[y] /\ given'[y] = given[y]
    /\ sentinel \subseteq sentinel'
    /\ \A o \in sentinel' \ sentinel : o \in Custom /\ At(t, "associate") /\ c.obj = o
    /\ at = "associate" =>
           /\ c.obj \notin sentinel'
           /\ \A u \in Threads \ {t} : At(u, "associate") => call[u].obj # c.obj
    /\ at = "remember" => c.obj \in sentinel'
    /\ owner = "ours" => /\ reg'[x] = reg[x] \/ reg'[x].obj \in sentinel'
                         /\ value'[x] \in {Nil, reg'[x].obj} \/ at = "write"
    /\ given'[x] \in {given[x], Nil} \/ (given'[x] = c.obj /\ c.obj \notin Custom)
    /\ at \notin Rewriting /\ owner # "ours" => value'[x] \in {Nil, given'[x]}
    /\ at = "undo" => owner = "objc"
    /\ at = "write" => reg'[x] = [obj |-> c.obj, owner |-> "ours"]
    /\ at \in {"clear", "store", "init", "record"} => owner # "ours"
    /\ at = "record" => value'[x] = c.obj /\ given'[x] = c.obj

LEMMA StoreStep ==
  ASSUME CallsInv, CallsInv', BackedInv, NEW t \in Threads, NEW at, StoreEffect(t, at)
  PROVE  BackedInv'
<1> USE DEF StoreEffect
<1> DEFINE x == call[t].loc
<1> DEFINE c == call[t]
           d == [c EXCEPT !.at = at]
<1>1. c \in Calls /\ Formed(c) /\ Stage(c) = c.at
  BY StoringStages DEF CallsInv, TypeOK, Stage
<1>2. /\ d \in Calls /\ d.at = at /\ d.loc = c.loc /\ d.from = c.from /\ d.then = c.then
      /\ d.obj = c.obj
  BY <1>1 DEF Calls, Points
<1>3. Stage(d) = at /\ Held(d) = Held(c)
  BY <1>2, StoringStages DEF Stage, Held
<1>4. c.then \notin {"copy", "move"} /\ x \in Slots /\ x # Nil /\ x \in Held(c)
  BY <1>1, StoringStages, WeakConstants DEF Formed, Calls, Held
<1>5. call'[t] = d /\ \A u \in Threads \ {t} : call'[u] = call[u]
  BY <1>2 DEF CallsInv, TypeOK
<1>6. \A u \in Threads \ {t} : Held(call[u]) \cap Held(c) = {}
  BY DEF CallsInv, Separate
<1>7. Held(c) \subseteq Slots
  BY <1>1 DEF Held, Calls
<1> HIDE DEF d
<1>8. Known(t)'
  <2>1. at \notin {"unregister", "blank"}
    BY StoringStages DEF Ending
  <2> QED
    BY <1>2, <1>3, <1>5, <2>1 DEF Known
<1>9. \A y \in Held(c) :
         Word(d, y, y \in exists' \/ y \in Held(d), value'[y], reg'[y], given'[y])
  <2>1. SUFFICES ASSUME NEW y \in Held(c)
        PROVE  Word(d, y, TRUE, value'[y], reg'[y], given'[y])
    BY <1>3 DEF Word
  <2>2. Word(c, y, TRUE, value[y], reg[y], given[y])
    <3>1. Word(c, y, y \in exists \/ y \in Held(c), value[y], reg[y], given[y])
      BY <1>6, <1>7, <2>1, WordOf DEF BackedInv
    <3> QED
      BY <2>1, <3>1 DEF Word
  <2>3. CASE y = x
    BY <1>2, <1>4, <2>3 DEF Word, LooseFor
  <2>4. CASE y # x
    BY <1>2, <1>4, <1>7, <2>2, <2>4 DEF Word, LooseFor
  <2> QED
    BY <2>3, <2>4
<1>10. (\A u \in Threads : Known(u)') /\ (\A y \in Slots : BackedAt(y)')
  <2>1. \A y \in Slots \ Held(c) :
            /\ value'[y] = value[y] /\ reg'[y] = reg[y] /\ given'[y] = given[y]
            /\ y \in exists' <=> y \in exists
    BY <1>4
  <2>2. call' = [call EXCEPT ![t] = d]
    BY DEF d
  <2> QED
    BY <1>2, <1>3, <1>6, <1>7, <1>8, <1>9, <2>1, <2>2, SlotsStep
<1>11. c.obj # Nil => c.obj \in strong[t] /\ life[c.obj] = "live"
  BY <1>1 DEF BackedInv, Stored, StrongLive
<1>12. StrongLive' /\ OneEnd' /\ \A o \in Objects : Present(o) => Present(o)'
  <2>1. StrongLive'
    BY DEF BackedInv, StrongLive
  <2>2. \A u \in Threads : call'[u].at \in Dying => call'[u] = call[u]
    BY <1>2, <1>5, StoringStages
  <2>3. \A u \in Threads : call[u].at \in Dying => call'[u] = call[u]
    BY <1>5, StoringStages
  <2>4. OneEnd'
    BY <2>2, EndsSame DEF BackedInv
  <2>5. \A o \in Objects : Present(o) => Present(o)'
    BY <2>3 DEF Present, Zeroing, At, Dying
  <2> QED
    BY <2>1, <2>4, <2>5
<1>13. \A y \in Slots : reg'[y].owner = "ours" => reg'[y] = reg[y] \/ reg'[y].obj \in sentinel'
  OBVIOUS
<1>14. \A y \in Slots : \/ given'[y] \in {given[y], Nil}
                        \/ given'[y] \notin Custom /\ life'[given'[y]] = "live"
  BY <1>11
<1>15. \A o \in sentinel' \ sentinel :
          o \in Custom /\ life'[o] = "live" /\ At(t, "associate") /\ call[t].obj = o
  BY <1>11, WeakConstants
<1>16. call' = [call EXCEPT ![t] = d] /\ (d.obj # Nil => d.obj \in strong'[t])
  BY <1>2, <1>11 DEF d
<1>18. /\ \A u \in Threads \ {t} : strong'[u] = strong[u]
       /\ d.at = "associate" =>
             /\ d.obj \notin sentinel'
             /\ \A u \in Threads \ {t} : At(u, "associate") => call[u].obj # d.obj
       /\ d.at = "remember" => d.obj \in sentinel'
  BY <1>2
<1>17. /\ StrongLive' /\ Stored' /\ OneEnd' /\ Sentinels' /\ OursHaveSentinels'
       /\ GivenPresent' /\ OneSentinel'
  BY <1>2, <1>12, <1>13, <1>14, <1>15, <1>16, <1>18, ObjectsStep, ZenonT(60)
<1> QED
  BY <1>10, <1>17 DEF BackedInv

LEMMA StoreBacked ==
  ASSUME Uses \subseteq {"bind"}, CallsInv, CallsInv', BackedInv, NEW t \in Threads, Stores(t)
  PROVE  BackedInv'
<1> DEFINE c == call[t]
           x == c.loc
<1>1. c \in Calls /\ Formed(c) /\ c.at \in Storing /\ x \in Slots /\ Stage(c) = c.at
  <2>1. c \in Calls /\ Formed(c) /\ c.at \in Storing
    BY DEF CallsInv, TypeOK, Stores, Look, Undo, Attach, Associate, RememberOurs, Drop, Clear,
       RealStore, At, Storing, Ours, Theirs
  <2> QED
    BY <2>1, StoringStages DEF Formed, Calls, Stage
<1>2. Known(t)
  BY DEF BackedInv
<1>3. Word(c, x, TRUE, value[x], reg[x], given[x])
  <2>1. x \in Held(c)
    BY <1>1, WeakConstants DEF Held
  <2>2. \A u \in Threads \ {t} : x \notin Held(call[u])
    BY <2>1 DEF CallsInv, Separate
  <2>3. Word(c, x, x \in exists \/ x \in Held(c), value[x], reg[x], given[x])
    BY <1>1, <2>2, WordOf DEF BackedInv
  <2> QED
    BY <2>1, <2>3 DEF Word
<1>4. c.then \notin {"copy", "move"}
  BY <1>1, StoringStages DEF Formed
<1>5. c.at \notin Rewriting => ~ LooseFor(c, x)
  BY <1>1, <1>4, WeakConstants DEF LooseFor
<1>6. CASE Look(t)
  <2>1. /\ At(t, "look") /\ UNCHANGED <<life, strong, exists, value, reg, given, sentinel>>
    BY <1>6 DEF Look, tables
  <2>2. PICK at \in {"drop", "undo", "attach"} :
          /\ call' = [call EXCEPT ![t] = [c EXCEPT !.at = at]]
          /\ at = "undo" => reg[x].owner = "objc"
    BY <1>6 DEF Look, Goto
  <2>3. at \in Storing
    BY DEF Storing, Ours, Theirs
  <2>4. reg[x].owner = "ours" => value[x] \in {Nil, reg[x].obj}
    BY <1>3, <2>1 DEF Word, At
  <2>5. reg[x].owner # "ours" => value[x] \in {Nil, given[x]}
    BY <1>3, <1>5, <2>1 DEF Word, At, Rewriting
  <2>9. StoreEffect(t, at)
    BY <1>1, <2>1, <2>2, <2>3, <2>4, <2>5 DEF StoreEffect
  <2> QED
    BY <2>9, StoreStep
<1>7. CASE Undo(t)
  <2>1. /\ At(t, "undo") /\ UNCHANGED <<life, strong, exists, value, reg, sentinel>>
        /\ call' = [call EXCEPT ![t] = [c EXCEPT !.at = "attach"]]
        /\ given' = [given EXCEPT ![x] = Nil] /\ given'[x] = Nil
        /\ \A y \in Slots \ {x} : given'[y] = given[y]
    BY <1>1, <1>7 DEF Undo, Goto, CallsInv, TypeOK
  <2>2. "attach" \in Storing /\ "attach" \in Rewriting
    BY DEF Storing, Ours, Rewriting
  <2>3. reg[x].owner = "objc"
    BY <1>2, <2>1 DEF Known, At
  <2>9. StoreEffect(t, "attach")
    BY <1>1, <2>1, <2>2, <2>3 DEF StoreEffect
  <2> QED
    BY <2>9, StoreStep
<1>8. CASE Attach(t)
  <2>1. /\ At(t, "attach") /\ UNCHANGED <<life, strong, exists, value, reg, given, sentinel>>
    BY <1>8 DEF Attach, tables
  <2>2. PICK at \in {"remember", "associate"} :
          /\ call' = [call EXCEPT ![t] = [c EXCEPT !.at = at]]
          /\ at = "remember" => c.obj \in sentinel
          /\ at = "associate" => c.obj \notin sentinel
    BY <1>8 DEF Attach, Goto
  <2>3. at \in Storing /\ at \in Rewriting
    BY DEF Storing, Ours, Rewriting
  <2>4. \A u \in Threads : At(u, "associate") => call[u].obj # c.obj
    BY <1>8 DEF Attach, Attaching
  <2>5. reg[x].owner = "ours" => value[x] \in {Nil, reg[x].obj}
    BY <1>3, <2>1 DEF Word, At
  <2>9. StoreEffect(t, at)
    BY <1>1, <2>1, <2>2, <2>3, <2>4, <2>5 DEF StoreEffect
  <2> QED
    BY <2>9, StoreStep
<1>9. CASE Associate(t)
  <2>1. /\ At(t, "associate") /\ c.obj \notin sentinel
    BY <1>9 DEF Associate, BackedInv, OneSentinel
  <2>2. /\ UNCHANGED <<life, strong, exists, value, reg, given>>
        /\ sentinel' = sentinel \cup {c.obj}
        /\ call' = [call EXCEPT ![t] = [c EXCEPT !.at = "remember"]]
    BY <1>9, <2>1 DEF Associate, Goto
  <2>3. "remember" \in Storing /\ "remember" \in Rewriting
    BY DEF Storing, Ours, Rewriting
  <2>4. c.obj \in Custom
    BY <1>1, <2>1 DEF Formed, Ours, At
  <2>5. reg[x].owner = "ours" => value[x] \in {Nil, reg[x].obj}
    BY <1>3, <2>1 DEF Word, At
  <2>9. StoreEffect(t, "remember")
    BY <1>1, <2>1, <2>2, <2>3, <2>4, <2>5 DEF StoreEffect
  <2> QED
    BY <2>9, StoreStep
<1>10. CASE RememberOurs(t)
  <2>1. /\ At(t, "remember") /\ UNCHANGED <<life, strong, exists, value, given, sentinel>>
        /\ call' = [call EXCEPT ![t] = [c EXCEPT !.at = "write"]]
    BY <1>10 DEF RememberOurs, Goto
  <2>2. reg' = [reg EXCEPT ![x] = [obj |-> c.obj, owner |-> "ours"]]
    BY <1>10 DEF RememberOurs, Remember
  <2>3. /\ reg'[x] = [obj |-> c.obj, owner |-> "ours"]
        /\ \A y \in Slots \ {x} : reg'[y] = reg[y]
    BY <1>1, <2>2 DEF CallsInv, TypeOK
  <2>4. "write" \in Storing /\ "write" \in Rewriting
    BY DEF Storing, Ours, Rewriting
  <2>5. c.obj \in sentinel
    BY <2>1 DEF BackedInv, OneSentinel
  <2>9. StoreEffect(t, "write")
    BY <1>1, <2>1, <2>3, <2>4, <2>5 DEF StoreEffect
  <2> QED
    BY <2>9, StoreStep
<1>11. CASE Drop(t)
  <2>1. At(t, "drop") /\ UNCHANGED <<life, strong, exists, value, given, sentinel>>
    BY <1>11 DEF Drop
  <2>2. CASE reg[x].owner = "ours"
    <3>1. /\ reg' = [reg EXCEPT ![x] = Unknown]
          /\ call' = [call EXCEPT ![t] = [c EXCEPT !.at = "clear"]]
      BY <1>11, <2>2 DEF Drop, Forget, Goto
    <3>2. reg'[x].owner = "none" /\ \A y \in Slots \ {x} : reg'[y] = reg[y]
      BY <1>1, <3>1 DEF CallsInv, TypeOK, Unknown
    <3>3. "clear" \in Storing /\ "clear" \in Rewriting
      BY DEF Storing, Theirs, Rewriting
    <3>9. StoreEffect(t, "clear")
      BY <1>1, <2>1, <3>1, <3>2, <3>3 DEF StoreEffect
    <3> QED
      BY <3>9, StoreStep
  <2>3. CASE reg[x].owner # "ours"
    <3>1. reg' = reg /\ call' = [call EXCEPT ![t] = [c EXCEPT !.at = "store"]]
      BY <1>11, <2>3 DEF Drop, Goto
    <3>2. value[x] \in {Nil, given[x]}
      BY <1>3, <1>5, <2>1, <2>3 DEF Word, At, Rewriting
    <3>3. "store" \in Storing
      BY DEF Storing, Theirs
    <3>9. StoreEffect(t, "store")
      BY <1>1, <2>1, <2>3, <3>1, <3>2, <3>3 DEF StoreEffect
    <3> QED
      BY <3>9, StoreStep
  <2> QED
    BY <2>2, <2>3
<1>12. CASE Clear(t)
  <2>1. /\ At(t, "clear") /\ UNCHANGED <<life, strong, exists, reg, given, sentinel>>
        /\ call' = [call EXCEPT ![t] = [c EXCEPT !.at = "store"]]
        /\ value'[x] = Nil /\ \A y \in Slots \ {x} : value'[y] = value[y]
    BY <1>1, <1>12 DEF Clear, Goto, CallsInv, TypeOK
  <2>2. reg[x].owner # "ours"
    BY <1>2, <2>1 DEF Known, At
  <2>3. "store" \in Storing
    BY DEF Storing, Theirs
  <2>9. StoreEffect(t, "store")
    BY <1>1, <2>1, <2>2, <2>3 DEF StoreEffect
  <2> QED
    BY <2>9, StoreStep
<1>13. CASE RealStore(t)
  <2>1. c.at \in {"store", "init"} /\ UNCHANGED <<life, strong, exists, reg, sentinel>>
    BY <1>13 DEF RealStore
  <2>2. reg[x].owner # "ours"
    BY <1>1, <1>2, <2>1 DEF Known
  <2>3. CASE c.at \in bound
    <3>1. /\ call' = [call EXCEPT ![t] = [c EXCEPT !.at = "record"]]
          /\ value'[x] = c.obj /\ \A y \in Slots \ {x} : value'[y] = value[y]
          /\ given'[x] = c.obj /\ \A y \in Slots \ {x} : given'[y] = given[y]
      BY <1>1, <1>13, <2>3 DEF RealStore, Goto, CallsInv, TypeOK
    <3>2. c.obj \notin Custom
      BY <1>1, <2>1 DEF Formed, Theirs
    <3>3. "record" \in Storing
      BY DEF Storing, Theirs
    <3>9. StoreEffect(t, "record")
      BY <1>1, <2>1, <2>2, <3>1, <3>2, <3>3 DEF StoreEffect
    <3> QED
      BY <3>9, StoreStep
  <2>4. CASE c.at \notin bound
    <3>1. call' = [call EXCEPT ![t] = [c EXCEPT !.at = "look"]] /\ UNCHANGED <<value, given>>
      BY <1>13, <2>4 DEF RealStore, Goto
    <3>2. value[x] \in {Nil, given[x]}
      BY <1>3, <1>5, <2>1, <2>2 DEF Word, Rewriting
    <3>3. "look" \in Storing
      BY DEF Storing
    <3>9. StoreEffect(t, "look")
      BY <1>1, <2>1, <2>2, <3>1, <3>2, <3>3 DEF StoreEffect
    <3> QED
      BY <3>9, StoreStep
  <2> QED
    BY <2>3, <2>4
<1> QED
  BY <1>6, <1>7, <1>8, <1>9, <1>10, <1>11, <1>12, <1>13 DEF Stores

\* A step of a call on the slots X, and on no object but those it retains.
CallEffect(t, d, X) ==
    /\ call' = [call EXCEPT ![t] = d] /\ d \in Calls /\ X \subseteq Slots
    /\ Held(call[t]) \cup Held(d) \subseteq X
    /\ \A u \in Threads \ {t} : Held(call[u]) \cap X = {} /\ strong'[u] = strong[u]
    /\ UNCHANGED <<life, sentinel>>
    /\ \A x \in Slots \ X : /\ value'[x] = value[x] /\ reg'[x] = reg[x] /\ given'[x] = given[x]
                            /\ x \in exists' <=> x \in exists
    /\ call[t].at \notin Dying /\ d.at \notin Dying \cup {"associate", "remember", "undo", "write", "record"}
    /\ \A o \in strong'[t] : life[o] = "live"
    /\ Stage(d) \in Storing \cup {"release"} /\ d.obj # Nil => d.obj \in strong'[t]
    /\ \A x \in Slots : /\ reg'[x].owner = "ours" => reg'[x] = reg[x]
                        /\ given'[x] \in {given[x], Nil}
    /\ d.at \in {"clear", "store", "unregister", "blank"} \/ Stage(d) = "init" =>
           reg'[d.loc].owner # "ours"
    /\ \A x \in X : Word(d, x, x \in exists' \/ x \in Held(d), value'[x], reg'[x], given'[x])

LEMMA CallStep ==
  ASSUME CallsInv, CallsInv', BackedInv, NEW t \in Threads, NEW d, NEW X, CallEffect(t, d, X)
  PROVE  BackedInv'
<1> USE DEF CallEffect
<1>1. d \in Calls /\ X \in SUBSET Slots
  OBVIOUS
<1>2. call'[t] = d /\ \A u \in Threads \ {t} : call'[u] = call[u]
  BY DEF CallsInv, TypeOK
<1>3. Known(t)'
  BY <1>2 DEF Known
<1>4. (\A u \in Threads : Known(u)') /\ (\A x \in Slots : BackedAt(x)')
  BY <1>1, <1>3, SlotsStep
<1>5. StrongLive'
  BY DEF BackedInv, StrongLive
<1>6. OneEnd'
  <2>1. \A u \in Threads : call'[u].at \in Dying => call'[u] = call[u]
    BY <1>2
  <2> QED
    BY <2>1, EndsSame DEF BackedInv
<1>7. \A o \in Objects : Present(o) => Present(o)'
  <2>1. \A u \in Threads : call[u].at \in Dying => call'[u] = call[u]
    BY <1>2
  <2> QED
    BY <2>1 DEF Present, Zeroing, At, Dying
<1>8. /\ StrongLive' /\ Stored' /\ OneEnd' /\ Sentinels' /\ OursHaveSentinels'
      /\ GivenPresent' /\ OneSentinel'
  BY <1>1, <1>5, <1>6, <1>7, ObjectsStep
<1> QED
  BY <1>4, <1>8 DEF BackedInv

\* The slots of a call, before its step.
LEMMA HeldWords ==
  ASSUME CallsInv, BackedInv, NEW t \in Threads
  PROVE  /\ call[t] \in Calls /\ Formed(call[t]) /\ Held(call[t]) \subseteq Slots
         /\ Leaving(call[t]) \subseteq Held(call[t])
         /\ \A u \in Threads \ {t} : Held(call[u]) \cap Held(call[t]) = {}
         /\ \A x \in Held(call[t]) :
               /\ Word(call[t], x, TRUE, value[x], reg[x], given[x])
               /\ x \in exists <=> x \notin Leaving(call[t])
<1> DEFINE c == call[t]
<1>1. c \in Calls /\ Formed(c)
  BY DEF CallsInv, TypeOK
<1>2. Held(c) \subseteq Slots /\ \A u \in Threads \ {t} : Held(call[u]) \cap Held(c) = {}
  BY <1>1 DEF Held, Calls, CallsInv, Separate
<1>3. ASSUME NEW x \in Held(c) PROVE Word(c, x, TRUE, value[x], reg[x], given[x])
  <2>1. Word(c, x, x \in exists \/ x \in Held(c), value[x], reg[x], given[x])
    BY <1>2, <1>3, WordOf DEF BackedInv
  <2> QED
    BY <1>3, <2>1 DEF Word
<1>4. \A x \in Held(c) : x \in exists <=> x \notin Leaving(c)
  BY DEF CallsInv, Kept
<1> QED
  BY <1>1, <1>2, <1>3, <1>4, LeavingHeld

LEMMA BindBacked ==
  ASSUME CallsInv, CallsInv', BackedInv, NEW t \in Threads, Bind(t)
  PROVE  BackedInv'
<1> DEFINE c == call[t]
<1>1. /\ c \in Calls /\ Formed(c) /\ Held(c) \subseteq Slots /\ c.at = "bind" /\ Known(t)
      /\ \A u \in Threads \ {t} : Held(call[u]) \cap Held(c) = {}
      /\ \A x \in Held(c) : Word(c, x, TRUE, value[x], reg[x], given[x])
  BY HeldWords DEF Bind, At, BackedInv
<1>2. /\ c.next \in {"look", "init", "read", "end"} /\ Stage(c) = c.next
      /\ UNCHANGED <<life, strong, exists, value, reg, given, sentinel>>
  BY <1>1 DEF Formed, Stage, Bind, tables
<1>3. ASSUME NEW d \in Calls, call' = [call EXCEPT ![t] = d], Stage(d) = Stage(c), d.loc = c.loc,
             d.from = c.from, d.then = c.then, d.obj = c.obj,
             d.at = "bind" \/ d.at = c.next
      PROVE  BackedInv'
  <2>1. Held(d) = Held(c)
    BY <1>3 DEF Held
  <2>2. d.at \notin Rewriting \cup Dying \cup {"associate", "remember", "undo", "write", "record",
                                         "clear", "store", "unregister", "blank"}
    BY <1>2, <1>3 DEF Dying, Rewriting
  <2>3. \A x \in Held(c) : Word(d, x, x \in exists' \/ x \in Held(d), value'[x], reg'[x], given'[x])
    <3>1. SUFFICES ASSUME NEW x \in Held(c) PROVE Word(d, x, TRUE, value[x], reg[x], given[x])
      BY <1>2, <2>1 DEF Word
    <3>2. LooseFor(c, x) <=> LooseFor(d, x)
      BY <1>1, <1>3, <2>2 DEF LooseFor, Rewriting
    <3> QED
      BY <1>1, <1>3, <2>2, <3>1, <3>2 DEF Word
  <2>4. Stage(c) = "init" => reg[c.loc].owner # "ours"
    BY <1>1 DEF Known
  <2>5. Stage(c) \in Storing \cup {"release"} /\ c.obj # Nil => c.obj \in strong[t]
    BY DEF BackedInv, Stored
  <2>6. \A o \in strong[t] : life[o] = "live"
    BY DEF BackedInv, StrongLive
  <2>7. c.at \notin Dying
    BY <1>1 DEF Dying
  <2>8. CallEffect(t, d, Held(c))
    BY <1>1, <1>2, <1>3, <2>1, <2>2, <2>3, <2>4, <2>5, <2>6, <2>7 DEF CallEffect
  <2> QED
    BY <2>8, CallStep
<1>4. CASE call' = [call EXCEPT ![t] = [c EXCEPT !.at = c.next]]
  <2> DEFINE d == [c EXCEPT !.at = c.next]
  <2>1. /\ d \in Calls /\ d.at = c.next /\ d.loc = c.loc /\ d.from = c.from /\ d.then = c.then
        /\ d.obj = c.obj
    BY <1>1, <1>2 DEF Calls, Points, Storing, Theirs, Loading, Ending
  <2>2. Stage(d) = Stage(c)
    BY <1>2, <2>1 DEF Stage, Dying
  <2> QED
    BY <1>3, <1>4, <2>1, <2>2
<1>5. CASE call' = [call EXCEPT ![t] = [c EXCEPT !.left = Tail(c.left)]] /\ c.left # <<>>
  <2> DEFINE d == [c EXCEPT !.left = Tail(c.left)]
  <2>1. Tail(c.left) \in Seq({"store", "init", "load", "destroy"})
    BY <1>1, <1>5 DEF Calls
  <2>2. /\ d \in Calls /\ d.at = "bind" /\ d.loc = c.loc /\ d.from = c.from /\ d.then = c.then
        /\ d.obj = c.obj /\ d.next = c.next
    BY <1>1, <2>1 DEF Calls
  <2>3. Stage(d) = Stage(c)
    BY <1>1, <2>2 DEF Stage, Dying
  <2> QED
    BY <1>3, <1>5, <2>2, <2>3
<1> QED
  BY <1>4, <1>5 DEF Bind, Goto

LEMMA LoadBacked ==
  ASSUME Uses \subseteq {"bind"}, CallsInv, CallsInv', BackedInv, NEW t \in Threads, Loads(t)
  PROVE  BackedInv'
<1> DEFINE c == call[t]
<1>1. /\ c \in Calls /\ Formed(c) /\ Held(c) \subseteq Slots /\ Known(t)
      /\ c.at \in Loading /\ Stage(c) = c.at
      /\ \A u \in Threads \ {t} : Held(call[u]) \cap Held(c) = {}
      /\ \A x \in Held(c) : /\ Word(c, x, TRUE, value[x], reg[x], given[x])
                            /\ x \in exists <=> x \notin Leaving(c)
  BY HeldWords DEF Loads, Read, Retain, RealLoad, At, BackedInv, Loading, Stage, Dying
<1>2. /\ c.loc \in Slots /\ c.loc \in Held(c) /\ c.then \in {"none", "copy", "move"}
      /\ c.from # c.loc /\ (c.then # "none" => c.from \in Held(c))
  BY <1>1, WeakConstants DEF Formed, Held, Calls, Loading, Storing, Ours, Theirs
<1>3. UNCHANGED <<life, exists, reg, given, sentinel>>
  BY DEF Loads, Read, Retain, RealLoad
<1>4. c.at \notin Dying \cup Rewriting
  BY <1>1 DEF Loading, Dying, Rewriting
<1>5. ASSUME NEW o \in Objects \cup {Nil}, Loaded(t, o), o # Nil => life[o] = "live"
      PROVE  BackedInv'
  <2>1. PICK d \in Calls :
            /\ call' = [call EXCEPT ![t] = d] /\ Passes(c, d)
            /\ \/ c.then # "move" /\ d = Idle
               \/ c.then # "none" /\ o # Nil /\ d = Copying(t, o)
               \/ c.then = "move" /\ o = Nil /\ d = Ended(c.loc)
    BY <1>1, <1>5, LoadedCall
  <2>2. /\ \A u \in Threads \ {t} : strong'[u] = strong[u]
        /\ \A p \in strong'[t] : life[p] = "live"
        /\ o # Nil => o \in strong'[t]
    BY <1>5 DEF Loaded, CallsInv, TypeOK, BackedInv, StrongLive
  <2>3. /\ value'[c.loc] = value[c.loc]
        /\ c.then # "none" => value'[c.from] = Nil
        /\ \A x \in Slots \ Held(c) : value'[x] = value[x]
    BY <1>1, <1>2, <1>5 DEF Loaded, CallsInv, TypeOK
  <2>4. /\ d.at \in {"idle", "look", "end"} /\ Stage(d) = d.at
        /\ d.at = "look" => d.obj = o /\ d.then \in {"copied", "moved"}
        /\ d.at # "look" => d.then = "none" /\ d.obj = Nil
        /\ c.then = "move" => c.loc \in Held(d)
    <3>1. CASE c.then # "move" /\ d = Idle
      BY <3>1 DEF Idle, Stage, Dying
    <3>2. CASE c.then # "none" /\ d = Copying(t, o)
      <4>1. /\ d.at = "look" /\ d.obj = o /\ d.loc = c.from /\ d.from = c.loc
            /\ d.then = IF c.then = "move" THEN "moved" ELSE "copied"
        BY <1>1, <3>2, CopyingFields
      <4> QED
        BY <1>2, <3>2, <4>1, WeakConstants DEF Stage, Dying, Held
    <3>3. CASE c.then = "move" /\ d = Ended(c.loc)
      <4>1. d.at = "end" /\ d.loc = c.loc /\ d.then = "none" /\ d.obj = Nil
        BY <3>3 DEF Ended, Idle
      <4> QED
        BY <1>2, <4>1, WeakConstants DEF Stage, Dying, Held
    <3> QED
      BY <2>1, <3>1, <3>2, <3>3
  <2>5. Held(d) \subseteq Held(c)
    BY <2>1 DEF Passes
  <2>6. \A x \in Held(c) : Word(d, x, x \in exists' \/ x \in Held(d), value'[x], reg'[x], given'[x])
    <3>1. SUFFICES ASSUME NEW x \in Held(c)
          PROVE  Word(d, x, x \in exists' \/ x \in Held(d), value'[x], reg'[x], given'[x])
      OBVIOUS
    <3>2. ~ LooseFor(d, x)
      BY <2>4 DEF LooseFor, Rewriting
    <3>3. CASE x = c.loc
      <4>1. x \in exists' \/ x \in Held(d)
        BY <1>1, <1>2, <1>3, <2>4, <3>3 DEF Leaving, Loading, Ending
      <4>2. ~ LooseFor(c, x)
        BY <1>2, <1>4, <3>3 DEF LooseFor
      <4>3. Word(c, x, TRUE, value[x], reg[x], given[x]) /\ c.at # "write"
        BY <1>1, <1>4 DEF Rewriting
      <4> QED
        BY <1>3, <2>3, <3>3, <4>1, <4>2, <4>3 DEF Word
    <3>4. CASE x # c.loc
      <4>1. x = c.from /\ c.then # "none"
        BY <1>1, <3>4, WeakConstants DEF Held, Formed
      <4>2. x \in exists'
        BY <1>1, <1>2, <1>3, <4>1 DEF Leaving, Loading, Ending
      <4> QED
        BY <2>3, <4>1, <4>2 DEF Word
    <3> QED
      BY <3>3, <3>4
  <2>7. CallEffect(t, d, Held(c))
    BY <1>1, <1>3, <1>4, <2>1, <2>2, <2>3, <2>4, <2>5, <2>6 DEF CallEffect, Dying
  <2> QED
    BY <2>7, CallStep
<1>6. ASSUME NEW at \in {"load", "retain"}, NEW o \in Objects \cup {Nil},
             call' = [call EXCEPT ![t] = [c EXCEPT !.at = at, !.obj = o]],
             UNCHANGED <<strong, value>>
      PROVE  BackedInv'
  <2> DEFINE d == [c EXCEPT !.at = at, !.obj = o]
  <2>1. /\ d \in Calls /\ d.at = at /\ d.loc = c.loc /\ d.from = c.from /\ d.then = c.then
    BY <1>1 DEF Calls, Points, Loading
  <2>2. Stage(d) = at /\ Held(d) = Held(c)
    BY <2>1 DEF Stage, Dying, Held
  <2> HIDE DEF d
  <2>3. \A x \in Held(c) : Word(d, x, x \in exists' \/ x \in Held(d), value'[x], reg'[x], given'[x])
    <3>1. SUFFICES ASSUME NEW x \in Held(c) PROVE Word(d, x, TRUE, value[x], reg[x], given[x])
      BY <1>3, <1>6, <2>2 DEF Word
    <3>2. LooseFor(c, x) <=> LooseFor(d, x)
      BY <1>4, <2>1 DEF LooseFor, Rewriting
    <3>3. c.at # "write"
      BY <1>4 DEF Rewriting
    <3> QED
      BY <1>1, <2>1, <3>1, <3>2, <3>3 DEF Word
  <2>4. \A p \in strong[t] : life[p] = "live"
    BY DEF BackedInv, StrongLive
  <2>5. call' = [call EXCEPT ![t] = d]
    BY <1>6 DEF d
  <2>6. CallEffect(t, d, Held(c))
    BY <1>1, <1>3, <1>4, <1>6, <2>1, <2>2, <2>3, <2>4, <2>5, StoringStages
    DEF CallEffect, Dying, Storing, Ours, Theirs
  <2> QED
    BY <2>6, CallStep
<1>7. CASE Read(t)
  <2>1. CASE reg[c.loc].owner # "ours"
    <3>1. call' = [call EXCEPT ![t] = [c EXCEPT !.at = "load", !.obj = c.obj]]
      BY <1>1, <1>7, <2>1, ZenonT(60) DEF Read, Goto, Calls, CallsInv, TypeOK
    <3> QED
      BY <1>1, <1>6, <1>7, <2>1, <3>1 DEF Read, Calls
  <2>2. CASE reg[c.loc].owner = "ours" /\ value[c.loc] = Nil
    BY <1>5, <1>7, <2>2 DEF Read
  <2>3. CASE reg[c.loc].owner = "ours" /\ value[c.loc] # Nil
    <3>1. /\ call' = [call EXCEPT ![t] = [c EXCEPT !.at = "retain", !.obj = value[c.loc]]]
          /\ UNCHANGED <<strong, value>>
      BY <1>7, <2>3 DEF Read
    <3>2. value[c.loc] \in Objects \cup {Nil}
      BY <1>2 DEF CallsInv, TypeOK
    <3> QED
      BY <1>6, <3>1, <3>2
  <2> QED
    BY <2>1, <2>2, <2>3
<1>8. CASE Retain(t)
  <2>1. c.obj \in Objects \cup {Nil} /\ life[c.obj] = "live" /\ Loaded(t, c.obj)
    BY <1>1, <1>8 DEF Retain, Calls
  <2> QED
    BY <1>5, <2>1
<1>9. CASE RealLoad(t)
  <2>1. value[c.loc] \in Objects \cup {Nil}
    BY <1>2 DEF CallsInv, TypeOK
  <2> QED
    BY <1>5, <1>9, <2>1 DEF RealLoad
<1> QED
  BY <1>7, <1>8, <1>9 DEF Loads

LEMMA FinishBacked ==
  ASSUME Uses \subseteq {"bind"}, CallsInv, CallsInv', BackedInv, NEW t \in Threads, Finishes(t)
  PROVE  BackedInv'
<1> DEFINE c == call[t]
           x == c.loc
<1>1. /\ c \in Calls /\ Formed(c) /\ Held(c) \subseteq Slots /\ Known(t)
      /\ c.at \in {"write", "record", "end", "unregister", "blank"} /\ Stage(c) = c.at
      /\ \A u \in Threads \ {t} : Held(call[u]) \cap Held(c) = {}
      /\ \A y \in Held(c) : /\ Word(c, y, TRUE, value[y], reg[y], given[y])
                            /\ y \in exists <=> y \notin Leaving(c)
  BY HeldWords DEF Finishes, Write, Record, End, Unregister, Blank, At, BackedInv, Stage, Dying
<1>2. /\ x \in Slots /\ x \in Held(c) /\ c.then \notin {"copy", "move"} /\ c.from # x
      /\ \A y \in Held(c) : y # x => y = c.from /\ c.then \in {"copied", "moved"}
  BY <1>1, WeakConstants DEF Formed, Held, Calls, Loading
<1>3. UNCHANGED <<life, strong, exists, sentinel>> /\ c.at \notin Dying
  BY <1>1 DEF Finishes, Write, Record, End, Unregister, Blank, Dying
<1>4. /\ \A o \in strong[t] : life[o] = "live"
      /\ Stage(c) \in Storing \cup {"release"} /\ c.obj # Nil => c.obj \in strong[t]
  BY DEF BackedInv, StrongLive, Stored
<1>5. CASE Write(t) \/ Record(t)
  <2>1. PICK d \in Calls :
            /\ call' = [call EXCEPT ![t] = d] /\ Passes(c, d)
            /\ \/ c.then # "moved" /\ d = Idle
               \/ c.then = "moved" /\ d = Ended(c.from)
               \/ c.then # "none" /\ d = [c EXCEPT !.at = "release"]
    BY <1>5, Returned DEF Write, Record, At
  <2>2. /\ d.at \in {"idle", "end", "release"} /\ Stage(d) = d.at
        /\ d.at = "release" => d.obj = c.obj
        /\ d.then \notin {"copy", "move"}
        /\ c.then = "moved" => c.from \in Held(d)
    <3>1. CASE c.then # "moved" /\ d = Idle
      BY <3>1 DEF Idle, Stage, Dying
    <3>2. CASE c.then = "moved" /\ d = Ended(c.from)
      <4>1. d.at = "end" /\ d.loc = c.from /\ d.then = "none"
        BY <3>2 DEF Ended, Idle
      <4>2. c.from # Nil
        BY <1>1, <3>2 DEF Formed
      <4> QED
        BY <4>1, <4>2 DEF Stage, Dying, Held
    <3>3. CASE c.then # "none" /\ d = [c EXCEPT !.at = "release"]
      <4>1. d.at = "release" /\ d.loc = x /\ d.from = c.from /\ d.then = c.then /\ d.obj = c.obj
        BY <1>1, <3>3 DEF Calls
      <4>2. c.from # Nil
        BY <1>1, <3>3 DEF Formed
      <4> QED
        BY <1>2, <4>1, <4>2 DEF Stage, Dying, Held
    <3> QED
      BY <2>1, <3>1, <3>2, <3>3
  <2>3. Held(d) \subseteq Held(c) /\ \A y : ~ LooseFor(d, y)
    BY <2>1, <2>2 DEF Passes, LooseFor, Rewriting
  <2>4. /\ \A y \in Slots : /\ reg'[y].owner = "ours" => reg'[y] = reg[y]
                            /\ y # x => value'[y] = value[y] /\ reg'[y] = reg[y]
        /\ given' = given
        /\ IF reg'[x].owner = "ours" THEN value'[x] \in {Nil, reg'[x].obj}
                                     ELSE value'[x] \in {Nil, given[x]}
    <3>1. CASE Write(t)
      <4>1. /\ At(t, "write") /\ reg' = reg /\ given' = given
            /\ value'[x] = c.obj /\ \A y \in Slots \ {x} : value'[y] = value[y]
        BY <1>2, <3>1 DEF Write, CallsInv, TypeOK
      <4>2. reg[x] = [obj |-> c.obj, owner |-> "ours"]
        BY <1>1, <4>1 DEF Known, At
      <4> QED
        BY <4>1, <4>2
    <3>2. CASE Record(t)
      <4>1. At(t, "record") /\ value' = value /\ given' = given
        BY <3>2 DEF Record
      <4>2. value[x] = c.obj /\ given[x] = c.obj
        BY <1>1, <4>1 DEF Known, At
      <4>3. CASE c.obj = Nil
        <5>1. reg' = [reg EXCEPT ![x] = Unknown]
          BY <3>2, <4>3 DEF Record, Forget
        <5> QED
          BY <1>2, <4>1, <4>2, <4>3, <5>1 DEF CallsInv, TypeOK, Unknown
      <4>4. CASE c.obj # Nil
        <5>1. reg' = [reg EXCEPT ![x] = [obj |-> c.obj, owner |-> "objc"]]
          BY <3>2, <4>4 DEF Record, Remember
        <5> QED
          BY <1>2, <4>1, <4>2, <5>1 DEF CallsInv, TypeOK
      <4> QED
        BY <4>3, <4>4
    <3> QED
      BY <1>5, <3>1, <3>2
  <2>5. \A y \in Held(c) : Word(d, y, y \in exists' \/ y \in Held(d), value'[y], reg'[y], given'[y])
    <3>1. x \in exists
      BY <1>1, <1>2, <1>5 DEF Leaving, Ending, Write, Record, At
    <3>2. Word(d, x, x \in exists' \/ x \in Held(d), value'[x], reg'[x], given'[x])
      BY <1>3, <2>4, <3>1 DEF Word
    <3>3. ASSUME NEW y \in Held(c), y # x
          PROVE  Word(d, y, y \in exists' \/ y \in Held(d), value'[y], reg'[y], given'[y])
      <4>1. y = c.from /\ c.then \in {"copied", "moved"}
        BY <1>2, <3>3
      <4>2. y \in exists' \/ y \in Held(d)
        BY <1>1, <1>3, <1>5, <2>2, <4>1 DEF Leaving, Ending, Write, Record, At
      <4>3. Word(c, y, TRUE, value[y], reg[y], given[y]) /\ ~ LooseFor(c, y)
        BY <1>1, <1>2, <3>3 DEF LooseFor
      <4>4. value'[y] = value[y] /\ reg'[y] = reg[y] /\ given'[y] = given[y]
        BY <1>1, <2>4, <3>3
      <4> QED
        BY <3>3, <4>2, <4>3, <4>4 DEF Word
    <3> QED
      BY <3>2, <3>3
  <2>6. Stage(d) \in Storing \cup {"release"} /\ d.obj # Nil => d.obj \in strong'[t]
    <3>1. c.at \in Storing
      BY <1>1, <1>5 DEF Storing, Ours, Theirs, Write, Record, At
    <3> QED
      BY <1>1, <1>3, <1>4, <2>2, <3>1, StoringStages DEF Ending
  <2>7. /\ d.at \notin Dying \cup {"associate", "remember", "undo", "write", "record",
                                   "clear", "store", "unregister", "blank"}
        /\ Stage(d) # "init"
    BY <2>2 DEF Dying
  <2>8. \A y \in Slots \ Held(c) : /\ value'[y] = value[y] /\ reg'[y] = reg[y] /\ given'[y] = given[y]
                                   /\ y \in exists' <=> y \in exists
    BY <1>2, <1>3, <2>4
  <2>9. CallEffect(t, d, Held(c))
    BY <1>1, <1>3, <1>4, <2>1, <2>3, <2>4, <2>5, <2>6, <2>7, <2>8 DEF CallEffect
  <2> QED
    BY <2>9, CallStep
<1>6. CASE End(t)
  <2>1. PICK at \in {"unregister", "blank"} :
            /\ call' = [call EXCEPT ![t] = [c EXCEPT !.at = at]] /\ c.at = "end"
            /\ at = "unregister" => reg[x].owner = "objc"
    BY <1>6 DEF End, Goto, At
  <2> DEFINE d == [c EXCEPT !.at = at]
  <2>2. /\ d \in Calls /\ d.at = at /\ d.loc = c.loc /\ d.from = c.from /\ d.then = c.then
        /\ Stage(d) = at /\ Held(d) = Held(c)
    BY <1>1 DEF Calls, Points, Ending, Stage, Dying, Held
  <2>3. call' = [call EXCEPT ![t] = d]
    BY <2>1
  <2> HIDE DEF d
  <2>4. /\ UNCHANGED <<value, given>> /\ reg'[x].owner = "none"
        /\ \A y \in Slots \ {x} : reg'[y] = reg[y]
    BY <1>2, <1>6 DEF End, Forget, Unknown, CallsInv, TypeOK
  <2>5. Held(c) = {x}
    BY <1>1, <1>2, <2>1 DEF Formed, Storing, Ours, Theirs
  <2>6. Word(d, x, TRUE, value'[x], reg'[x], given'[x])
    <3>1. CASE at = "blank"
      BY <2>2, <2>4, <3>1 DEF Word, LooseFor, Rewriting
    <3>2. CASE at = "unregister"
      <4>1. ~ LooseFor(c, x)
        BY <1>2, <2>1 DEF LooseFor, Rewriting
      <4>2. value[x] \in {Nil, given[x]}
        BY <1>1, <1>2, <2>1, <3>2, <4>1 DEF Word
      <4> QED
        BY <2>4, <4>2 DEF Word
    <3> QED
      BY <3>1, <3>2
  <2>7. \A y \in Held(c) : Word(d, y, y \in exists' \/ y \in Held(d), value'[y], reg'[y], given'[y])
    BY <2>2, <2>5, <2>6 DEF Word
  <2>8. \A y \in Slots : reg'[y].owner = "ours" => reg'[y] = reg[y]
    BY <2>4
  <2>9. CallEffect(t, d, Held(c))
    BY <1>1, <1>2, <1>3, <1>4, <2>2, <2>3, <2>4, <2>5, <2>7, <2>8
    DEF CallEffect, Dying, Storing, Ours, Theirs
  <2> QED
    BY <2>9, CallStep
<1>7. CASE Unregister(t) \/ Blank(t)
  <2>1. /\ call' = [call EXCEPT ![t] = Idle] /\ reg' = reg /\ c.at \in {"unregister", "blank"}
        /\ \A y \in Slots \ {x} : value'[y] = value[y] /\ given'[y] = given[y]
        /\ \A y \in Slots : given'[y] \in {given[y], Nil}
    BY <1>2, <1>7 DEF Unregister, Blank, At, CallsInv, TypeOK
  <2>2. reg[x].owner # "ours" /\ x \notin exists
    <3>1. Stage(c) \in Ending /\ c.then # "moved"
      BY <1>1, <2>1 DEF Ending, Formed, Storing, Ours, Theirs
    <3>2. x \in Leaving(c)
      BY <3>1 DEF Leaving
    <3> QED
      BY <1>1, <1>2, <2>1, <3>2 DEF Known
  <2>3. Held(c) = {x}
    BY <1>1, <1>2, <2>1 DEF Formed, Storing, Ours, Theirs
  <2>4. Idle \in Calls /\ Held(Idle) = {} /\ Idle.at = "idle" /\ Stage(Idle) = "idle"
    BY IdlePasses DEF Idle, Stage, Dying
  <2>5. \A y \in Held(c) :
            Word(Idle, y, y \in exists' \/ y \in Held(Idle), value'[y], reg'[y], given'[y])
    BY <1>3, <2>1, <2>2, <2>3, <2>4 DEF Word
  <2>6. CallEffect(t, Idle, Held(c))
    BY <1>1, <1>2, <1>3, <1>4, <2>1, <2>3, <2>4, <2>5 DEF CallEffect, Dying, Storing, Ours, Theirs
  <2> QED
    BY <2>6, CallStep
<1> QED
  BY <1>5, <1>6, <1>7 DEF Finishes

\* The beginning of a call, on slots that no call is on.
BeginEffect(t, d, X) ==
    /\ call' = [call EXCEPT ![t] = d]
    /\ (d.at = "bind" /\ Stage(d) = d.next) \/ d = Idle
    /\ d.next \in {"look", "init"} /\ d.obj # Nil => d.obj \in strong[t]
    /\ Held(d) \subseteq X /\ \A x \in X : ~ Busy(x)
    /\ d.next = "init" => reg'[d.loc].owner # "ours"
    /\ d.next \in {"none", "look", "init", "read", "end"}
    /\ \A x \in Slots \ X : /\ value'[x] = value[x] /\ reg'[x] = reg[x]
                            /\ x \in exists' <=> x \in exists
    /\ \A x \in Slots : reg'[x].owner = "ours" => reg'[x] = reg[x]
    /\ \A x \in X : Word(d, x, x \in exists' \/ x \in Held(d), value'[x], reg'[x], given'[x])

LEMMA BeginBacked ==
  ASSUME Uses \subseteq {"bind"}, CallsInv, CallsInv', BackedInv, NEW t \in Threads, Begins(t)
  PROVE  BackedInv'
<1> DEFINE c == call[t]
<1>1. UNCHANGED <<life, strong, given, sentinel>> /\ c.at = "idle"
  BY DEF Begins, InitWeak, StoreWeak, LoadWeakRetained, DestroyWeak, CopyWeak, OnSlot, Begin,
     tables, At
<1>2. Held(c) = {} /\ c.at \notin Dying \cup Rewriting /\ \A y : ~ LooseFor(c, y) \/ y = Nil
  <2>1. c \in Calls /\ Formed(c) /\ Stage(c) = "idle"
    BY <1>1 DEF CallsInv, TypeOK, Stage, Dying
  <2>2. c.loc = Nil /\ c.then = "none"
    <3>1. "idle" \notin Storing \cup Loading
      BY StoringStages DEF Loading
    <3> QED
      BY <1>1, <2>1, <3>1 DEF Formed, Calls
  <2>3. c.from = Nil
    BY <2>1, <2>2 DEF Formed
  <2> QED
    BY <1>1, <2>2, <2>3 DEF Held, Dying, Rewriting, LooseFor
<1>3. \A o \in strong[t] : life[o] = "live"
  BY DEF BackedInv, StrongLive
<1>4. ASSUME NEW x \in Slots, ~ Busy(x)
      PROVE  /\ \A u \in Threads : x \notin Held(call[u])
             /\ x \in exists /\ reg[x].owner # "ours" => value[x] \in {Nil, given[x]}
             /\ reg[x].owner = "ours" => value[x] \in {Nil, reg[x].obj}
             /\ x \notin exists => reg[x].owner # "ours"
  <2>1. \A u \in Threads : x \notin Held(call[u])
    BY <1>4 DEF Busy, Held
  <2>2. Word(c, x, x \in exists \/ x \in Held(c), value[x], reg[x], given[x])
    BY <2>1, WordOf DEF BackedInv
  <2> QED
    BY <1>1, <1>2, <2>1, <2>2, WeakConstants DEF Word
<1>5. ASSUME NEW d \in Calls, NEW X \in SUBSET Slots, BeginEffect(t, d, X)
      PROVE  BackedInv'
  <2>1. \A u \in Threads : Held(call[u]) \cap X = {}
    BY <1>4, <1>5 DEF BeginEffect
  <2>2. d.at \in {"idle", "bind"} /\ Stage(d) \in {"idle", "look", "init", "read", "end"}
        /\ (Stage(d) = "init" => d.next = "init") /\ (Stage(d) \in Storing \cup {"release"} => d.next \in {"look", "init"})
    <3>1. CASE d = Idle
      <4>1. Idle.at = "idle" /\ Stage(Idle) = "idle"
        BY DEF Idle, Stage, Dying
      <4> QED
        BY <3>1, <4>1, StoringStages
    <3>2. CASE d.at = "bind" /\ Stage(d) = d.next
      <4>1. Formed(d)
        BY <1>5 DEF CallsInv, TypeOK, BeginEffect
      <4> QED
        BY <1>5, <3>2, <4>1 DEF Formed, Storing, Ours, Theirs, BeginEffect
    <3> QED
      BY <1>5, <3>1, <3>2 DEF BeginEffect
  <2>3. CallEffect(t, d, X)
    BY <1>1, <1>2, <1>3, <1>5, <2>1, <2>2 DEF CallEffect, Dying, BeginEffect
  <2> QED
    BY <2>3, CallStep
<1>6. ASSUME NEW x \in Slots, NEW o \in Objects \cup {Nil}, InitWeak(t, x, o)
      PROVE  BackedInv'
  <2>1. /\ ~ Busy(x) /\ x \in exists' /\ value'[x] = Nil /\ reg'[x] = Unknown /\ May(t, o)
        /\ \A y \in Slots \ {x} : /\ value'[y] = value[y] /\ reg'[y] = reg[y]
                                  /\ y \in exists' <=> y \in exists
    BY <1>6 DEF InitWeak, Forget, CallsInv, TypeOK
  <2>2. Unknown.owner = "none"
    BY DEF Unknown
  <2>3. ASSUME NEW d, \A y : ~ LooseFor(d, y) \/ y = Nil
        PROVE  Word(d, x, x \in exists' \/ x \in Held(d), value'[x], reg'[x], given'[x])
    BY <2>1, <2>2 DEF Word
  <2>4. CASE o = Nil
    <3>1. call' = [call EXCEPT ![t] = Idle]
      BY <1>6, <2>4 DEF InitWeak, Begin
    <3>2. /\ Idle \in Calls /\ Held(Idle) = {} /\ Idle.next = "none"
          /\ Word(Idle, x, x \in exists' \/ x \in Held(Idle), value'[x], reg'[x], given'[x])
      BY <2>1, <2>2, IdlePasses DEF Idle, Word
    <3>3. BeginEffect(t, Idle, {x})
      BY <2>1, <2>2, <3>1, <3>2 DEF BeginEffect
    <3> QED
      BY <1>5, <3>2, <3>3
  <2>5. CASE o # Nil
    <3>1. PICK next \in {"look", "init"} : /\ call' = [call EXCEPT ![t] = Call(x, o, next)]
                                           /\ next = "init" => o \notin Custom
      <4>1. CASE o \in Custom
        BY <1>6, <2>5, <4>1 DEF InitWeak, Begin
      <4>2. CASE o \notin Custom
        BY <1>6, <2>5, <4>2 DEF InitWeak, Begin
      <4> QED
        BY <4>1, <4>2
    <3> DEFINE d == Call(x, o, next)
    <3>2. /\ d \in Calls /\ Held(d) = {x} /\ d.then = "none" /\ d.loc = x
          /\ d.from = Nil /\ d.at = "bind" /\ d.obj = o /\ d.next = next
      BY <3>1, CallFields
    <3> HIDE DEF d
    <3>3. Stage(d) = d.next /\ d.at \notin Rewriting
      BY <3>2 DEF Stage, Rewriting
    <3>4. Word(d, x, x \in exists' \/ x \in Held(d), value'[x], reg'[x], given'[x])
      BY <2>1, <2>2 DEF Word
    <3>5. o \in strong[t]
      BY <2>1, <2>5 DEF May
    <3>6. call' = [call EXCEPT ![t] = d]
      BY <3>1 DEF d
    <3>7. BeginEffect(t, d, {x})
      BY <2>1, <2>2, <3>1, <3>2, <3>3, <3>4, <3>5, <3>6 DEF BeginEffect
    <3> QED
      BY <1>5, <3>2, <3>7
  <2> QED
    BY <2>4, <2>5
<1>7. ASSUME NEW x \in Slots, NEW o \in Objects \cup {Nil}, NEW next \in {"look", "read"},
             next = "look" => May(t, o), OnSlot(t, x, Call(x, o, next))
      PROVE  BackedInv'
  <2> DEFINE d == Call(x, o, next)
  <2>1. /\ d \in Calls /\ Held(d) = {x} /\ d.then = "none" /\ d.loc = x
        /\ d.from = Nil /\ d.at = "bind" /\ d.obj = o /\ d.next = next
    BY CallFields
  <2>2. /\ x \in exists /\ ~ Busy(x) /\ UNCHANGED <<exists, value, reg>>
        /\ call' = [call EXCEPT ![t] = d]
    BY <1>7 DEF OnSlot, Free, Begin, tables
  <2> HIDE DEF d
  <2>3. Stage(d) = d.next /\ d.at \notin Rewriting
    BY <2>1 DEF Stage, Rewriting
  <2>4. Word(d, x, x \in exists' \/ x \in Held(d), value'[x], reg'[x], given'[x])
    BY <1>1, <1>4, <2>2 DEF Word
  <2>5. next = "look" /\ o # Nil => o \in strong[t]
    BY <1>7 DEF May
  <2>6. BeginEffect(t, d, {x})
    BY <2>1, <2>2, <2>3, <2>4, <2>5 DEF BeginEffect
  <2> QED
    BY <1>5, <2>1, <2>6
<1>8. ASSUME NEW x \in Slots, DestroyWeak(t, x)
      PROVE  BackedInv'
  <2> DEFINE d == Call(x, Nil, "end")
  <2>1. /\ d \in Calls /\ Held(d) = {x} /\ d.then = "none" /\ d.loc = x
        /\ d.from = Nil /\ d.at = "bind" /\ d.obj = Nil /\ d.next = "end"
    BY CallFields
  <2>2. /\ x \in exists /\ ~ Busy(x) /\ exists' = exists \ {x} /\ UNCHANGED <<value, reg>>
        /\ call' = [call EXCEPT ![t] = d]
    BY <1>8 DEF DestroyWeak, Begin, tables
  <2> HIDE DEF d
  <2>3. Stage(d) = d.next /\ d.at \notin Rewriting
    BY <2>1 DEF Stage, Rewriting
  <2>4. Word(d, x, x \in exists' \/ x \in Held(d), value'[x], reg'[x], given'[x])
    BY <1>1, <1>4, <2>1, <2>2 DEF Word
  <2>6. BeginEffect(t, d, {x})
    BY <2>1, <2>2, <2>3, <2>4 DEF BeginEffect
  <2> QED
    BY <1>5, <2>1, <2>6
<1>9. ASSUME NEW x \in Slots, NEW y \in Slots, NEW moved \in BOOLEAN, x # y,
             CopyWeak(t, x, y, moved)
      PROVE  BackedInv'
  <2> DEFINE d == CopyCall(x, y, moved)
  <2>1. /\ d \in Calls /\ Held(d) = {x, y} /\ d.loc = y /\ d.from = x
        /\ d.then \in {"copy", "move"} /\ d.at = "bind" /\ d.obj = Nil /\ d.next = "read"
    BY <1>9, CopyFields
  <2>2. /\ x \notin exists /\ ~ Busy(x) /\ ~ Busy(y) /\ y \in exists /\ UNCHANGED <<value, reg>>
        /\ exists' = (exists \cup {x}) \ (IF moved THEN {y} ELSE {})
        /\ call' = [call EXCEPT ![t] = d]
    BY <1>9 DEF CopyWeak, Free, Begin, tables, CopyCall
  <2> HIDE DEF d
  <2>3. Stage(d) = d.next /\ d.at \notin Rewriting
    BY <2>1 DEF Stage, Rewriting
  <2>4. Word(d, x, x \in exists' \/ x \in Held(d), value'[x], reg'[x], given'[x])
    BY <1>4, <2>1, <2>2 DEF Word, LooseFor
  <2>5. Word(d, y, y \in exists' \/ y \in Held(d), value'[y], reg'[y], given'[y])
    BY <1>1, <1>4, <2>1, <2>2 DEF Word
  <2>6. \A z \in Slots \ {x, y} : z \in exists' <=> z \in exists
    BY <2>2
  <2>7. BeginEffect(t, d, {x, y})
    BY <2>1, <2>2, <2>3, <2>4, <2>5, <2>6 DEF BeginEffect
  <2> QED
    BY <1>5, <2>1, <2>7
<1> QED
  BY <1>6, <1>7, <1>8, <1>9 DEF Begins, StoreWeak, LoadWeakRetained

\* The step of a thread that keeps to its own slots, and leaves the tables alone.
LEMMA OwnWords ==
  ASSUME CallsInv, CallsInv', BackedInv, NEW t \in Threads, NEW d \in Calls,
         call' = [call EXCEPT ![t] = d], Held(d) \subseteq Held(call[t]),
         Leaving(call[t]) \subseteq Held(d), UNCHANGED <<exists, value, reg, given>>,
         \A x : ~ LooseFor(call[t], x) \/ x = Nil, call[t].at # "write",
         \A x : ~ LooseFor(d, x) \/ x = Nil,
         d.at \in {"idle", "end", "zero"}, Stage(d) \in {"idle", "end"}
  PROVE  /\ (\A u \in Threads : Known(u)') /\ (\A x \in Slots : BackedAt(x)')
         /\ \A x \in Held(call[t]) :
               Word(d, x, x \in exists' \/ x \in Held(d), value'[x], reg'[x], given'[x])
<1> DEFINE c == call[t]
<1>1. /\ c \in Calls /\ Held(c) \subseteq Slots
      /\ \A u \in Threads \ {t} : Held(call[u]) \cap Held(c) = {}
      /\ \A x \in Held(c) : /\ Word(c, x, TRUE, value[x], reg[x], given[x])
                            /\ x \in exists <=> x \notin Leaving(c)
  BY HeldWords
<1>2. call'[t] = d
  BY DEF CallsInv, TypeOK
<1>3. Known(t)'
  BY <1>2 DEF Known
<1>4. ASSUME NEW x \in Held(c)
      PROVE  Word(d, x, x \in exists' \/ x \in Held(d), value'[x], reg'[x], given'[x])
  <2>1. x \in exists' \/ x \in Held(d)
    BY <1>1, <1>4
  <2>2. x # Nil
    BY DEF Held
  <2> QED
    BY <1>1, <1>4, <2>1, <2>2 DEF Word
<1>5. \A x \in Slots \ Held(c) : /\ value'[x] = value[x] /\ reg'[x] = reg[x] /\ given'[x] = given[x]
                                 /\ x \in exists' <=> x \in exists
  OBVIOUS
<1>6. Held(c) \cup Held(d) \subseteq Held(c) /\ Held(c) \in SUBSET Slots
  BY <1>1
<1> QED
  BY <1>1, <1>3, <1>4, <1>5, <1>6, SlotsStep

\* An object is zeroed once, by the thread of its last release.
LEMMA DropBacked ==
  ASSUME CallsInv, CallsInv', BackedInv, NEW t \in Threads, NEW d \in Calls, NEW o \in Objects,
         Dropped(t, d, o)
  PROVE  BackedInv'
<1> DEFINE c == call[t]
<1>1. c \in Calls /\ Formed(c) /\ c.at \in {"idle", "release"} /\ Stage(c) = c.at
  BY DEF CallsInv, TypeOK, Dropped, Stage, Dying
<1>2. o \in strong[t] /\ life[o] = "live"
  <2>1. o \in strong[t]
    BY <1>1, WeakConstants DEF Dropped, BackedInv, Stored, Formed, Dying
  <2> QED
    BY <2>1 DEF BackedInv, StrongLive
<1>3. call'[t] = d /\ \A u \in Threads \ {t} : call'[u] = call[u]
  BY DEF Dropped, CallsInv, TypeOK
<1>4. (\A u \in Threads : Known(u)') /\ (\A x \in Slots : BackedAt(x)')
  <2>1. \A x : ~ LooseFor(c, x) \/ x = Nil
    BY <1>1 DEF LooseFor, Rewriting, Formed, Loading
  <2>2. \A x : ~ LooseFor(d, x) \/ x = Nil
    BY DEF Dropped, LooseFor, Rewriting
  <2>3. d.at \in {"idle", "end", "zero"} /\ Stage(d) \in {"idle", "end"}
    BY DEF Dropped
  <2>4. /\ call' = [call EXCEPT ![t] = d] /\ Held(d) \subseteq Held(c)
        /\ Leaving(c) \subseteq Held(d) /\ UNCHANGED <<exists, value, reg, given>>
    BY DEF Dropped, Passes
  <2> QED
    BY <1>1, <2>1, <2>2, <2>3, <2>4, OwnWords
<1>5. /\ strong'[t] = strong[t] \ {o} /\ \A u \in Threads \ {t} : strong'[u] = strong[u]
      /\ UNCHANGED <<reg, given, sentinel>> /\ call' = [call EXCEPT ![t] = d]
      /\ Stage(d) \notin Storing \cup {"release"} /\ d.at \notin {"associate", "remember"}
  <2>1. /\ strong'[t] = strong[t] \ {o} /\ \A u \in Threads \ {t} : strong'[u] = strong[u]
        /\ UNCHANGED <<reg, given, sentinel>> /\ call' = [call EXCEPT ![t] = d]
    BY DEF Dropped, CallsInv, TypeOK
  <2>2. Stage(d) \notin Storing \cup {"release"} /\ d.at \notin {"associate", "remember"}
    BY DEF Dropped, Storing, Ours, Theirs
  <2> QED
    BY <2>1, <2>2
<1>6. StrongLive' /\ OneEnd' /\ \A p \in Objects : Present(p) => Present(p)'
  <2>1. CASE d.at = Stage(d) /\ life' = life
    <3>1. StrongLive'
      BY <1>5, <2>1 DEF BackedInv, StrongLive
    <3>2. d.at \notin Dying
      BY <2>1 DEF Dropped, Dying
    <3>3. OneEnd'
      BY <1>3, <2>1, <3>2, EndsSame DEF BackedInv
    <3>4. \A p \in Objects : Present(p) => Present(p)'
      BY <1>1, <1>3, <2>1 DEF Present, Zeroing, At
    <3> QED
      BY <3>1, <3>3, <3>4
  <2>2. CASE /\ d.at = "zero" /\ d.obj = o /\ life' = [life EXCEPT ![o] = "dying"]
             /\ \A u \in Threads \ {t} : o \notin strong[u]
    <3>1. life'[o] = "dying" /\ \A p \in Objects \ {o} : life'[p] = life[p]
      BY <2>2 DEF CallsInv, TypeOK
    <3>2. \A u \in Threads : strong[u] \subseteq Objects
      BY DEF CallsInv, TypeOK
    <3>3. StrongLive'
      BY <1>5, <2>2, <3>1, <3>2 DEF BackedInv, StrongLive
    <3>4. \A u \in Threads \ {t} : call[u].at \in Dying =>
              call[u].obj \in Objects \ {o} /\ life'[call[u].obj] = "dying"
      <4>1. SUFFICES ASSUME NEW u \in Threads \ {t}, call[u].at \in Dying
            PROVE  call[u].obj \in Objects \ {o} /\ life'[call[u].obj] = "dying"
        OBVIOUS
      <4>2. life[call[u].obj] = "dying"
        BY <4>1 DEF BackedInv, OneEnd
      <4>3. call[u].obj \in Objects
        <5>1. call[u] \in Calls /\ Formed(call[u])
          BY DEF CallsInv, TypeOK
        <5> QED
          BY <4>1, <5>1 DEF Formed, Calls
      <4> QED
        BY <1>2, <3>1, <4>2, <4>3
    <3>5. \A u, v \in Threads : u # v /\ call'[u].at \in Dying /\ call'[v].at \in Dying =>
              call'[u].obj # call'[v].obj
      BY <1>3, <2>2, <3>4 DEF BackedInv, OneEnd
    <3>6. OneEnd'
      BY <1>3, <2>2, <3>1, <3>4, <3>5 DEF OneEnd
    <3>7. \A p \in Objects : Present(p) => Present(p)'
      <4>1. Zeroing(o)'
        BY <1>3, <2>2 DEF Zeroing, At
      <4>2. \A p \in Objects : Zeroing(p) => Zeroing(p)'
        BY <1>1, <1>3 DEF Zeroing, At
      <4> QED
        BY <3>1, <4>1, <4>2 DEF Present
    <3> QED
      BY <3>3, <3>6, <3>7
  <2> QED
    BY <2>1, <2>2 DEF Dropped
<1>7. /\ StrongLive' /\ Stored' /\ OneEnd' /\ Sentinels' /\ OursHaveSentinels'
      /\ GivenPresent' /\ OneSentinel'
  BY <1>5, <1>6, ObjectsStep
<1> QED
  BY <1>4, <1>7 DEF BackedInv

LEMMA DeallocBacked ==
  ASSUME CallsInv, CallsInv', BackedInv, NEW t \in Threads, Dealloc(t)
  PROVE  BackedInv'
<1> DEFINE c == call[t]
           o == c.obj
           d == [c EXCEPT !.at = c.next, !.obj = Nil, !.next = "none"]
<1>1. /\ c \in Calls /\ Formed(c) /\ c.at = "free" /\ Stage(c) = c.next /\ c.next \in {"idle", "end"}
      /\ o \in Objects /\ life[o] = "dying" /\ c.then \notin {"copy", "move", "copied", "moved"}
  <2>1. c \in Calls /\ Formed(c) /\ c.at = "free"
    BY DEF CallsInv, TypeOK, Dealloc, At
  <2>2. Stage(c) = c.next /\ c.next \in {"idle", "end"} /\ o \in Objects
    BY <2>1 DEF Formed, Stage, Dying, Calls
  <2>3. c.then \notin {"copy", "move", "copied", "moved"}
    BY <2>1, <2>2 DEF Formed, Loading, Storing, Ours, Theirs
  <2> QED
    BY <2>1, <2>2, <2>3 DEF BackedInv, OneEnd, Dying
<1>2. /\ d \in Calls /\ d.at = c.next /\ d.loc = c.loc /\ d.from = c.from /\ d.then = c.then
      /\ d.obj = Nil /\ call' = [call EXCEPT ![t] = d]
  BY <1>1 DEF Calls, Points, Ending, Dealloc
<1> HIDE DEF d
<1>3. Stage(d) = c.next /\ Held(d) = Held(c) /\ Leaving(c) \subseteq Held(d)
  BY <1>1, <1>2, LeavingHeld DEF Stage, Dying, Held
<1>4. /\ UNCHANGED <<strong, exists, value, reg, given, sentinel>>
      /\ life'[o] = "freed" /\ \A p \in Objects \ {o} : life'[p] = life[p]
  BY <1>1 DEF Dealloc, tables, CallsInv, TypeOK
<1>5. call'[t] = d /\ \A u \in Threads \ {t} : call'[u] = call[u]
  BY <1>2 DEF CallsInv, TypeOK
<1>6. (\A u \in Threads : Known(u)') /\ (\A x \in Slots : BackedAt(x)')
  <2>1. \A x : ~ LooseFor(c, x) \/ x = Nil
    BY <1>1 DEF LooseFor, Rewriting
  <2>2. \A x : ~ LooseFor(d, x) \/ x = Nil
    BY <1>1, <1>2 DEF LooseFor, Rewriting
  <2> QED
    BY <1>1, <1>2, <1>3, <1>4, <2>1, <2>2, OwnWords
<1>7. \A u \in Threads \ {t} : call[u].at \in Dying => call[u].obj # o
  BY <1>1 DEF BackedInv, OneEnd, Dying
<1>8. OneEnd'
  <2>1. d.at \notin Dying
    BY <1>1, <1>2 DEF Dying
  <2>2. \A u \in Threads \ {t} : call[u].at \in Dying =>
            call[u].obj \in Objects \ {o} /\ life'[call[u].obj] = "dying"
    <3>1. SUFFICES ASSUME NEW u \in Threads \ {t}, call[u].at \in Dying
          PROVE  call[u].obj \in Objects \ {o} /\ life'[call[u].obj] = "dying"
      OBVIOUS
    <3>2. call[u].obj \in Objects
      BY <3>1 DEF CallsInv, TypeOK, Formed, Calls
    <3> QED
      BY <1>4, <1>7, <3>1, <3>2 DEF BackedInv, OneEnd
  <2> QED
    BY <1>5, <2>1, <2>2 DEF BackedInv, OneEnd
<1>9. StrongLive' /\ \A p \in Objects : Present(p) => Present(p)'
  <2>1. \A u \in Threads : strong[u] \subseteq Objects
    BY DEF CallsInv, TypeOK
  <2>2. StrongLive'
    BY <1>1, <1>4, <2>1 DEF BackedInv, StrongLive
  <2>3. ~ Present(o)
    BY <1>1, <1>7 DEF Present, Zeroing, At, Dying
  <2>4. \A p \in Objects : Zeroing(p) => Zeroing(p)'
    BY <1>1, <1>5 DEF Zeroing, At
  <2> QED
    BY <1>4, <2>2, <2>3, <2>4 DEF Present
<1>10. /\ StrongLive' /\ Stored' /\ OneEnd' /\ Sentinels' /\ OursHaveSentinels'
       /\ GivenPresent' /\ OneSentinel'
  BY <1>1, <1>2, <1>4, <1>8, <1>9, ObjectsStep
<1> QED
  BY <1>6, <1>10 DEF BackedInv

\* Zeroing takes from both tables, and from the slots' words, what names the object.
ZeroEffect(t, o) ==
    /\ \A x \in Slots :
          /\ \/ reg'[x] = reg[x] /\ (reg[x].owner = "ours" => reg[x].obj # o)
             \/ reg[x] = [obj |-> o, owner |-> "ours"] /\ reg'[x] = Unknown /\ value'[x] = Nil
          /\ given'[x] = IF given[x] = o THEN Nil ELSE given[x]
          /\ value'[x] \in {value[x], Nil}
          /\ value'[x] # value[x] => value[x] = o \/ reg[x] = [obj |-> o, owner |-> "ours"]
          /\ given[x] = o /\ value[x] = o => value'[x] = Nil
    /\ sentinel' = sentinel \ {o}
    /\ UNCHANGED <<life, strong, exists>>

LEMMA ZeroSlots ==
  ASSUME CallsInv, BackedInv, NEW t \in Threads, Zero(t)
  PROVE  ZeroEffect(t, call[t].obj)
<1> DEFINE o == call[t].obj
<1>1. o # Nil
  BY DEF CallsInv, Formed, Zero, At, Dying
<1>2. /\ \A x \in Slots : given'[x] = IF given[x] = o THEN Nil ELSE given[x]
      /\ sentinel' = sentinel \ {o} /\ UNCHANGED <<life, strong, exists>>
  BY DEF Zero
<1>3. CASE o \in sentinel
  <2>1. o \in Custom
    BY <1>3 DEF BackedInv, Sentinels
  <2>2. \A x \in Slots : given[x] # o
    BY <1>1, <2>1 DEF BackedInv, GivenPresent
  <2>3. ASSUME NEW x \in Slots
        PROVE  /\ \/ reg'[x] = reg[x] /\ (reg[x].owner = "ours" => reg[x].obj # o) /\ value'[x] = value[x]
                  \/ reg[x] = [obj |-> o, owner |-> "ours"] /\ reg'[x] = Unknown /\ value'[x] = Nil
    <3>1. x \in Named(o) => reg[x] = [obj |-> o, owner |-> "ours"] /\ reg'[x] = Unknown /\ value'[x] = Nil
      BY <1>3 DEF Zero, ZeroFor, Named
    <3>2. x \notin Named(o) => reg'[x] = reg[x] /\ value'[x] = value[x]
      BY <1>3 DEF Zero, ZeroFor, Named
    <3>3. x \notin Named(o) /\ reg[x].owner = "ours" => reg[x].obj # o
      BY DEF Named, CallsInv, TypeOK
    <3> QED
      BY <3>1, <3>2, <3>3
  <2> QED
    BY <1>2, <2>2, <2>3 DEF ZeroEffect
<1>4. CASE o \notin sentinel
  <2>1. /\ reg' = reg
        /\ \A x \in Slots : value'[x] = IF given[x] = o /\ value[x] = o THEN Nil ELSE value[x]
    BY <1>4 DEF Zero
  <2>2. \A x \in Slots : reg[x].owner = "ours" => reg[x].obj # o
    BY <1>4 DEF BackedInv, OursHaveSentinels
  <2> QED
    BY <1>2, <2>1, <2>2 DEF ZeroEffect
<1> QED
  BY <1>3, <1>4

LEMMA ZeroBacked ==
  ASSUME CallsInv, CallsInv', BackedInv, NEW t \in Threads, Zero(t)
  PROVE  BackedInv'
<1> DEFINE c == call[t]
           o == c.obj
           d == [c EXCEPT !.at = "free"]
<1>0. ZeroEffect(t, o)
  BY ZeroSlots
<1>1. c \in Calls /\ Formed(c) /\ c.at = "zero" /\ o \in Objects /\ life[o] = "dying"
  <2>1. c \in Calls /\ Formed(c) /\ c.at = "zero"
    BY DEF CallsInv, TypeOK, Zero, At
  <2> QED
    BY <2>1 DEF Formed, Dying, Calls, BackedInv, OneEnd
<1>2. /\ d \in Calls /\ d.at = "free" /\ d.loc = c.loc /\ d.from = c.from /\ d.then = c.then
      /\ d.obj = o /\ d.next = c.next /\ call' = [call EXCEPT ![t] = d]
  BY <1>1 DEF Calls, Points, Dying, Zero, Goto
<1> HIDE DEF d
<1>3. Stage(d) = Stage(c) /\ Stage(c) \in {"idle", "end"}
  BY <1>1, <1>2 DEF Stage, Dying, Formed
<1>4. call'[t] = d /\ \A u \in Threads \ {t} : call'[u] = call[u]
  BY <1>2 DEF CallsInv, TypeOK
<1>5. \A u \in Threads : Stage(call[u]) \in Storing \cup {"release"} => call[u].obj # o
  BY <1>1, WeakConstants DEF BackedInv, Stored, StrongLive
<1>6. \A u \in Threads : call[u].at \in Storing => call[u].obj # o
  BY <1>5, StoringStages DEF Stage
<1>7. ASSUME NEW u \in Threads PROVE Known(u)'
  <2>1. CASE u = t
    BY <1>2, <1>3, <1>4, <2>1 DEF Known
  <2>2. CASE u # t
    <3>1. call'[u] = call[u] /\ call[u] \in Calls /\ Formed(call[u]) /\ Known(u)
      BY <1>4, <2>2 DEF BackedInv, CallsInv, TypeOK
    <3>2. CASE call[u].loc \notin Slots
      <4>1. Stage(call[u]) = "idle"
        BY <3>1, <3>2 DEF Formed, Calls
      <4>2. call[u].at \notin {"undo", "write", "clear", "store", "record", "unregister", "blank"}
        BY <4>1 DEF Stage, Dying
      <4> QED
        BY <3>1, <4>1, <4>2 DEF Known
    <3>3. CASE call[u].loc \in Slots
      <4> DEFINE x == call[u].loc
      <4>1. \/ reg'[x] = reg[x]
            \/ reg[x] = [obj |-> o, owner |-> "ours"] /\ reg'[x] = Unknown
        BY <1>0, <3>3 DEF ZeroEffect
      <4>2. reg'[x] # reg[x] => reg[x].owner = "ours" /\ reg[x].obj = o /\ reg'[x].owner = "none"
        BY <4>1 DEF Unknown
      <4>3. call[u].at = "write" => reg'[x] = [obj |-> call[u].obj, owner |-> "ours"]
        <5>1. call[u].at = "write" => call[u].obj # o
          BY <1>6 DEF Storing, Ours
        <5> QED
          BY <3>1, <4>2, <5>1 DEF Known
      <4>4. call[u].at = "record" => value'[x] = call[u].obj /\ given'[x] = call[u].obj
        <5>1. SUFFICES ASSUME call[u].at = "record"
              PROVE  value'[x] = call[u].obj /\ given'[x] = call[u].obj
          OBVIOUS
        <5>2. /\ value[x] = call[u].obj /\ given[x] = call[u].obj /\ call[u].obj # o
              /\ reg[x].owner # "ours"
          BY <1>6, <3>1, <5>1 DEF Known, Storing, Theirs
        <5> QED
          BY <1>0, <3>3, <5>2 DEF ZeroEffect
      <4> QED
        BY <3>1, <4>2, <4>3, <4>4 DEF Known
    <3> QED
      BY <3>2, <3>3
  <2> QED
    BY <2>1, <2>2
<1>8. ASSUME NEW x \in Slots PROVE BackedAt(x)'
  <2>1. BackedAt(x)
    BY DEF BackedInv
  <2>2. Held(d) = Held(c)
    BY <1>2 DEF Held
  <2>3. Taken(x)' <=> Taken(x)
    BY <1>0, <1>4, <2>2 DEF Taken, ZeroEffect
  <2>4. Loose(x)' <=> Loose(x)
    BY <1>1, <1>2, <1>4 DEF Loose, Rewriting
  <2>5. (\E u \in Threads : At(u, "write") /\ call[u].loc = x) =>
            \E u \in Threads : At(u, "write")' /\ call'[u].loc = x
    BY <1>1, <1>4 DEF At
  <2>6. CASE reg'[x] = reg[x] /\ (reg[x].owner = "ours" => reg[x].obj # o)
    <3>1. /\ value'[x] \in {value[x], Nil}
          /\ given'[x] = IF given[x] = o THEN Nil ELSE given[x]
          /\ given[x] = o /\ value[x] = o => value'[x] = Nil
      BY <1>0 DEF ZeroEffect
    <3> QED
      BY <2>1, <2>3, <2>4, <2>5, <2>6, <3>1 DEF BackedAt
  <2>7. CASE reg'[x] = Unknown /\ value'[x] = Nil
    BY <2>7 DEF BackedAt, Unknown
  <2> QED
    BY <1>0, <2>6, <2>7 DEF ZeroEffect
<1>9. \A p \in Objects \ {o} : Present(p) => Present(p)'
  <2>1. \A p \in Objects \ {o} : Zeroing(p) => Zeroing(p)'
    BY <1>4 DEF Zeroing, At
  <2> QED
    BY <1>0, <2>1 DEF Present, ZeroEffect
<1>10. Sentinels' /\ OursHaveSentinels' /\ GivenPresent'
  <2>1. Sentinels'
    BY <1>0, <1>9 DEF BackedInv, Sentinels, ZeroEffect, CallsInv, TypeOK
  <2>2. OursHaveSentinels'
    <3>1. SUFFICES ASSUME NEW x \in Slots, reg'[x].owner = "ours" PROVE reg'[x].obj \in sentinel'
      BY DEF OursHaveSentinels
    <3>2. reg'[x] = reg[x] /\ reg[x].obj # o
      BY <1>0, <3>1 DEF ZeroEffect, Unknown
    <3> QED
      BY <1>0, <3>1, <3>2 DEF BackedInv, OursHaveSentinels, ZeroEffect
  <2>3. GivenPresent'
    <3>1. SUFFICES ASSUME NEW x \in Slots, given'[x] # Nil
          PROVE  given'[x] \notin Custom /\ Present(given[x])'
      BY DEF GivenPresent
    <3>2. PICK p : p = given[x]
      OBVIOUS
    <3>3. given'[x] = p /\ p # o /\ p # Nil
      BY <1>0, <3>1, <3>2 DEF ZeroEffect
    <3>4. p \in Objects \ {o} /\ p \notin Custom /\ Present(p)
      BY <3>2, <3>3 DEF BackedInv, GivenPresent, CallsInv, TypeOK
    <3>5. Present(p)'
      BY <1>9, <3>4
    <3> QED
      BY <3>3, <3>4, <3>5 DEF Present, Zeroing
  <2> QED
    BY <2>1, <2>2, <2>3
<1>11. StrongLive' /\ Stored' /\ OneEnd' /\ OneSentinel'
  <2>1. StrongLive'
    BY <1>0 DEF BackedInv, StrongLive, ZeroEffect
  <2>2. Stored'
    BY <1>0, <1>3, <1>4, StoringStages DEF BackedInv, Stored, ZeroEffect, Ending
  <2>3. OneEnd'
    BY <1>0, <1>1, <1>2, <1>4 DEF BackedInv, OneEnd, ZeroEffect, Dying
  <2>4. OneSentinel'
    <3>1. \A u \in Threads : At(u, "remember") => call[u].obj # o
      BY <1>6 DEF At, Storing, Ours
    <3> QED
      BY <1>0, <1>2, <1>4, <3>1 DEF BackedInv, OneSentinel, At, ZeroEffect
  <2> QED
    BY <2>1, <2>2, <2>3, <2>4
<1> QED
  BY <1>7, <1>8, <1>10, <1>11 DEF BackedInv

LEMMA LivesBacked ==
  ASSUME CallsInv, CallsInv', BackedInv, NEW t \in Threads, Lives(t)
  PROVE  BackedInv'
<1>1. CASE (\E o \in Objects : Release(t, o)) \/ CopyRelease(t)
  <2>1. PICK d \in Calls, o \in Objects : Dropped(t, d, o)
    BY <1>1, DropCalls
  <2> QED
    BY <2>1, DropBacked
<1> QED
  BY <1>1, ZeroBacked, DeallocBacked DEF Lives

LEMMA BackedStep ==
  ASSUME Uses \subseteq {"bind"}, CallsInv, CallsInv', BackedInv, [Next]_vars
  PROVE  BackedInv'
<1>1. CASE Next
  <2>1. PICK t \in Threads : Begins(t) \/ Bind(t) \/ Stores(t) \/ Loads(t) \/ Finishes(t) \/ Lives(t)
    BY <1>1, StepsSplit
  <2> QED
    BY <2>1, BeginBacked, BindBacked, StoreBacked, LoadBacked, FinishBacked, LivesBacked
<1>2. CASE UNCHANGED vars
  <2>1. UNCHANGED <<life, strong, exists, value, reg, given, sentinel, bound, call>>
    BY <1>2 DEF vars
  <2>2. /\ StrongLive' /\ Stored' /\ OneEnd' /\ Sentinels' /\ OursHaveSentinels'
        /\ GivenPresent' /\ OneSentinel'
    BY <2>1 DEF BackedInv, StrongLive, Stored, OneEnd, Sentinels, OursHaveSentinels,
       GivenPresent, OneSentinel, Present, Zeroing, At
  <2>3. (\A t \in Threads : Known(t)') /\ (\A x \in Slots : BackedAt(x)')
    BY <2>1 DEF BackedInv, Known, BackedAt, Taken, Loose, At
  <2> QED
    BY <2>2, <2>3 DEF BackedInv
<1> QED
  BY <1>1, <1>2

\* An object that either table has is not freed.
LEMMA PresentKept ==
  ASSUME BackedInv, NEW o, Present(o)
  PROVE  life[o] # "freed"
BY DEF BackedInv, OneEnd, Present, Zeroing, At, Dying

LEMMA BackedNoDangling ==
  ASSUME CallsInv, BackedInv
  PROVE  NoDangling
<1> SUFFICES ASSUME NEW x \in exists, value[x] # Nil, life[value[x]] = "freed", ~ Busy(x)
             PROVE  FALSE
  BY DEF NoDangling
<1>1. x \in Slots /\ Taken(x) /\ ~ Loose(x) /\ ~ \E t \in Threads : At(t, "write") /\ call[t].loc = x
  BY DEF CallsInv, TypeOK, Taken, Loose, Busy
<1>2. CASE reg[x].owner = "ours"
  <2>1. value[x] = reg[x].obj /\ reg[x].obj \in sentinel
    BY <1>1, <1>2 DEF BackedInv, BackedAt, OursHaveSentinels
  <2>2. Present(value[x])
    BY <2>1 DEF BackedInv, Sentinels
  <2> QED
    BY <2>2, PresentKept
<1>3. CASE reg[x].owner # "ours"
  <2>1. value[x] = given[x]
    BY <1>1, <1>3 DEF BackedInv, BackedAt
  <2>2. Present(value[x])
    BY <1>1, <2>1 DEF BackedInv, GivenPresent
  <2> QED
    BY <2>2, PresentKept
<1> QED
  BY <1>2, <1>3

LEMMA BackedOnlyItsOwn ==
  ASSUME CallsInv, BackedInv
  PROVE  ObjcOnlyItsOwn
<1> SUFFICES ASSUME NEW t \in Threads, call[t].at \in {"undo", "store", "unregister"}
             PROVE  value[call[t].loc] \in {Nil, given[call[t].loc]}
  BY DEF ObjcOnlyItsOwn
<1> DEFINE c == call[t]
           x == c.loc
<1>1. /\ c \in Calls /\ Formed(c) /\ Held(c) \subseteq Slots
      /\ \A y \in Held(c) : Word(c, y, TRUE, value[y], reg[y], given[y])
  BY HeldWords
<1>2. Stage(c) = c.at
  BY DEF Stage, Dying
<1>3. x \in Held(c) /\ c.then \notin {"copy", "move"}
  BY <1>1, <1>2 DEF Formed, Held, Loading
<1>4. ~ LooseFor(c, x)
  BY <1>3 DEF LooseFor, Rewriting
<1>5. reg[x].owner # "ours"
  BY DEF BackedInv, Known
<1> QED
  BY <1>1, <1>3, <1>4, <1>5 DEF Word

\* The step that clears the word of a live object is a call's on that slot.
LEMMA StepLiveStays ==
  ASSUME CallsInv, BackedInv, [Next]_vars
  PROVE  [\A x \in exists :
             value[x] # Nil /\ value'[x] = Nil /\ life[value[x]] = "live" =>
                 \E t \in Threads : call[t] # call'[t] /\ x \in {call[t].loc, call[t].from}]_vars
<1> SUFFICES ASSUME Next, NEW x \in exists, value[x] # Nil, value'[x] = Nil, life[value[x]] = "live"
             PROVE  \E t \in Threads : call[t] # call'[t] /\ x \in {call[t].loc, call[t].from}
  OBVIOUS
<1>0. x \in Slots
  BY DEF CallsInv, TypeOK
<1>1. PICK t \in Threads : Begins(t) \/ Bind(t) \/ Stores(t) \/ Loads(t) \/ Finishes(t) \/ Lives(t)
  BY StepsSplit
<1> DEFINE c == call[t]
<1>2. c \in Calls
  BY DEF CallsInv, TypeOK
<1>3. CASE Begins(t)
  <2>1. \/ value' = value
        \/ \E y \in Slots : y \notin exists /\ value' = [value EXCEPT ![y] = Nil]
    BY <1>3 DEF Begins, InitWeak, StoreWeak, LoadWeakRetained, DestroyWeak, CopyWeak, OnSlot, tables
  <2> QED
    BY <1>0, <2>1 DEF CallsInv, TypeOK
<1>4. CASE Bind(t)
  BY <1>4 DEF Bind, tables
<1>5. CASE Stores(t)
  <2>1. CASE Associate(t)
    <3>1. c.obj \notin sentinel
      BY <2>1 DEF Associate, BackedInv, OneSentinel
    <3> QED
      BY <2>1, <3>1 DEF Associate
  <2>2. CASE Clear(t) \/ RealStore(t)
    <3>1. c.at \in {"clear", "store", "init"} /\ \A y \in Slots : y # c.loc => value'[y] = value[y]
      BY <2>2 DEF Clear, RealStore, At, CallsInv, TypeOK
    <3>2. \E at \in {"store", "record", "look"} :
              call' = [call EXCEPT ![t] = [c EXCEPT !.at = at]] /\ (at # c.at \/ value' = value)
      BY <3>1, <2>2 DEF Clear, RealStore, Goto, At
    <3>3. PICK at \in {"store", "record", "look"} :
              call' = [call EXCEPT ![t] = [c EXCEPT !.at = at]] /\ (at # c.at \/ value' = value)
      BY <3>2
    <3>4. call'[t].at = at /\ at # c.at
      BY <1>2, <3>3 DEF CallsInv, TypeOK, Calls
    <3> QED
      BY <1>0, <3>1, <3>4
  <2>3. CASE Look(t) \/ Undo(t) \/ Attach(t) \/ RememberOurs(t) \/ Drop(t)
    BY <2>3 DEF Look, Undo, Attach, RememberOurs, Drop, tables
  <2> QED
    BY <1>5, <2>1, <2>2, <2>3 DEF Stores
<1>6. CASE Loads(t)
  <2>1. CASE value' = value
    BY <2>1
  <2>2. CASE value' # value
    <3>1. \E o \in Objects \cup {Nil} : Loaded(t, o)
      <4>1. CASE Read(t)
        BY <2>2, <4>1 DEF Read
      <4>2. CASE Retain(t)
        BY <1>2, <4>2 DEF Retain, Calls
      <4>3. CASE RealLoad(t)
        <5>1. c.loc \in Slots
          BY <1>2, <4>3 DEF CallsInv, Formed, RealLoad, At, Stage, Dying, Calls
        <5>2. value[c.loc] \in Objects \cup {Nil}
          BY <5>1 DEF CallsInv, TypeOK
        <5> QED
          BY <4>3, <5>2 DEF RealLoad
      <4> QED
        BY <1>6, <4>1, <4>2, <4>3 DEF Loads
    <3>2. PICK o \in Objects \cup {Nil} : Loaded(t, o)
      BY <3>1
    <3>3. \A y \in Slots : y # c.from => value'[y] = value[y]
      BY <2>2, <3>2 DEF Loaded, CallsInv, TypeOK
    <3>4. c.at \in Loading
      BY <1>6 DEF Loads, Read, Retain, RealLoad, At, Loading
    <3>5. PICK d \in Calls :
            /\ call' = [call EXCEPT ![t] = d]
            /\ d = Idle \/ (o # Nil /\ d = Copying(t, o)) \/ d = Ended(c.loc)
      BY <3>2, <3>4, LoadedCall
    <3>6. d.at \in {"idle", "end", "look"}
      <4>1. Idle.at = "idle" /\ Ended(c.loc).at = "end"
        BY DEF Idle, Ended
      <4>2. Copying(t, o).at = "look"
        BY <1>2, CopyingFields
      <4> QED
        BY <3>5, <4>1, <4>2
    <3>7. call'[t].at # c.at
      BY <3>4, <3>5, <3>6 DEF CallsInv, TypeOK, Loading
    <3> QED
      BY <1>0, <3>3, <3>7
  <2> QED
    BY <2>1, <2>2
<1>7. CASE Finishes(t)
  <2>1. CASE Write(t)
    <3>1. c.at = "write" /\ \A y \in Slots : y # c.loc => value'[y] = value[y]
      BY <2>1 DEF Write, At, CallsInv, TypeOK
    <3>2. PICK d \in Calls :
            /\ call' = [call EXCEPT ![t] = d]
            /\ d = Idle \/ d = Ended(c.from) \/ d = [c EXCEPT !.at = "release"]
      BY <2>1, <3>1, Returned DEF Write
    <3>3. d.at # "write"
      <4>1. Idle.at = "idle" /\ Ended(c.from).at = "end" /\ [c EXCEPT !.at = "release"].at = "release"
        BY <1>2 DEF Idle, Ended, Calls
      <4> QED
        BY <3>2, <4>1
    <3> QED
      BY <1>0, <3>1, <3>2, <3>3 DEF CallsInv, TypeOK
  <2>2. CASE Blank(t)
    <3>1. c.at = "blank" /\ \A y \in Slots : y # c.loc => value'[y] = value[y]
      BY <2>2 DEF Blank, At, CallsInv, TypeOK
    <3>2. call'[t] = Idle /\ Idle.at = "idle"
      BY <2>2 DEF Blank, CallsInv, TypeOK, Idle
    <3> QED
      BY <1>0, <3>1, <3>2
  <2>3. CASE Record(t) \/ End(t) \/ Unregister(t)
    BY <2>3 DEF Record, End, Unregister
  <2> QED
    BY <1>7, <2>1, <2>2, <2>3 DEF Finishes
<1>8. CASE Lives(t)
  <2>1. CASE Zero(t)
    <3> DEFINE o == c.obj
    <3>1. ZeroEffect(t, o)
      BY <2>1, ZeroSlots
    <3>2. life[o] = "dying"
      BY <2>1 DEF Zero, At, BackedInv, OneEnd, Dying
    <3>3. reg[x] = [obj |-> o, owner |-> "ours"]
      BY <1>0, <3>1, <3>2 DEF ZeroEffect
    <3>4. PICK u \in Threads : At(u, "write") /\ call[u].loc = x
      BY <1>0, <3>2, <3>3 DEF BackedInv, BackedAt
    <3>5. call[u].obj = o
      <4>1. reg[x] = [obj |-> call[u].obj, owner |-> "ours"]
        BY <3>4 DEF BackedInv, Known, At
      <4>2. reg[x].obj = o /\ reg[x].obj = call[u].obj
        BY <3>3, <4>1
      <4> QED
        BY <4>2
    <3>6. o \in strong[u]
      <4>1. Formed(call[u]) /\ Stage(call[u]) = "write"
        BY <3>4 DEF CallsInv, At, Stage, Dying
      <4>2. o # Nil
        BY <3>4, <3>5, <4>1, WeakConstants DEF Formed, At, Ours
      <4> QED
        BY <3>5, <4>1, <4>2 DEF BackedInv, Stored, Storing, Ours
    <3> QED
      BY <3>2, <3>6 DEF BackedInv, StrongLive
  <2>2. CASE (\E o \in Objects : Release(t, o)) \/ CopyRelease(t) \/ Dealloc(t)
    BY <2>2 DEF Release, CopyRelease, Drops, Dealloc, tables
  <2> QED
    BY <1>8, <2>1, <2>2 DEF Lives
<1> QED
  BY <1>1, <1>3, <1>4, <1>5, <1>6, <1>7, <1>8

\* What the calls keep, and what backs the slots' words, in every state.
LEMMA Backed ==
  ASSUME Uses \subseteq {"bind"}
  PROVE  Spec => [](CallsInv /\ BackedInv)
<1>1. "share" \notin Uses
  OBVIOUS
<1>2. Init => CallsInv /\ BackedInv
  BY InitCalls, InitBacked
<1>3. CallsInv /\ BackedInv /\ [Next]_vars => (CallsInv /\ BackedInv)'
  BY <1>1, CallsStep, BackedStep
<1> QED
  BY <1>2, <1>3, PTL DEF Spec

(***************************************************************************)
(* The slots are cleared before the memory is reused: where no load races  *)
(* an object's end, no two threads form an object's first weak reference   *)
(* or are in calls on one slot, and malloc succeeds, no weak variable that *)
(* no call is on holds an object whose memory is gone, for any threads,    *)
(* slots and objects and however the lookup of objc's functions goes.      *)
(***************************************************************************)
THEOREM SlotsClearedFirst ==
  ASSUME Uses \subseteq {"bind"}
  PROVE  Spec => []NoDangling
<1>1. CallsInv /\ BackedInv => NoDangling
  BY BackedNoDangling
<1> QED
  BY <1>1, Backed, PTL

(***************************************************************************)
(* objc's own table has what the slot holds whenever objc is asked to take *)
(* it back, so that it never faults on a slot it was not given.            *)
(***************************************************************************)
THEOREM ObjcNeverFaults ==
  ASSUME Uses \subseteq {"bind"}
  PROVE  Spec => []ObjcOnlyItsOwn
<1>1. CallsInv /\ BackedInv => ObjcOnlyItsOwn
  BY BackedOnlyItsOwn
<1> QED
  BY <1>1, Backed, PTL

(***************************************************************************)
(* No destruction of another object, no other slot's call and no lookup    *)
(* takes a live object's weak reference away.                              *)
(***************************************************************************)
THEOREM LiveReferencesStay ==
  ASSUME Uses \subseteq {"bind"}
  PROVE  Spec => LiveStays
<1>1. CallsInv /\ BackedInv /\ [Next]_vars =>
          [\A x \in exists :
             value[x] # Nil /\ value'[x] = Nil /\ life[value[x]] = "live" =>
                 \E t \in Threads : call[t] # call'[t] /\ x \in {call[t].loc, call[t].from}]_vars
  BY StepLiveStays
<1> QED
  BY <1>1, Backed, PTL DEF Spec, LiveStays

-----------------------------------------------------------------------------
(***************************************************************************)
(* What is left of a slot                                                  *)
(***************************************************************************)
\* The functions are looked up by one thread, and by the time a call goes on the
\* last of them, objc_destroyWeak, has been found.
Left(l, found) == /\ Len(l) <= 4
                  /\ Len(l) = 0 => "destroy" \in found
                  /\ Len(l) # 0 => l[Len(l)] = "destroy"
Looking == /\ \A t, u \in Threads : At(t, "bind") /\ At(u, "bind") => t = u
           /\ \A t \in Threads : At(t, "bind") => Left(call[t].left, bound)
           /\ "store" \in bound =>
                 "destroy" \in bound \/ \E t \in Threads : At(t, "bind") /\ Len(call[t].left) < 4
           /\ \A t \in Threads : ~ At(t, "bind") /\ Stage(call[t]) # "idle" =>
                 "destroy" \in bound

\* objc has a slot that the registry says it has, or one that a call on it is
\* about to record or to take back.
GivenRecorded ==
    \A x \in Slots : given[x] # Nil =>
        \/ reg[x].owner = "objc"
        \/ \E t \in Threads : call[t].loc = x /\ call[t].at \in {"record", "unregister"}

\* What each step of a call knows of the tables.
Cleared == {"attach", "associate", "remember", "write", "blank"}
Tracing(c, r, g) ==
    /\ c.at \in Cleared => g = Nil
    /\ c.at = "record" => g \in {Nil, c.obj}
    /\ c.at \in {"unregister", "blank"} => r = Unknown
Traced == \A t \in Threads : call[t].loc # Nil =>
              Tracing(call[t], reg[call[t].loc], given[call[t].loc])

Untraced == \A x \in Slots \ exists : ~ Busy(x) => reg[x] = Unknown /\ given[x] = Nil

TracesInv == Looking /\ GivenRecorded /\ Traced /\ Untraced

\* The same of one slot, for the call that may be on it.
Trace(c, x, there, r, g) ==
    /\ g # Nil => r.owner = "objc" \/ (c.loc = x /\ c.at \in {"record", "unregister"})
    /\ c.loc = x => Tracing(c, r, g)
    /\ ~ there => r = Unknown /\ g = Nil

LEMMA InitTraces == Init => TracesInv
<1> SUFFICES ASSUME Init PROVE TracesInv
  OBVIOUS
<1>1. \A t \in Threads : /\ call[t] = Idle /\ Stage(call[t]) = "idle" /\ call[t].at = "idle"
                         /\ call[t].loc = Nil
  BY DEF Init, Idle, Stage, Dying
<1> QED
  BY <1>1 DEF Init, TracesInv, Looking, At, GivenRecorded, Traced, Untraced, Unknown

\* A slot that no other thread is on.
LEMMA TraceOf ==
  ASSUME CallsInv, TracesInv, NEW x \in Slots, NEW t \in Threads,
         \A u \in Threads \ {t} : x \notin Held(call[u])
  PROVE  Trace(call[t], x, x \in exists \/ x \in Held(call[t]), reg[x], given[x])
<1>1. x # Nil /\ \A u \in Threads \ {t} : call[u].loc # x /\ call[u].from # x
  BY WeakConstants DEF Held
<1>2. ~ (x \in exists \/ x \in Held(call[t])) => reg[x] = Unknown /\ given[x] = Nil
  <2>1. x \notin Held(call[t]) => ~ Busy(x)
    BY <1>1 DEF Busy, Held
  <2> QED
    BY <2>1 DEF TracesInv, Untraced
<1>3. given[x] # Nil =>
          reg[x].owner = "objc" \/ (call[t].loc = x /\ call[t].at \in {"record", "unregister"})
  BY <1>1 DEF TracesInv, GivenRecorded
<1>4. call[t].loc = x => Tracing(call[t], reg[x], given[x])
  BY <1>1 DEF TracesInv, Traced
<1> QED
  BY <1>2, <1>3, <1>4 DEF Trace

\* A slot keeps what is in the tables, or loses it.
Lessened(x) == /\ \/ reg'[x] = reg[x]
                  \/ reg[x].owner = "ours" /\ reg'[x] = Unknown
               /\ given'[x] \in {given[x], Nil}

\* A thread's step on the slots X that no other thread is on.
LEMMA TracesStep ==
  ASSUME CallsInv, TracesInv, NEW t \in Threads, NEW d \in Calls,
         call' = [call EXCEPT ![t] = d], NEW X \in SUBSET Slots,
         Held(call[t]) \cup Held(d) \subseteq X, d.loc # Nil => d.loc \in X,
         \A u \in Threads \ {t} : Held(call[u]) \cap X = {},
         \A x \in Slots \ X : Lessened(x) /\ (x \in exists' <=> x \in exists),
         \A x \in X : Trace(d, x, x \in exists' \/ x \in Held(d), reg'[x], given'[x])
  PROVE  GivenRecorded' /\ Traced' /\ Untraced'
<1>1. call'[t] = d /\ \A u \in Threads \ {t} : call'[u] = call[u]
  BY DEF CallsInv, TypeOK
<1>2. \A x \in Slots \ X : call[t].loc # x /\ call[t].from # x /\ d.loc # x /\ d.from # x
  BY WeakConstants DEF Held
<1>3. ASSUME NEW x \in Slots, given'[x] # Nil
      PROVE  \/ reg'[x].owner = "objc"
             \/ \E u \in Threads : call'[u].loc = x /\ call'[u].at \in {"record", "unregister"}
  <2>1. CASE x \in X
    BY <1>1, <1>3, <2>1 DEF Trace
  <2>2. CASE x \notin X
    <3>1. given[x] # Nil /\ Lessened(x)
      BY <1>3, <2>2 DEF Lessened
    <3>2. \/ reg[x].owner = "objc"
          \/ \E u \in Threads : call[u].loc = x /\ call[u].at \in {"record", "unregister"}
      BY <3>1 DEF TracesInv, GivenRecorded
    <3>3. reg[x].owner = "objc" => reg'[x].owner = "objc"
      BY <3>1 DEF Lessened
    <3> QED
      BY <1>1, <1>2, <2>2, <3>2, <3>3
  <2> QED
    BY <2>1, <2>2
<1>4. ASSUME NEW u \in Threads, call'[u].loc # Nil
      PROVE  Tracing(call'[u], reg'[call'[u].loc], given'[call'[u].loc])
  <2>1. CASE u = t
    BY <1>1, <1>4, <2>1 DEF Trace
  <2>2. CASE u # t
    <3> DEFINE x == call[u].loc
    <3>1. call'[u] = call[u] /\ x # Nil /\ call[u] \in Calls
      BY <1>1, <1>4, <2>2 DEF CallsInv, TypeOK
    <3>2. x \in Slots \ X
      BY <2>2, <3>1 DEF Held, Calls
    <3>3. Tracing(call[u], reg[x], given[x]) /\ Lessened(x)
      BY <3>1, <3>2 DEF TracesInv, Traced
    <3>4. Tracing(call[u], reg'[x], given'[x])
      BY <3>3 DEF Tracing, Lessened
    <3> QED
      BY <3>1, <3>4
  <2> QED
    BY <2>1, <2>2
<1>5. ASSUME NEW x \in Slots \ exists', ~ Busy(x)'
      PROVE  reg'[x] = Unknown /\ given'[x] = Nil
  <2>1. \A u \in Threads : call'[u].loc # x /\ call'[u].from # x
    BY <1>5 DEF Busy
  <2>2. CASE x \in X
    BY <1>1, <1>5, <2>1, <2>2 DEF Trace, Held
  <2>3. CASE x \notin X
    <3>1. ~ Busy(x)
      BY <1>1, <1>2, <2>1, <2>3 DEF Busy
    <3>2. Lessened(x) /\ x \in Slots \ exists
      BY <1>5, <2>3
    <3> QED
      BY <3>1, <3>2 DEF TracesInv, Untraced, Lessened
  <2> QED
    BY <2>2, <2>3
<1> QED
  BY <1>3, <1>4, <1>5 DEF GivenRecorded, Traced, Untraced

\* A call that goes on past the lookup.
Onward(t, d) ==
    /\ call' = [call EXCEPT ![t] = d] /\ d \in Calls
    /\ Held(d) \subseteq Held(call[t])
    /\ call[t].at # "bind" /\ d.at # "bind"
    /\ Stage(d) = "idle" \/ Stage(call[t]) # "idle"
    /\ UNCHANGED <<bound, exists>>

LEMMA OnwardLooking ==
  ASSUME CallsInv, Looking, NEW t \in Threads, NEW d, Onward(t, d)
  PROVE  Looking'
<1>1. call'[t] = d /\ \A u \in Threads \ {t} : call'[u] = call[u]
  BY DEF CallsInv, TypeOK, Onward
<1>2. \A u \in Threads : /\ At(u, "bind")' <=> At(u, "bind")
                         /\ At(u, "bind") => call'[u] = call[u]
  BY <1>1 DEF Onward, At
<1>3. bound' = bound
  BY DEF Onward
<1>4. \A u \in Threads : ~ At(u, "bind")' /\ Stage(call'[u]) # "idle" => "destroy" \in bound'
  BY <1>1, <1>2, <1>3 DEF Onward, Looking, At
<1> QED
  BY <1>2, <1>3, <1>4 DEF Looking

\* A call's slots, before its step.
LEMMA HeldTraces ==
  ASSUME CallsInv, TracesInv, NEW t \in Threads
  PROVE  /\ call[t] \in Calls /\ Formed(call[t]) /\ Held(call[t]) \subseteq Slots
         /\ \A u \in Threads \ {t} : Held(call[u]) \cap Held(call[t]) = {}
         /\ \A x \in Held(call[t]) : /\ Trace(call[t], x, TRUE, reg[x], given[x])
                                     /\ x \in exists \/ x \in Leaving(call[t])
         /\ ~ At(t, "bind") /\ Stage(call[t]) # "idle" => "destroy" \in bound
<1> DEFINE c == call[t]
<1>1. c \in Calls /\ Formed(c) /\ Held(c) \subseteq Slots
  BY DEF CallsInv, TypeOK, Calls, Held
<1>2. \A u \in Threads \ {t} : Held(call[u]) \cap Held(c) = {}
  BY DEF CallsInv, Separate
<1>3. ASSUME NEW x \in Held(c) PROVE Trace(c, x, TRUE, reg[x], given[x])
  <2>1. Trace(c, x, x \in exists \/ x \in Held(c), reg[x], given[x])
    BY <1>1, <1>2, <1>3, TraceOf
  <2> QED
    BY <1>3, <2>1 DEF Trace
<1>4. \A x \in Held(c) : x \in exists \/ x \in Leaving(c)
  BY DEF CallsInv, Kept
<1> QED
  BY <1>1, <1>2, <1>3, <1>4 DEF TracesInv, Looking

\* A step on no more than the slot of the call ...
LEMMA LocTraces ==
  ASSUME CallsInv, TracesInv, NEW t \in Threads, NEW d, Onward(t, d),
         call[t].loc \in Slots,
         \A x \in Slots : x # call[t].loc => Lessened(x),
         d.at \in Cleared \cup {"record", "unregister"} => d.loc = call[t].loc,
         Leaving(call[t]) \subseteq Held(d) \cup {call[t].loc},
         Trace(d, call[t].loc, call[t].loc \in exists \/ call[t].loc \in Held(d),
               reg'[call[t].loc], given'[call[t].loc])
  PROVE  TracesInv'
<1> DEFINE c == call[t]
<1>1. /\ c \in Calls /\ Held(c) \subseteq Slots
      /\ \A u \in Threads \ {t} : Held(call[u]) \cap Held(c) = {}
      /\ \A x \in Held(c) : /\ Trace(c, x, TRUE, reg[x], given[x])
                            /\ x \in exists \/ x \in Leaving(c)
  BY HeldTraces
<1>2. /\ call' = [call EXCEPT ![t] = d] /\ d \in Calls /\ Held(d) \subseteq Held(c)
      /\ exists' = exists
  BY DEF Onward
<1>3. ASSUME NEW x \in Held(c), x # c.loc
      PROVE  Trace(d, x, x \in exists' \/ x \in Held(d), reg'[x], given'[x])
  <2>1. x \in exists' \/ x \in Held(d)
    BY <1>1, <1>2, <1>3
  <2>2. Lessened(x) /\ Trace(c, x, TRUE, reg[x], given[x])
    BY <1>1, <1>3
  <2>3. given'[x] # Nil => reg'[x].owner = "objc"
    BY <1>3, <2>2 DEF Trace, Lessened
  <2>4. d.loc = x => Tracing(d, reg'[x], given'[x])
    BY <1>3 DEF Tracing, Cleared
  <2> QED
    BY <2>1, <2>3, <2>4 DEF Trace
<1>4. \A x \in Held(c) : Trace(d, x, x \in exists' \/ x \in Held(d), reg'[x], given'[x])
  BY <1>2, <1>3
<1>5. d.loc # Nil => d.loc \in Held(c)
  BY <1>2 DEF Held
<1>6. \A x \in Slots \ Held(c) : Lessened(x) /\ (x \in exists' <=> x \in exists)
  BY <1>2, WeakConstants DEF Held
<1>7. GivenRecorded' /\ Traced' /\ Untraced'
  <2>1. Held(c) \cup Held(d) \subseteq Held(c) /\ Held(c) \in SUBSET Slots
    BY <1>1, <1>2
  <2> QED
    BY <1>1, <1>2, <1>4, <1>5, <1>6, <2>1, TracesStep
<1> QED
  BY <1>7, OnwardLooking DEF TracesInv

\* ... and one that leaves the tables as they are, or less.
LEMMA QuietTraces ==
  ASSUME CallsInv, TracesInv, NEW t \in Threads, NEW d, Onward(t, d),
         call[t].at \notin {"record", "unregister"},
         d.at \notin Cleared \cup {"record", "unregister"},
         \A x \in Slots : Lessened(x), Leaving(call[t]) \subseteq Held(d)
  PROVE  TracesInv'
<1> DEFINE c == call[t]
<1>1. /\ c \in Calls /\ Held(c) \subseteq Slots
      /\ \A u \in Threads \ {t} : Held(call[u]) \cap Held(c) = {}
      /\ \A x \in Held(c) : /\ Trace(c, x, TRUE, reg[x], given[x])
                            /\ x \in exists \/ x \in Leaving(c)
  BY HeldTraces
<1>2. /\ call' = [call EXCEPT ![t] = d] /\ d \in Calls /\ Held(d) \subseteq Held(c)
      /\ exists' = exists
  BY DEF Onward
<1>3. ASSUME NEW x \in Held(c)
      PROVE  Trace(d, x, x \in exists' \/ x \in Held(d), reg'[x], given'[x])
  <2>1. x \in exists' \/ x \in Held(d)
    BY <1>1, <1>2, <1>3
  <2>2. Lessened(x) /\ Trace(c, x, TRUE, reg[x], given[x])
    BY <1>1, <1>3
  <2>3. given'[x] # Nil => reg'[x].owner = "objc"
    BY <2>2 DEF Trace, Lessened
  <2>4. Tracing(d, reg'[x], given'[x])
    BY DEF Tracing, Cleared
  <2> QED
    BY <2>1, <2>3, <2>4 DEF Trace
<1>4. d.loc # Nil => d.loc \in Held(c)
  BY <1>2 DEF Held
<1>5. \A x \in Slots \ Held(c) : Lessened(x) /\ (x \in exists' <=> x \in exists)
  BY <1>2
<1>6. GivenRecorded' /\ Traced' /\ Untraced'
  <2>1. Held(c) \cup Held(d) \subseteq Held(c) /\ Held(c) \in SUBSET Slots
    BY <1>1, <1>2
  <2> QED
    BY <1>1, <1>2, <1>3, <1>4, <1>5, <2>1, TracesStep
<1> QED
  BY <1>6, OnwardLooking DEF TracesInv

\* A store's step: it goes on on its slots.
LEMMA StoreOnward ==
  ASSUME CallsInv, NEW t \in Threads, NEW at \in Storing, call[t].at \in Storing,
         call' = [call EXCEPT ![t] = [call[t] EXCEPT !.at = at]], UNCHANGED <<bound, exists>>
  PROVE  LET d == [call[t] EXCEPT !.at = at] IN
         /\ Onward(t, d) /\ d.at = at /\ d.loc = call[t].loc /\ d.obj = call[t].obj
         /\ Held(d) = Held(call[t]) /\ Leaving(call[t]) \subseteq Held(d)
         /\ call[t].loc \in Slots /\ call[t].loc \in Held(call[t])
         /\ Stage(call[t]) = call[t].at /\ call[t].at \notin {"idle", "bind"}
<1> DEFINE c == call[t]
           d == [c EXCEPT !.at = at]
<1>1. c \in Calls /\ Formed(c) /\ Stage(c) = c.at /\ c.at \notin {"idle", "bind"} /\ at # "bind"
  BY StoringStages DEF CallsInv, TypeOK, Stage
<1>2. /\ d \in Calls /\ d.at = at /\ d.loc = c.loc /\ d.from = c.from /\ d.obj = c.obj
  BY <1>1 DEF Calls, Points
<1>3. Held(d) = Held(c) /\ Leaving(c) \subseteq Held(d)
  BY <1>1, <1>2, LeavingHeld DEF Held
<1>4. c.loc \in Slots /\ c.loc \in Held(c)
  BY <1>1, WeakConstants DEF Formed, Held, Calls
<1> QED
  BY <1>1, <1>2, <1>3, <1>4 DEF Onward

LEMMA StoreTraces ==
  ASSUME "nomem" \notin Uses, CallsInv, TracesInv, NEW t \in Threads, Stores(t)
  PROVE  TracesInv'
<1> DEFINE c == call[t]
           x == c.loc
<1>1. c.at \in Storing /\ UNCHANGED <<bound, exists>>
  BY DEF Stores, Look, Undo, Attach, Associate, RememberOurs, Drop, Clear, RealStore, At, Storing,
     Ours, Theirs
<1>2. /\ x \in Slots /\ Trace(c, x, TRUE, reg[x], given[x])
      /\ "destroy" \in bound
  <2>1. x \in Slots /\ x \in Held(c) /\ ~ At(t, "bind") /\ Stage(c) # "idle"
    <3>1. c \in Calls /\ Formed(c) /\ Stage(c) = c.at /\ c.at \notin {"idle", "bind"}
      BY <1>1, StoringStages DEF CallsInv, TypeOK, Stage
    <3> QED
      BY <3>1, WeakConstants DEF Formed, Held, Calls, At
  <2> QED
    BY <2>1, HeldTraces
<1>3. ASSUME NEW at \in Storing, call' = [call EXCEPT ![t] = [c EXCEPT !.at = at]],
             \A y \in Slots : y # x => Lessened(y),
             given'[x] # Nil => reg'[x].owner = "objc" \/ at = "record",
             at \in Cleared => given'[x] = Nil,
             at = "record" => given'[x] \in {Nil, c.obj}
      PROVE  TracesInv'
  <2> DEFINE d == [c EXCEPT !.at = at]
  <2>1. /\ Onward(t, d) /\ d.at = at /\ d.loc = x /\ d.obj = c.obj
        /\ Held(d) = Held(c) /\ Leaving(c) \subseteq Held(d) /\ x \in Held(c)
    BY <1>1, <1>3, StoreOnward
  <2> HIDE DEF d
  <2>2. Tracing(d, reg'[x], given'[x])
    BY <1>3, <2>1, StoringStages DEF Tracing, Ending
  <2>3. Trace(d, x, x \in exists \/ x \in Held(d), reg'[x], given'[x])
    BY <1>3, <2>1, <2>2 DEF Trace
  <2> QED
    BY <1>2, <1>3, <2>1, <2>3, LocTraces
<1>4. CASE UNCHANGED <<reg, given>> /\ c.at \notin Cleared \cup {"record"}
             /\ \E at \in {"attach", "undo", "drop", "store", "look"} :
                    /\ call' = [call EXCEPT ![t] = [c EXCEPT !.at = at]]
                    /\ at = "attach" => reg[x].owner # "objc"
  <2>1. PICK at \in {"attach", "undo", "drop", "store", "look"} :
                    /\ call' = [call EXCEPT ![t] = [c EXCEPT !.at = at]]
                    /\ at = "attach" => reg[x].owner # "objc"
    BY <1>4
  <2>2. at \in Storing
    BY DEF Storing, Ours, Theirs
  <2>3. \A y \in Slots : Lessened(y)
    BY <1>4 DEF Lessened
  <2>4. given[x] # Nil => reg[x].owner = "objc"
    BY <1>1, <1>2, <1>4, StoringStages DEF Trace, Ending
  <2> QED
    BY <1>3, <1>4, <2>1, <2>2, <2>3, <2>4 DEF Cleared
<1>5. CASE Look(t)
  <2>1. At(t, "look") /\ UNCHANGED <<reg, given>>
    BY <1>5 DEF Look, tables
  <2>2. \E at \in {"attach", "undo", "drop", "store", "look"} :
                    /\ call' = [call EXCEPT ![t] = [c EXCEPT !.at = at]]
                    /\ at = "attach" => reg[x].owner # "objc"
    BY <1>2, <1>5 DEF Look, Goto
  <2> QED
    BY <1>4, <2>1, <2>2 DEF At, Cleared
<1>6. CASE Undo(t)
  <2>1. /\ call' = [call EXCEPT ![t] = [c EXCEPT !.at = "attach"]] /\ reg' = reg
        /\ given' = [given EXCEPT ![x] = Nil]
    BY <1>6 DEF Undo, Goto
  <2>2. given'[x] = Nil /\ \A y \in Slots : Lessened(y)
    BY <1>2, <2>1 DEF Lessened, CallsInv, TypeOK
  <2>3. "attach" \in Storing
    BY DEF Storing, Ours
  <2> QED
    BY <1>3, <2>1, <2>2, <2>3
<1>7. CASE Attach(t)
  <2>1. At(t, "attach") /\ UNCHANGED <<reg, given>>
    BY <1>7 DEF Attach, tables
  <2>2. PICK at \in {"remember", "associate"} : call' = [call EXCEPT ![t] = [c EXCEPT !.at = at]]
    BY <1>7 DEF Attach, Goto
  <2>3. given'[x] = Nil /\ \A y \in Slots : Lessened(y)
    BY <1>2, <2>1 DEF Trace, Tracing, Cleared, At, Lessened
  <2>4. at \in Storing
    BY DEF Storing, Ours
  <2> QED
    BY <1>3, <2>2, <2>3, <2>4
<1>8. CASE Associate(t)
  <2>1. /\ At(t, "associate") /\ given' = given
        /\ call' = [call EXCEPT ![t] = [c EXCEPT !.at = "remember"]]
    BY <1>8 DEF Associate, Goto
  <2>2. \A y \in Slots : Lessened(y)
    BY <1>8, <2>1 DEF Associate, ZeroFor, Named, Lessened
  <2>3. given'[x] = Nil
    BY <1>2, <2>1 DEF Trace, Tracing, Cleared, At
  <2>4. "remember" \in Storing
    BY DEF Storing, Ours
  <2> QED
    BY <1>3, <2>1, <2>2, <2>3, <2>4
<1>9. CASE RememberOurs(t)
  <2>1. /\ At(t, "remember") /\ given' = given
        /\ call' = [call EXCEPT ![t] = [c EXCEPT !.at = "write"]]
    BY <1>9 DEF RememberOurs, Goto
  <2>2. \A y \in Slots : y # x => Lessened(y)
    BY <1>9, <2>1 DEF RememberOurs, Remember, Lessened, CallsInv, TypeOK
  <2>3. given'[x] = Nil
    BY <1>2, <2>1 DEF Trace, Tracing, Cleared, At
  <2>4. "write" \in Storing
    BY DEF Storing, Ours
  <2> QED
    BY <1>3, <2>1, <2>2, <2>3, <2>4
<1>10. CASE Drop(t)
  <2>1. At(t, "drop") /\ given' = given
    BY <1>10 DEF Drop
  <2>2. given[x] # Nil => reg[x].owner = "objc"
    BY <1>2, <2>1 DEF Trace, At
  <2>3. CASE reg[x].owner = "ours"
    <3>1. /\ reg' = [reg EXCEPT ![x] = Unknown]
          /\ call' = [call EXCEPT ![t] = [c EXCEPT !.at = "clear"]]
      BY <1>10, <2>3 DEF Drop, Forget, Goto
    <3>2. given'[x] = Nil /\ \A y \in Slots : Lessened(y)
      BY <1>2, <2>1, <2>2, <2>3, <3>1 DEF Lessened, CallsInv, TypeOK
    <3>3. "clear" \in Storing
      BY DEF Storing, Theirs
    <3> QED
      BY <1>3, <3>1, <3>2, <3>3
  <2>4. CASE reg[x].owner # "ours"
    <3>1. reg' = reg /\ call' = [call EXCEPT ![t] = [c EXCEPT !.at = "store"]]
      BY <1>10, <2>4 DEF Drop, Goto
    <3> QED
      BY <1>4, <2>1, <3>1 DEF At, Cleared
  <2> QED
    BY <2>3, <2>4
<1>11. CASE Clear(t)
  <2>1. /\ At(t, "clear") /\ UNCHANGED <<reg, given>>
        /\ call' = [call EXCEPT ![t] = [c EXCEPT !.at = "store"]]
    BY <1>11 DEF Clear, Goto
  <2> QED
    BY <1>4, <2>1 DEF At, Cleared
<1>12. CASE RealStore(t)
  <2>1. c.at \in {"store", "init"} /\ reg' = reg
    BY <1>12 DEF RealStore
  <2>2. CASE c.at \in bound
    <3>1. /\ call' = [call EXCEPT ![t] = [c EXCEPT !.at = "record"]]
          /\ given' = [given EXCEPT ![x] = c.obj]
      BY <1>12, <2>2 DEF RealStore, Goto
    <3>2. given'[x] = c.obj /\ \A y \in Slots : y # x => Lessened(y)
      BY <1>2, <2>1, <3>1 DEF Lessened, CallsInv, TypeOK
    <3>3. "record" \in Storing /\ "record" \notin Cleared
      BY DEF Storing, Theirs, Cleared
    <3> QED
      BY <1>3, <3>1, <3>2, <3>3
  <2>3. CASE c.at \notin bound
    <3>1. given' = given /\ call' = [call EXCEPT ![t] = [c EXCEPT !.at = "look"]]
      BY <1>12, <2>3 DEF RealStore, Goto
    <3> QED
      BY <1>4, <2>1, <3>1 DEF Cleared
  <2> QED
    BY <2>2, <2>3
<1> QED
  BY <1>5, <1>6, <1>7, <1>8, <1>9, <1>10, <1>11, <1>12 DEF Stores

\* A call that is on no slot goes on on none.
LEMMA PassesOnward ==
  ASSUME CallsInv, NEW t \in Threads, NEW d \in Calls, Passes(call[t], d),
         call' = [call EXCEPT ![t] = d], call[t].at # "bind", d.at # "bind",
         UNCHANGED <<bound, exists>>
  PROVE  Onward(t, d)
<1> DEFINE c == call[t]
<1>1. c \in Calls /\ Formed(c)
  BY DEF CallsInv, TypeOK
<1>2. ASSUME Stage(c) = "idle" PROVE Stage(d) = "idle"
  <2>1. c.loc = Nil /\ c.then = "none"
    BY <1>1, <1>2, StoringStages DEF Formed, Calls, Stage, Loading, Dying
  <2>2. Held(c) = {}
    BY <1>1, <2>1 DEF Formed, Held
  <2>3. d.loc = Nil
    BY <2>2 DEF Passes, Held
  <2> QED
    BY <2>3 DEF Passes, Formed
<1> QED
  BY <1>2 DEF Onward, Passes

LEMMA LoadTraces ==
  ASSUME CallsInv, TracesInv, NEW t \in Threads, Loads(t)
  PROVE  TracesInv'
<1> DEFINE c == call[t]
<1>1. /\ c \in Calls /\ Formed(c) /\ c.at \in Loading /\ Stage(c) = c.at /\ c.loc \in Slots
      /\ UNCHANGED <<bound, exists, reg, given>>
  <2>1. c \in Calls /\ Formed(c) /\ c.at \in Loading /\ Stage(c) = c.at
    BY DEF CallsInv, TypeOK, Loads, Read, Retain, RealLoad, At, Loading, Stage, Dying
  <2> QED
    BY <2>1 DEF Formed, Calls, Loading, Loads, Read, Retain, RealLoad
<1>2. \A x \in Slots : Lessened(x)
  BY <1>1 DEF Lessened
<1>3. c.at \notin {"record", "unregister", "bind"}
  BY <1>1 DEF Loading
<1>4. Leaving(c) \subseteq Held(c)
  BY <1>1, LeavingHeld
<1>5. ASSUME NEW o \in Objects \cup {Nil}, Loaded(t, o) PROVE TracesInv'
  <2>1. PICK d \in Calls :
            /\ call' = [call EXCEPT ![t] = d] /\ Passes(c, d)
            /\ \/ c.then # "move" /\ d = Idle
               \/ c.then # "none" /\ o # Nil /\ d = Copying(t, o)
               \/ c.then = "move" /\ o = Nil /\ d = Ended(c.loc)
    BY <1>1, <1>5, LoadedCall
  <2>2. d.at \in {"idle", "look", "end"} /\ Leaving(c) \subseteq Held(d)
    <3>1. CASE c.then # "move" /\ d = Idle
      <4>1. c.then # "moved" /\ Stage(c) \notin Ending
        BY <1>1 DEF Formed, Loading, Ending, Storing, Ours, Theirs
      <4>2. Leaving(c) = {}
        BY <3>1, <4>1 DEF Leaving
      <4> QED
        BY <3>1, <4>2 DEF Idle
    <3>2. CASE d = Copying(t, o)
      <4>1. d.at = "look" /\ d.loc = c.from /\ d.from = c.loc
        BY <1>1, <3>2, CopyingFields
      <4> QED
        BY <1>4, <4>1 DEF Held
    <3>3. CASE c.then = "move" /\ d = Ended(c.loc)
      <4>1. d.at = "end" /\ d.loc = c.loc
        BY <3>3 DEF Ended, Idle
      <4>2. Leaving(c) = {c.loc}
        BY <3>3 DEF Leaving
      <4> QED
        BY <1>1, <4>1, <4>2, WeakConstants DEF Held
    <3> QED
      BY <2>1, <3>1, <3>2, <3>3
  <2>3. Onward(t, d)
    BY <1>1, <1>3, <2>1, <2>2, PassesOnward
  <2> QED
    BY <1>2, <1>3, <2>2, <2>3, QuietTraces DEF Cleared
<1>6. ASSUME NEW at \in {"load", "retain"}, NEW o \in Objects \cup {Nil},
             call' = [call EXCEPT ![t] = [c EXCEPT !.at = at, !.obj = o]]
      PROVE  TracesInv'
  <2> DEFINE d == [c EXCEPT !.at = at, !.obj = o]
  <2>1. d \in Calls /\ d.at = at /\ d.loc = c.loc /\ d.from = c.from
    BY <1>1 DEF Calls, Points, Loading
  <2> HIDE DEF d
  <2>2. Held(d) = Held(c) /\ call' = [call EXCEPT ![t] = d]
    BY <1>6, <2>1 DEF Held, d
  <2>3. Onward(t, d)
    BY <1>1, <1>3, <2>1, <2>2 DEF Onward, Loading
  <2> QED
    BY <1>2, <1>3, <1>4, <2>1, <2>2, <2>3, QuietTraces DEF Cleared
<1>7. CASE Read(t)
  <2>1. CASE reg[c.loc].owner # "ours"
    <3>1. call' = [call EXCEPT ![t] = [c EXCEPT !.at = "load", !.obj = c.obj]]
      BY <1>1, <1>7, <2>1 DEF Read, Goto, Calls
    <3>2. c.obj \in Objects \cup {Nil}
      BY <1>1 DEF Calls
    <3> QED
      BY <1>6, <3>1, <3>2
  <2>2. CASE reg[c.loc].owner = "ours" /\ value[c.loc] = Nil
    BY <1>5, <1>7, <2>2 DEF Read
  <2>3. CASE reg[c.loc].owner = "ours" /\ value[c.loc] # Nil
    <3>1. call' = [call EXCEPT ![t] = [c EXCEPT !.at = "retain", !.obj = value[c.loc]]]
      BY <1>1, <1>7, <2>3 DEF Read, CallsInv, TypeOK
    <3>2. value[c.loc] \in Objects \cup {Nil}
      BY <1>1 DEF CallsInv, TypeOK
    <3> QED
      BY <1>6, <3>1, <3>2
  <2> QED
    BY <2>1, <2>2, <2>3
<1>8. CASE Retain(t)
  BY <1>1, <1>5, <1>8 DEF Retain, Calls
<1>9. CASE RealLoad(t)
  <2>1. value[c.loc] \in Objects \cup {Nil}
    BY <1>1 DEF CallsInv, TypeOK
  <2> QED
    BY <1>5, <1>9, <2>1 DEF RealLoad
<1> QED
  BY <1>7, <1>8, <1>9 DEF Loads

LEMMA FinishTraces ==
  ASSUME "nomem" \notin Uses, CallsInv, TracesInv, NEW t \in Threads, Finishes(t)
  PROVE  TracesInv'
<1> DEFINE c == call[t]
           x == c.loc
<1>1. /\ c.at \in {"write", "record", "end", "unregister", "blank"} /\ UNCHANGED <<bound, exists>>
      /\ c \in Calls /\ Formed(c) /\ Stage(c) = c.at
  BY DEF Finishes, Write, Record, End, Unregister, Blank, At, CallsInv, TypeOK, Stage, Dying
<1>2. /\ x \in Slots /\ x \in Held(c) /\ Trace(c, x, TRUE, reg[x], given[x])
      /\ "destroy" \in bound
  <2>1. x \in Slots /\ x \in Held(c) /\ ~ At(t, "bind") /\ Stage(c) # "idle"
    BY <1>1, WeakConstants DEF Formed, Held, Calls, At
  <2> QED
    BY <2>1, HeldTraces
<1>3. Leaving(c) \subseteq Held(c)
  BY <1>1, LeavingHeld
<1>4. CASE Write(t) \/ Record(t)
  <2>1. PICK d \in Calls :
            /\ call' = [call EXCEPT ![t] = d] /\ Passes(c, d)
            /\ \/ c.then # "moved" /\ d = Idle
               \/ c.then = "moved" /\ d = Ended(c.from)
               \/ c.then # "none" /\ d = [c EXCEPT !.at = "release"]
    BY <1>4, Returned DEF Write, Record, At
  <2>2. d.at \in {"idle", "end", "release"} /\ Leaving(c) \subseteq Held(d)
    <3>1. CASE c.then # "moved" /\ d = Idle
      <4>1. c.then # "move" /\ Stage(c) \notin Ending
        BY <1>1, <1>4 DEF Formed, Loading, Ending, Write, Record, At
      <4>2. Leaving(c) = {}
        BY <3>1, <4>1 DEF Leaving
      <4> QED
        BY <3>1, <4>2 DEF Idle
    <3>2. CASE c.then = "moved" /\ d = Ended(c.from)
      <4>1. d.at = "end" /\ d.loc = c.from
        BY <3>2 DEF Ended, Idle
      <4>2. Leaving(c) = {c.from} /\ c.from # Nil
        BY <1>1, <1>4, <3>2 DEF Leaving, Formed, Ending, Write, Record, At
      <4> QED
        BY <4>1, <4>2 DEF Held
    <3>3. CASE d = [c EXCEPT !.at = "release"]
      <4>1. d.at = "release" /\ d.loc = c.loc /\ d.from = c.from
        BY <1>1, <3>3 DEF Calls
      <4> QED
        BY <1>3, <4>1 DEF Held
    <3> QED
      BY <2>1, <3>1, <3>2, <3>3
  <2>3. Onward(t, d)
    BY <1>1, <2>1, <2>2, PassesOnward
  <2>4. d.at \notin Cleared \cup {"record", "unregister"} /\ Tracing(d, reg'[x], given'[x])
    BY <2>2 DEF Cleared, Tracing
  <2>5. x \in exists \/ x \in Held(d)
    <3>1. x \in exists \/ x \in Leaving(c)
      BY <1>2, HeldTraces
    <3> QED
      BY <2>2, <3>1
  <2>6. /\ \A y \in Slots : y # x => Lessened(y)
        /\ given'[x] # Nil => reg'[x].owner = "objc"
    <3>1. CASE Write(t)
      <4>1. At(t, "write") /\ UNCHANGED <<reg, given>>
        BY <3>1 DEF Write
      <4> QED
        BY <1>2, <4>1 DEF Trace, At, Lessened
    <3>2. CASE Record(t)
      <4>1. At(t, "record") /\ given' = given
        BY <3>2 DEF Record
      <4>2. given[x] \in {Nil, c.obj}
        BY <1>2, <4>1 DEF Trace, Tracing, At
      <4>3. CASE c.obj = Nil
        <5>1. reg' = [reg EXCEPT ![x] = Unknown]
          BY <3>2, <4>3 DEF Record, Forget
        <5> QED
          BY <4>1, <4>2, <4>3, <5>1 DEF Lessened, CallsInv, TypeOK
      <4>4. CASE c.obj # Nil
        <5>1. reg' = [reg EXCEPT ![x] = [obj |-> c.obj, owner |-> "objc"]]
          BY <3>2, <4>4 DEF Record, Remember
        <5> QED
          BY <1>2, <4>1, <5>1 DEF Lessened, CallsInv, TypeOK
      <4> QED
        BY <4>3, <4>4
    <3> QED
      BY <1>4, <3>1, <3>2
  <2>7. Trace(d, x, x \in exists \/ x \in Held(d), reg'[x], given'[x])
    BY <2>4, <2>5, <2>6 DEF Trace
  <2> QED
    BY <1>2, <2>2, <2>3, <2>4, <2>6, <2>7, LocTraces
<1>5. CASE End(t)
  <2>1. PICK at \in {"unregister", "blank"} :
            /\ call' = [call EXCEPT ![t] = [c EXCEPT !.at = at]] /\ c.at = "end"
            /\ at = "blank" => reg[x].owner # "objc"
    BY <1>5 DEF End, Goto, At
  <2> DEFINE d == [c EXCEPT !.at = at]
  <2>2. /\ d \in Calls /\ d.at = at /\ d.loc = x /\ Held(d) = Held(c)
    BY <1>1 DEF Calls, Points, Ending, Held
  <2>3. call' = [call EXCEPT ![t] = d]
    BY <2>1
  <2> HIDE DEF d
  <2>4. given' = given /\ reg'[x] = Unknown /\ \A y \in Slots : y # x => Lessened(y)
    BY <1>2, <1>5 DEF End, Forget, CallsInv, TypeOK, Lessened
  <2>5. at = "blank" => given'[x] = Nil
    BY <1>2, <2>1, <2>4 DEF Trace
  <2>6. Onward(t, d)
    BY <1>1, <2>1, <2>2, <2>3 DEF Onward
  <2>7. Trace(d, x, x \in exists \/ x \in Held(d), reg'[x], given'[x])
    BY <1>2, <2>1, <2>2, <2>4, <2>5 DEF Trace, Tracing, Cleared
  <2> QED
    BY <1>2, <1>3, <2>2, <2>4, <2>6, <2>7, LocTraces
<1>6. CASE Unregister(t) \/ Blank(t)
  <2>1. /\ call' = [call EXCEPT ![t] = Idle] /\ reg' = reg /\ c.at \in {"unregister", "blank"}
        /\ \A y \in Slots : y # x => Lessened(y)
    BY <1>2, <1>6 DEF Unregister, Blank, At, CallsInv, TypeOK, Lessened
  <2>2. reg'[x] = Unknown
    BY <1>2, <2>1 DEF Trace, Tracing
  <2>3. given'[x] = Nil
    <3>1. CASE Unregister(t)
      BY <1>2, <3>1 DEF Unregister, CallsInv, TypeOK
    <3>2. CASE Blank(t)
      BY <1>2, <3>2 DEF Blank, Trace, Tracing, Cleared, At
    <3> QED
      BY <1>6, <3>1, <3>2
  <2>4. Idle \in Calls /\ Passes(c, Idle) /\ Idle.at = "idle"
    BY IdlePasses DEF Idle
  <2>5. Onward(t, Idle)
    BY <1>1, <2>1, <2>4, PassesOnward
  <2>6. Trace(Idle, x, x \in exists \/ x \in Held(Idle), reg'[x], given'[x])
    BY <2>2, <2>3, <2>4 DEF Trace, Tracing, Cleared
  <2>7. Leaving(c) \subseteq {x}
    BY <1>1, <2>1 DEF Leaving, Formed, Ending, Storing, Ours, Theirs
  <2> QED
    BY <1>2, <2>1, <2>4, <2>5, <2>6, <2>7, LocTraces DEF Cleared
<1> QED
  BY <1>4, <1>5, <1>6 DEF Finishes

LEMMA LifeTraces ==
  ASSUME CallsInv, TracesInv, NEW t \in Threads, Lives(t)
  PROVE  TracesInv'
<1> DEFINE c == call[t]
<1>1. c \in Calls /\ Formed(c) /\ bound' = bound /\ exists' = exists
  BY DEF CallsInv, TypeOK, Lives, Release, CopyRelease, Drops, Zero, Dealloc
<1>2. Leaving(c) \subseteq Held(c)
  BY <1>1, LeavingHeld
<1>3. CASE (\E o \in Objects : Release(t, o)) \/ CopyRelease(t)
  <2>1. PICK d \in Calls, o \in Objects : Dropped(t, d, o)
    BY <1>3, DropCalls
  <2>2. c.at \in {"idle", "release"} /\ d.at \in {"idle", "end", "zero"} /\ Leaving(c) \subseteq Held(d)
    BY <2>1 DEF Dropped
  <2>3. Onward(t, d)
    BY <1>1, <2>1, <2>2, PassesOnward DEF Dropped
  <2>4. \A x \in Slots : Lessened(x)
    BY <2>1 DEF Dropped, Lessened
  <2> QED
    BY <2>2, <2>3, <2>4, QuietTraces DEF Cleared
<1>4. CASE Zero(t)
  <2> DEFINE d == [c EXCEPT !.at = "free"]
  <2>1. /\ d \in Calls /\ d.at = "free" /\ d.loc = c.loc /\ d.from = c.from /\ d.next = c.next
        /\ c.at = "zero" /\ call' = [call EXCEPT ![t] = d]
    BY <1>1, <1>4 DEF Calls, Points, Dying, Zero, Goto, At
  <2> HIDE DEF d
  <2>2. Held(d) = Held(c) /\ Stage(d) = Stage(c)
    BY <2>1 DEF Held, Stage, Dying
  <2>3. Onward(t, d)
    BY <1>1, <2>1, <2>2 DEF Onward
  <2>4. \A x \in Slots : Lessened(x)
    <3>1. \A x \in Slots : given'[x] \in {given[x], Nil}
      BY <1>4 DEF Zero
    <3>2. \A x \in Slots : reg'[x] = reg[x] \/ (reg[x].owner = "ours" /\ reg'[x] = Unknown)
      <4>1. CASE c.obj \in sentinel
        BY <1>4, <4>1 DEF Zero, ZeroFor, Named
      <4>2. CASE c.obj \notin sentinel
        BY <1>4, <4>2 DEF Zero
      <4> QED
        BY <4>1, <4>2
    <3> QED
      BY <3>1, <3>2 DEF Lessened
  <2> QED
    BY <1>2, <2>1, <2>2, <2>3, <2>4, QuietTraces DEF Cleared
<1>5. CASE Dealloc(t)
  <2> DEFINE d == [c EXCEPT !.at = c.next, !.obj = Nil, !.next = "none"]
  <2>1. c.at = "free" /\ Stage(c) = c.next /\ c.next \in {"idle", "end"}
    BY <1>1, <1>5 DEF Dealloc, At, Formed, Stage, Dying
  <2>2. /\ d \in Calls /\ d.at = c.next /\ d.loc = c.loc /\ d.from = c.from
        /\ call' = [call EXCEPT ![t] = d]
    BY <1>1, <1>5, <2>1 DEF Calls, Points, Ending, Dealloc
  <2> HIDE DEF d
  <2>3. Held(d) = Held(c) /\ Stage(d) = Stage(c)
    BY <2>1, <2>2 DEF Held, Stage, Dying
  <2>4. Onward(t, d)
    BY <1>1, <2>1, <2>2, <2>3 DEF Onward
  <2>5. \A x \in Slots : Lessened(x)
    BY <1>5 DEF Dealloc, tables, Lessened
  <2> QED
    BY <1>2, <2>1, <2>2, <2>3, <2>4, <2>5, QuietTraces DEF Cleared
<1> QED
  BY <1>3, <1>4, <1>5 DEF Lives

LEMMA TailOf ==
  ASSUME NEW X, NEW l \in Seq(X), l # <<>>
  PROVE  /\ Tail(l) \in Seq(X) /\ Len(l) \in Nat \ {0} /\ Len(Tail(l)) = Len(l) - 1
         /\ Head(l) = l[1] /\ \A i \in 1 .. Len(l) - 1 : Tail(l)[i] = l[i + 1]
OBVIOUS

LEMMA LeftTail ==
  ASSUME NEW X, NEW l \in Seq(X), l # <<>>, NEW b, NEW e, b \cup {Head(l)} \subseteq e, Left(l, b)
  PROVE  Tail(l) \in Seq(X) /\ Left(Tail(l), e) /\ Len(Tail(l)) < 4
<1>1. /\ Tail(l) \in Seq(X) /\ Len(l) \in Nat \ {0} /\ Len(Tail(l)) = Len(l) - 1
      /\ Head(l) = l[1] /\ \A i \in 1 .. Len(l) - 1 : Tail(l)[i] = l[i + 1]
  BY TailOf
<1>2. PICK n \in Nat, k \in Seq(X) : n = Len(l) /\ k = Tail(l)
  BY <1>1
<1>3. n <= 4 /\ l[n] = "destroy" /\ n # 0 /\ Len(k) = n - 1
  BY <1>1, <1>2 DEF Left
<1>4. n = 1 => "destroy" \in e
  BY <1>1, <1>2, <1>3
<1>5. n # 1 => k[n - 1] = "destroy"
  <2>1. n # 1 => n - 1 \in 1 .. n - 1
    BY <1>3
  <2>2. n # 1 => k[n - 1] = l[n - 1 + 1]
    BY <1>1, <1>2, <2>1
  <2> QED
    BY <1>3, <2>2
<1>6. Left(k, e) /\ Len(k) < 4
  BY <1>3, <1>4, <1>5 DEF Left
<1> QED
  BY <1>1, <1>2, <1>6

\* The lookup of objc's functions.
LEMMA BindTraces ==
  ASSUME CallsInv, TracesInv, NEW t \in Threads, Bind(t)
  PROVE  TracesInv'
<1> DEFINE c == call[t]
<1>1. /\ c \in Calls /\ Formed(c) /\ c.at = "bind" /\ UNCHANGED <<exists, reg, given>>
      /\ c.next \in {"look", "init", "read", "end"} /\ Stage(c) = c.next
  BY DEF CallsInv, TypeOK, Bind, At, tables, Formed, Stage
<1>2. /\ Held(c) \subseteq Slots
      /\ \A u \in Threads \ {t} : Held(call[u]) \cap Held(c) = {}
      /\ \A x \in Held(c) : /\ Trace(c, x, TRUE, reg[x], given[x])
                            /\ x \in exists \/ x \in Leaving(c)
  BY HeldTraces
<1>3. Leaving(c) \subseteq Held(c)
  BY <1>1, LeavingHeld
<1>4. ASSUME NEW d \in Calls, call' = [call EXCEPT ![t] = d], d.loc = c.loc, d.from = c.from,
             d.at \in {"bind", "look", "init", "read", "end"}
      PROVE  GivenRecorded' /\ Traced' /\ Untraced'
  <2>1. Held(d) = Held(c)
    BY <1>4 DEF Held
  <2>2. \A x \in Held(c) : Trace(d, x, x \in exists' \/ x \in Held(d), reg'[x], given'[x])
    BY <1>1, <1>2, <1>4, <2>1 DEF Trace, Tracing, Cleared
  <2>3. \A x \in Slots \ Held(c) : Lessened(x) /\ (x \in exists' <=> x \in exists)
    BY <1>1 DEF Lessened
  <2>4. d.loc # Nil => d.loc \in Held(c)
    BY <1>4 DEF Held
  <2>5. Held(c) \cup Held(d) \subseteq Held(c) /\ Held(c) \in SUBSET Slots
    BY <1>2, <2>1
  <2> QED
    BY <1>2, <1>4, <2>2, <2>3, <2>4, <2>5, TracesStep
<1>5. \A u \in Threads \ {t} : ~ At(u, "bind")
  BY <1>1 DEF TracesInv, Looking, At
<1>6. Left(c.left, bound) /\ c.left \in Seq({"store", "init", "load", "destroy"})
  BY <1>1 DEF TracesInv, Looking, At, Calls
<1>7. CASE c.left = <<>> \/ (c.left = Real /\ "store" \in bound)
  <2> DEFINE d == [c EXCEPT !.at = c.next]
  <2>1. /\ d \in Calls /\ d.at = c.next /\ d.loc = c.loc /\ d.from = c.from
    BY <1>1 DEF Calls, Points, Storing, Theirs, Loading, Ending
  <2>2. call' = [call EXCEPT ![t] = d] /\ bound' = bound
    BY <1>7 DEF Bind, Goto
  <2> HIDE DEF d
  <2>3. "destroy" \in bound
    <3>1. CASE c.left = Real /\ "store" \in bound
      <4>1. Len(c.left) = 4
        BY <3>1 DEF Real
      <4> QED
        BY <1>5, <3>1, <4>1 DEF TracesInv, Looking
    <3>2. CASE c.left = <<>>
      BY <1>6, <3>2 DEF Left
    <3> QED
      BY <1>7, <3>1, <3>2
  <2>4. call'[t] = d /\ \A u \in Threads \ {t} : call'[u] = call[u]
    BY <2>2 DEF CallsInv, TypeOK
  <2>5. \A u \in Threads : ~ At(u, "bind")'
    BY <1>1, <1>5, <2>1, <2>4 DEF At
  <2>6. Looking'
    BY <2>2, <2>3, <2>5 DEF Looking
  <2> QED
    BY <1>1, <1>4, <2>1, <2>2, <2>6 DEF TracesInv
<1>8. CASE ~ (c.left = <<>> \/ (c.left = Real /\ "store" \in bound))
  <2>1. /\ bound' = bound \cup {Head(c.left)}
        /\ call' = [call EXCEPT ![t] = [c EXCEPT !.left = Tail(c.left)]]
    BY <1>8 DEF Bind
  <2>2. /\ Tail(c.left) \in Seq({"store", "init", "load", "destroy"})
        /\ Left(Tail(c.left), bound') /\ Len(Tail(c.left)) < 4
    <3>1. c.left # <<>> /\ bound \cup {Head(c.left)} \subseteq bound'
      BY <1>8, <2>1
    <3> QED
      BY <1>6, <3>1, LeftTail
  <2> DEFINE d == [c EXCEPT !.left = Tail(c.left)]
  <2>3. /\ d \in Calls /\ d.at = "bind" /\ d.loc = c.loc /\ d.from = c.from /\ d.left = Tail(c.left)
    BY <1>1, <2>2 DEF Calls
  <2>4. call' = [call EXCEPT ![t] = d]
    BY <2>1
  <2> HIDE DEF d
  <2>5. call'[t] = d /\ \A u \in Threads \ {t} : call'[u] = call[u]
    BY <2>4 DEF CallsInv, TypeOK
  <2>6. At(t, "bind")' /\ \A u \in Threads \ {t} : ~ At(u, "bind")'
    BY <1>5, <2>3, <2>5 DEF At
  <2>7. \A u \in Threads : ~ At(u, "bind")' /\ Stage(call'[u]) # "idle" => "destroy" \in bound'
    BY <1>5, <2>1, <2>5, <2>6 DEF TracesInv, Looking
  <2>8. Looking'
    BY <2>1, <2>2, <2>3, <2>5, <2>6, <2>7 DEF Looking
  <2> QED
    BY <1>1, <1>4, <2>3, <2>4, <2>8 DEF TracesInv
<1> QED
  BY <1>7, <1>8

\* The beginning of a call, on slots that no call is on.
Started(t, d, X) ==
    /\ call' = [call EXCEPT ![t] = d] /\ Held(d) \subseteq X
    /\ \A x \in X : ~ Busy(x) /\ (x \in exists' \/ x \in Held(d))
    /\ (d.at = "bind" /\ d.left = Real) \/ d = Idle
    /\ \A x \in Slots \ X : x \in exists' <=> x \in exists
    /\ \A x \in Slots \ X : reg'[x] = reg[x]
    /\ \A x \in X : reg'[x] = reg[x] \/ x \notin exists
    /\ given' = given /\ bound' = bound

LEMMA StartTraces ==
  ASSUME "bind" \notin Uses, CallsInv, TracesInv, NEW t \in Threads, NEW d \in Calls,
         NEW X \in SUBSET Slots, At(t, "idle"), \A u \in Threads : ~ At(u, "bind"),
         Started(t, d, X)
  PROVE  TracesInv'
<1> DEFINE c == call[t]
<1>1. c \in Calls /\ Formed(c) /\ c.at = "idle" /\ Stage(c) = "idle"
  BY DEF CallsInv, TypeOK, At, Stage, Dying
<1>2. Held(c) = {}
  <2>1. c.loc = Nil /\ c.then = "none"
    BY <1>1, StoringStages DEF Formed, Calls, Loading
  <2> QED
    BY <1>1, <2>1 DEF Formed, Held
<1>3. \A x \in X : \A u \in Threads : x \notin Held(call[u])
  BY DEF Started, Busy, Held
<1>4. \A x \in X : /\ given[x] # Nil => reg[x].owner = "objc"
                   /\ x \notin exists => given[x] = Nil
  <2>1. SUFFICES ASSUME NEW x \in X
        PROVE  /\ given[x] # Nil => reg[x].owner = "objc"
               /\ x \notin exists => given[x] = Nil
    OBVIOUS
  <2>2. Trace(c, x, x \in exists \/ x \in Held(c), reg[x], given[x])
    BY <1>3, TraceOf
  <2> QED
    BY <1>1, <1>2, <2>2 DEF Trace
<1>5. d.at \in {"bind", "idle"} /\ (d.loc # Nil => d.loc \in Held(d))
  BY DEF Started, Idle, Held
<1>6. \A x \in X : Trace(d, x, x \in exists' \/ x \in Held(d), reg'[x], given'[x])
  <2>1. \A x \in X : x \in exists' \/ x \in Held(d)
    BY DEF Started
  <2>2. \A x \in X : given'[x] # Nil => reg'[x].owner = "objc"
    BY <1>4 DEF Started
  <2>3. \A x \in X : Tracing(d, reg'[x], given'[x])
    BY <1>5 DEF Tracing, Cleared
  <2> QED
    BY <2>1, <2>2, <2>3 DEF Trace
<1>7. GivenRecorded' /\ Traced' /\ Untraced'
  <2>1. \A x \in Slots \ X : Lessened(x) /\ (x \in exists' <=> x \in exists)
    BY DEF Started, Lessened
  <2>2. \A u \in Threads \ {t} : Held(call[u]) \cap X = {}
    BY <1>3
  <2>3. call' = [call EXCEPT ![t] = d] /\ Held(c) \cup Held(d) \subseteq X
        /\ (d.loc # Nil => d.loc \in X)
    BY <1>2, <1>5 DEF Started
  <2> QED
    BY <1>6, <2>1, <2>2, <2>3, TracesStep
<1>8. Looking'
  <2>1. call'[t] = d /\ \A u \in Threads \ {t} : call'[u] = call[u]
    BY DEF Started, CallsInv, TypeOK
  <2>2. bound' = bound /\ \A u \in Threads \ {t} : ~ At(u, "bind")'
    BY <2>1 DEF Started, At
  <2>3. At(t, "bind")' => Left(call'[t].left, bound')
    <3>1. Len(Real) = 4 /\ Real[4] = "destroy"
      BY DEF Real
    <3>2. Idle.at = "idle"
      BY DEF Idle
    <3>3. At(t, "bind")' => d.left = Real
      BY <2>1, <3>2 DEF Started, At
    <3>4. Left(Real, bound')
      BY <3>1 DEF Left
    <3> QED
      BY <2>1, <3>3, <3>4
  <2>4. ~ At(t, "bind")' => Stage(call'[t]) = "idle"
    BY <2>1 DEF Started, At, Idle, Stage, Dying
  <2>5. \A u \in Threads : ~ At(u, "bind")' /\ Stage(call'[u]) # "idle" => "destroy" \in bound'
    BY <2>1, <2>2, <2>4 DEF TracesInv, Looking
  <2>6. "store" \in bound' => "destroy" \in bound'
    BY <2>2 DEF TracesInv, Looking
  <2> QED
    BY <2>2, <2>3, <2>5, <2>6 DEF Looking
<1> QED
  BY <1>7, <1>8 DEF TracesInv

LEMMA BeginTraces ==
  ASSUME Uses \subseteq {"attach", "late"}, CallsInv, TracesInv, NEW t \in Threads, Begins(t)
  PROVE  TracesInv'
<1>1. "bind" \notin Uses /\ "share" \notin Uses
  OBVIOUS
<1>2. At(t, "idle") /\ \A u \in Threads : ~ At(u, "bind")
  BY <1>1 DEF Begins, InitWeak, StoreWeak, LoadWeakRetained, DestroyWeak, CopyWeak, OnSlot, Begin
<1>3. ASSUME NEW x \in Slots, NEW o \in Objects \cup {Nil}, InitWeak(t, x, o)
      PROVE  TracesInv'
  <2>1. PICK d \in Calls : /\ call' = [call EXCEPT ![t] = d] /\ Held(d) \subseteq {x}
                           /\ (d.at = "bind" /\ d.left = Real) \/ d = Idle
    <3>1. CASE o = Nil
      BY <1>3, <3>1, IdlePasses DEF InitWeak, Begin
    <3>2. CASE o # Nil
      <4>1. PICK next \in {"look", "init"} : /\ call' = [call EXCEPT ![t] = Call(x, o, next)]
                                             /\ next = "init" => o \notin Custom
        <5>1. CASE o \in Custom
          BY <1>3, <3>2, <5>1 DEF InitWeak, Begin
        <5>2. CASE o \notin Custom
          BY <1>3, <3>2, <5>2 DEF InitWeak, Begin
        <5> QED
          BY <5>1, <5>2
      <4>2. LET d == Call(x, o, next) IN
            d \in Calls /\ Held(d) = {x} /\ d.at = "bind" /\ d.left = Real
        BY <4>1, CallFields
      <4> QED
        BY <4>1, <4>2
    <3> QED
      BY <3>1, <3>2
  <2>2. /\ x \notin exists /\ exists' = exists \cup {x} /\ ~ Busy(x) /\ UNCHANGED <<given, bound>>
        /\ \A y \in Slots \ {x} : reg'[y] = reg[y]
    BY <1>3 DEF InitWeak, Forget, CallsInv, TypeOK
  <2>3. Started(t, d, {x})
    BY <2>1, <2>2 DEF Started
  <2> QED
    BY <1>1, <1>2, <2>1, <2>3, StartTraces
<1>4. ASSUME NEW x \in Slots, NEW o \in Objects \cup {Nil}, NEW next \in {"look", "read"},
             OnSlot(t, x, Call(x, o, next))
      PROVE  TracesInv'
  <2> DEFINE d == Call(x, o, next)
  <2>1. d \in Calls /\ Held(d) = {x} /\ d.at = "bind" /\ d.left = Real
    BY CallFields
  <2>2. /\ x \in exists /\ ~ Busy(x) /\ UNCHANGED <<exists, reg, given, bound>>
        /\ call' = [call EXCEPT ![t] = d]
    BY <1>1, <1>4 DEF OnSlot, Free, Begin, tables
  <2> HIDE DEF d
  <2>3. Started(t, d, {x})
    BY <2>1, <2>2 DEF Started
  <2> QED
    BY <1>1, <1>2, <2>1, <2>3, StartTraces
<1>5. ASSUME NEW x \in Slots, DestroyWeak(t, x)
      PROVE  TracesInv'
  <2> DEFINE d == Call(x, Nil, "end")
  <2>1. d \in Calls /\ Held(d) = {x} /\ d.at = "bind" /\ d.left = Real
    BY CallFields
  <2>2. /\ ~ Busy(x) /\ exists' = exists \ {x} /\ UNCHANGED <<reg, given, bound>>
        /\ call' = [call EXCEPT ![t] = d]
    BY <1>5 DEF DestroyWeak, Begin, tables
  <2> HIDE DEF d
  <2>3. Started(t, d, {x})
    BY <2>1, <2>2 DEF Started
  <2> QED
    BY <1>1, <1>2, <2>1, <2>3, StartTraces
<1>6. ASSUME NEW x \in Slots, NEW y \in Slots, NEW moved \in BOOLEAN, x # y,
             CopyWeak(t, x, y, moved)
      PROVE  TracesInv'
  <2> DEFINE d == CopyCall(x, y, moved)
  <2>1. d \in Calls /\ Held(d) = {x, y} /\ d.at = "bind" /\ d.left = Real
    BY <1>6, CopyFields
  <2>2. /\ ~ Busy(x) /\ ~ Busy(y) /\ UNCHANGED <<reg, given, bound>>
        /\ exists' = (exists \cup {x}) \ (IF moved THEN {y} ELSE {})
        /\ call' = [call EXCEPT ![t] = d]
    BY <1>1, <1>6 DEF CopyWeak, Free, Begin, tables, CopyCall
  <2> HIDE DEF d
  <2>3. \A z \in Slots \ {x, y} : z \in exists' <=> z \in exists
    BY <2>2
  <2>4. Started(t, d, {x, y})
    BY <2>1, <2>2, <2>3 DEF Started
  <2> QED
    BY <1>1, <1>2, <2>1, <2>4, StartTraces
<1> QED
  BY <1>3, <1>4, <1>5, <1>6 DEF Begins, StoreWeak, LoadWeakRetained

LEMMA TracesNext ==
  ASSUME Uses \subseteq {"attach", "late"}, CallsInv, TracesInv, [Next]_vars
  PROVE  TracesInv'
<1>1. CASE Next
  <2>1. PICK t \in Threads : Begins(t) \/ Bind(t) \/ Stores(t) \/ Loads(t) \/ Finishes(t) \/ Lives(t)
    BY <1>1, StepsSplit
  <2>2. "nomem" \notin Uses
    OBVIOUS
  <2> QED
    BY <2>1, <2>2, BeginTraces, BindTraces, StoreTraces, LoadTraces, FinishTraces, LifeTraces
<1>2. CASE UNCHANGED vars
  BY <1>2 DEF vars, TracesInv, Looking, At, GivenRecorded, Traced, Untraced, Busy
<1> QED
  BY <1>1, <1>2

(***************************************************************************)
(* A weak variable that has gone away is in neither table, so that no      *)
(* later destruction writes to its memory: where objc's functions are      *)
(* found before a second call begins, malloc succeeds and no two threads   *)
(* are in calls on one slot, whatever loads race an object's end and       *)
(* whatever stores form its first weak reference.                          *)
(***************************************************************************)
THEOREM NothingIsLeftBehind ==
  ASSUME Uses \subseteq {"attach", "late"}
  PROVE  Spec => []NothingLeftBehind
<1>1. "share" \notin Uses
  OBVIOUS
<1>2. Init => CallsInv /\ TracesInv
  BY InitCalls, InitTraces
<1>3. CallsInv /\ TracesInv /\ [Next]_vars => (CallsInv /\ TracesInv)'
  BY <1>1, CallsStep, TracesNext
<1>4. CallsInv /\ TracesInv => NothingLeftBehind
  BY DEF TracesInv, Untraced, NothingLeftBehind
<1> QED
  BY <1>2, <1>3, <1>4, PTL DEF Spec
=============================================================================
