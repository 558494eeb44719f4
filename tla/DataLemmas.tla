----------------------------- MODULE DataLemmas -----------------------------
(***************************************************************************)
(* Facts about numbers, sets and sequences that the proofs of several      *)
(* components need.  Induction is stated for sets: what is to be shown of  *)
(* every number is that the set of those it holds for is all of Nat.       *)
(***************************************************************************)
EXTENDS SequencesExt, Integers, TLAPS, FiniteSetTheorems

\* Induction on Nat: from the least number outside the set.
LEMMA NatSetInduction ==
  ASSUME NEW S, 0 \in S, \A n \in Nat : n \in S => n + 1 \in S
  PROVE  Nat \subseteq S
<1> DEFINE T == Nat \ S
<1> SUFFICES ASSUME T # {} PROVE FALSE
  OBVIOUS
<1>1. PICK x \in T : \A y \in T : ~ (<<y, x>> \in OpToRel(<, Nat))
  <2>1. T \subseteq Nat
    OBVIOUS
  <2> HIDE DEF T
  <2>2. QED
    BY <2>1, NatLessThanWellFounded, WFMin
<1>2. x \in Nat /\ x # 0 /\ x - 1 \in Nat
  OBVIOUS
<1>3. <<x - 1, x>> \in OpToRel(<, Nat)
  BY <1>2 DEF OpToRel
<1>4. x - 1 \notin T
  BY <1>1, <1>3
<1>5. QED
  BY <1>2, <1>4

\* A set of numbers below a bound has a greatest one, which Max chooses.
LEMMA MaxOfBounded ==
  ASSUME NEW S \in SUBSET Nat, S # {}, NEW b \in Nat, \A x \in S : x <= b
  PROVE  Max(S) \in S /\ \A y \in S : Max(S) >= y
<1> DEFINE T == {b - x : x \in S}
<1>0. \A x \in S : x \in Nat /\ b - x \in Nat
  OBVIOUS
<1>1. T \subseteq Nat /\ T # {}
  BY <1>0
<1>2. PICK z \in T : \A y \in T : ~ (<<y, z>> \in OpToRel(<, Nat))
  <2> HIDE DEF T
  <2>1. QED
    BY <1>1, NatLessThanWellFounded, WFMin
<1>3. PICK m \in S : z = b - m
  OBVIOUS
<1>4. ASSUME NEW y \in S PROVE m >= y
  <2>1. b - y \in T /\ b - y \in Nat /\ z \in Nat
    BY <1>1
  <2>2. ~ (b - y < z)
    BY <1>2, <2>1 DEF OpToRel
  <2>3. QED
    BY <1>3, <2>1, <2>2
<1>5. \E x \in S : \A y \in S : x >= y
  BY <1>4
<1>6. QED
  BY <1>5 DEF Max

-----------------------------------------------------------------------------
(***************************************************************************)
(* Sorting.                                                                *)
(***************************************************************************)

\* R orders S strictly and totally.
StrictOrder(R, S) ==
  /\ \A x, y, z \in S : <<x, y>> \in R /\ <<y, z>> \in R => <<x, z>> \in R
  /\ \A x, y \in S : x # y => <<x, y>> \in R \/ <<y, x>> \in R

\* A set that is not empty and finite has a last member.
LEMMA LastMember ==
  ASSUME NEW S, NEW R, StrictOrder(R, S), NEW T \in SUBSET S, IsFiniteSet(T), T # {}
  PROVE  \E m \in T : \A x \in T \ {m} : <<x, m>> \in R
<1> DEFINE HasLast(U) == \E m \in U : \A x \in U \ {m} : <<x, m>> \in R
           N == {n \in Nat : \A U \in SUBSET S :
                   IsFiniteSet(U) /\ Cardinality(U) = n /\ U # {} => HasLast(U)}
<1>1. 0 \in N
  BY FS_EmptySet
<1>2. ASSUME NEW n \in Nat, n \in N PROVE n + 1 \in N
  <2>1. ASSUME NEW U \in SUBSET S, IsFiniteSet(U), Cardinality(U) = n + 1, U # {}
        PROVE  HasLast(U)
    <3>1. PICK u \in U : TRUE
      BY <2>1
    <3> DEFINE V == U \ {u}
    <3>2. IsFiniteSet(V) /\ Cardinality(V) = n /\ V \in SUBSET S
      <4>1. IsFiniteSet(V) /\ Cardinality(V) = Cardinality(U) - 1
        BY <2>1, <3>1, FS_RemoveElement
      <4>2. V \in SUBSET S
        OBVIOUS
      <4> HIDE DEF V
      <4>3. QED
        BY <2>1, <4>1, <4>2
    <3>3. CASE V = {}
      BY <3>1, <3>3
    <3>4. CASE V # {}
      <4>1. PICK m \in V : \A x \in V \ {m} : <<x, m>> \in R
        <5> HIDE DEF V
        <5>1. QED
          BY <1>2, <3>2, <3>4
      <4>2. CASE <<u, m>> \in R
        BY <4>1, <4>2
      <4>3. CASE <<m, u>> \in R
        <5>1. \A x \in V \ {m} : <<x, u>> \in R
          BY <2>1, <3>1, <4>1, <4>3 DEF StrictOrder
        <5>2. \A x \in U \ {u} : <<x, u>> \in R
          BY <4>3, <5>1
        <5>3. QED
          BY <3>1, <5>2
      <4>4. <<u, m>> \in R \/ <<m, u>> \in R
        BY <2>1, <3>1, <4>1 DEF StrictOrder
      <4>5. QED
        BY <4>2, <4>3, <4>4
    <3>5. QED
      BY <3>3, <3>4
  <2> HIDE DEF HasLast
  <2>2. QED
    BY <2>1
<1>3. Nat \subseteq N
  <2> HIDE DEF N
  <2>1. QED
    BY <1>1, <1>2, NatSetInduction
<1>4. Cardinality(T) \in Nat
  BY FS_CardinalityType
<1>5. QED
  BY <1>3, <1>4

\* A finite set can be sorted.
LEMMA SortExists ==
  ASSUME NEW S, IsFiniteSet(S), NEW R, StrictOrder(R, S)
  PROVE  \E s \in SetToSeqs(S) : \A i, j \in DOMAIN s : i < j => <<s[i], s[j]>> \in R
<1> DEFINE IsSort(s, U) == s \in SetToSeqs(U) /\ \A i, j \in DOMAIN s : i < j => <<s[i], s[j]>> \in R
           N == {n \in Nat : \A U \in SUBSET S :
                   IsFiniteSet(U) /\ Cardinality(U) = n => \E s : IsSort(s, U)}
<1>1. 0 \in N
  <2>1. ASSUME NEW U \in SUBSET S, IsFiniteSet(U), Cardinality(U) = 0 PROVE \E s : IsSort(s, U)
    <3>1. U = {} /\ 1 .. Cardinality(U) = {}
      BY <2>1, FS_EmptySet
    <3>2. IsSort([i \in {} |-> 0], U)
      BY <3>1 DEF SetToSeqs
    <3>3. QED
      BY <3>2
  <2> HIDE DEF IsSort
  <2>2. QED
    BY <2>1
<1>2. ASSUME NEW n \in Nat, n \in N PROVE n + 1 \in N
  <2>1. ASSUME NEW U \in SUBSET S, IsFiniteSet(U), Cardinality(U) = n + 1
        PROVE  \E s : IsSort(s, U)
    <3>0. U # {}
      BY <2>1, FS_EmptySet
    <3>1. PICK m \in U : \A x \in U \ {m} : <<x, m>> \in R
      BY <2>1, <3>0, LastMember
    <3> DEFINE V == U \ {m}
    <3>2. IsFiniteSet(V) /\ Cardinality(V) = n /\ V \in SUBSET S
      <4>1. IsFiniteSet(V) /\ Cardinality(V) = Cardinality(U) - 1
        BY <2>1, <3>1, FS_RemoveElement
      <4>2. V \in SUBSET S
        OBVIOUS
      <4> HIDE DEF V
      <4>3. QED
        BY <2>1, <4>1, <4>2
    <3>3. PICK s : IsSort(s, V)
      <4> HIDE DEF V, IsSort
      <4>1. QED
        BY <1>2, <3>2
    <3>4. /\ s \in [1 .. n -> V] /\ \A i, j \in 1 .. n : i # j => s[i] # s[j]
          /\ \A i, j \in 1 .. n : i < j => <<s[i], s[j]>> \in R
      BY <3>2, <3>3 DEF SetToSeqs
    <3> DEFINE r == [i \in 1 .. n + 1 |-> IF i <= n THEN s[i] ELSE m]
    <3>5. ASSUME NEW i \in 1 .. n + 1
          PROVE  \/ i \in 1 .. n /\ r[i] = s[i]
                 \/ i = n + 1 /\ r[i] = m
      OBVIOUS
    <3>6. r \in [1 .. n + 1 -> U]
      BY <3>1, <3>4
    <3>7. DOMAIN r = 1 .. n + 1
      OBVIOUS
    <3> HIDE DEF r
    <3>8. \A i, j \in 1 .. n + 1 : i # j => r[i] # r[j]
      BY <3>4, <3>5
    <3>9. \A i, j \in 1 .. n + 1 : i < j => <<r[i], r[j]>> \in R
      <4>1. ASSUME NEW i \in 1 .. n + 1, NEW j \in 1 .. n + 1, i < j PROVE <<r[i], r[j]>> \in R
        <5>1. i \in 1 .. n /\ r[i] = s[i] /\ s[i] \in V
          BY <3>4, <3>5, <4>1
        <5>2. CASE j = n + 1
          BY <3>1, <3>5, <5>1, <5>2
        <5>3. CASE j \in 1 .. n /\ r[j] = s[j]
          BY <3>4, <4>1, <5>1, <5>3
        <5>4. QED
          BY <3>5, <5>2, <5>3
      <4>2. QED
        BY <4>1
    <3>10. IsSort(r, U)
      BY <2>1, <3>6, <3>7, <3>8, <3>9 DEF SetToSeqs
    <3>11. QED
      BY <3>10
  <2> HIDE DEF IsSort
  <2>2. QED
    BY <2>1
<1>3. Nat \subseteq N
  <2> HIDE DEF N
  <2>1. QED
    BY <1>1, <1>2, NatSetInduction
<1>4. Cardinality(S) \in Nat /\ S \in SUBSET S
  BY FS_CardinalityType
<1>5. \E s : IsSort(s, S)
  <2> HIDE DEF IsSort
  <2>1. QED
    BY <1>3, <1>4
<1>6. QED
  BY <1>5

\* In an increasing list of S, as many members of S are below e as come before it.
LEMMA RankInOrder ==
  ASSUME NEW S \in SUBSET Nat, IsFiniteSet(S), NEW s \in SetToSeqs(S),
         \A i, j \in DOMAIN s : i < j => s[i] < s[j]
  PROVE  \A e \in S : \E i \in DOMAIN s : s[i] = e /\ Cardinality({d \in S : d < e}) = i - 1
<1> DEFINE C == Cardinality(S)
<1>1. C \in Nat
  BY FS_CardinalityType
<1>2. s \in [1 .. C -> S] /\ \A i, j \in 1 .. C : i # j => s[i] # s[j]
  BY DEF SetToSeqs
<1> HIDE DEF C
<1>3. s \in Surjection(1 .. C, S)
  <2>1. s \in Injection(1 .. C, S)
    BY <1>2 DEF Injection, IsInjective
  <2>2. Cardinality(1 .. C) = C
    BY <1>1, FS_Interval
  <2>3. QED
    BY <2>1, <2>2, FS_Injection DEF C
<1>4. SUFFICES ASSUME NEW e \in S
               PROVE  \E i \in DOMAIN s : s[i] = e /\ Cardinality({d \in S : d < e}) = i - 1
  OBVIOUS
<1>5. PICK i \in 1 .. C : s[i] = e
  BY <1>3 DEF Surjection
<1>6. PICK T : T = {d \in S : d < e}
  OBVIOUS
<1> DEFINE f == [j \in 1 .. i - 1 |-> s[j]]
<1>7. f \in [1 .. i - 1 -> T]
  <2>1. ASSUME NEW j \in 1 .. i - 1 PROVE s[j] \in T
    <3>1. j \in 1 .. C /\ j < i
      BY <1>1
    <3>2. QED
      BY <1>2, <1>5, <1>6, <3>1
  <2>2. QED
    BY <2>1
<1>8. f \in Injection(1 .. i - 1, T)
  <2>1. \A j \in 1 .. i - 1 : j \in 1 .. C
    BY <1>1
  <2>2. QED
    BY <1>2, <1>7, <2>1 DEF Injection, IsInjective
<1>9. f \in Surjection(1 .. i - 1, T)
  <2>1. ASSUME NEW d \in T PROVE \E j \in 1 .. i - 1 : f[j] = d
    <3>1. d \in S /\ d < e
      BY <1>6
    <3>2. PICK j \in 1 .. C : s[j] = d
      BY <1>3, <3>1 DEF Surjection
    <3>3. ~(i < j) /\ i # j
      BY <1>2, <1>5, <3>1, <3>2
    <3>4. j \in 1 .. i - 1
      BY <1>1, <3>3
    <3>5. QED
      BY <3>2, <3>4
  <2>2. QED
    BY <1>7, <2>1 DEF Surjection
<1>10. ExistsBijection(1 .. i - 1, T)
  BY <1>8, <1>9 DEF ExistsBijection, Bijection
<1>11. i - 1 \in Nat
  BY <1>1
<1>12. Cardinality(T) = i - 1
  <2> HIDE DEF f
  <2>1. QED
    BY <1>10, <1>11, FS_CountingElements
<1>13. QED
  BY <1>2, <1>5, <1>6, <1>12

-----------------------------------------------------------------------------
(***************************************************************************)
(* Concatenating many sequences.                                           *)
(***************************************************************************)

\* Member k of F is member q[k] of the sequence s[p[k]], one of the first n,
\* no two members of F are the same member of the same sequence, and every
\* member of these sequences is in F.
Places(F, s, n, p, q) ==
  /\ \A k \in DOMAIN F : /\ p[k] \in 1 .. n
                         /\ q[k] \in DOMAIN s[p[k]]
                         /\ F[k] = s[p[k]][q[k]]
  /\ \A k, l \in DOMAIN F : p[k] = p[l] /\ q[k] = q[l] => k = l
  /\ \A i \in 1 .. n : \A j \in DOMAIN s[i] : \E k \in DOMAIN F : F[k] = s[i][j]

\* Putting one more sequence at the end.
LEMMA PlacesConcat ==
  ASSUME NEW S, NEW s, NEW n \in Nat, NEW F \in Seq(S), s[n + 1] \in Seq(S),
         \E p, q : Places(F, s, n, p, q)
  PROVE  F \o s[n + 1] \in Seq(S) /\ \E p, q : Places(F \o s[n + 1], s, n + 1, p, q)
<1> DEFINE t == s[n + 1]
           G == F \o t
<1>1. PICK p, q : Places(F, s, n, p, q)
  OBVIOUS
<1>2. /\ G \in Seq(S) /\ Len(G) = Len(F) + Len(t) /\ DOMAIN G = 1 .. Len(G)
      /\ Len(F) \in Nat /\ Len(t) \in Nat /\ DOMAIN F = 1 .. Len(F) /\ DOMAIN t = 1 .. Len(t)
      /\ \A k \in 1 .. Len(G) : \/ k \in 1 .. Len(F) /\ G[k] = F[k]
                                \/ k - Len(F) \in 1 .. Len(t) /\ G[k] = t[k - Len(F)]
                                   /\ ~(k <= Len(F))
  OBVIOUS
<1> DEFINE p2 == [k \in 1 .. Len(G) |-> IF k <= Len(F) THEN p[k] ELSE n + 1]
           q2 == [k \in 1 .. Len(G) |-> IF k <= Len(F) THEN q[k] ELSE k - Len(F)]
<1> HIDE DEF G
<1>3. ASSUME NEW k \in 1 .. Len(G)
      PROVE  \/ k \in 1 .. Len(F) /\ G[k] = F[k] /\ p2[k] = p[k] /\ q2[k] = q[k]
             \/ /\ k - Len(F) \in 1 .. Len(t) /\ G[k] = t[k - Len(F)]
                /\ p2[k] = n + 1 /\ q2[k] = k - Len(F)
  BY <1>2
<1> HIDE DEF p2, q2
<1>4. \A k \in DOMAIN G : /\ p2[k] \in 1 .. n + 1 /\ q2[k] \in DOMAIN s[p2[k]]
                          /\ G[k] = s[p2[k]][q2[k]]
  <2>1. ASSUME NEW k \in 1 .. Len(G)
        PROVE  p2[k] \in 1 .. n + 1 /\ q2[k] \in DOMAIN s[p2[k]] /\ G[k] = s[p2[k]][q2[k]]
    <3>1. CASE k \in 1 .. Len(F) /\ G[k] = F[k] /\ p2[k] = p[k] /\ q2[k] = q[k]
      <4>1. p[k] \in 1 .. n /\ q[k] \in DOMAIN s[p[k]] /\ F[k] = s[p[k]][q[k]]
        BY <1>1, <1>2, <3>1 DEF Places
      <4>2. QED
        BY <3>1, <4>1
    <3>2. CASE /\ k - Len(F) \in 1 .. Len(t) /\ G[k] = t[k - Len(F)]
               /\ p2[k] = n + 1 /\ q2[k] = k - Len(F)
      BY <1>2, <3>2
    <3>3. QED
      BY <1>3, <3>1, <3>2
  <2>2. QED
    BY <1>2, <2>1
<1>5. ASSUME NEW k \in 1 .. Len(G), NEW l \in 1 .. Len(G), p2[k] = p2[l], q2[k] = q2[l]
      PROVE  k = l
  <2>1. CASE k \in 1 .. Len(F) /\ l \in 1 .. Len(F)
    <3>1. p2[k] = p[k] /\ q2[k] = q[k] /\ p2[l] = p[l] /\ q2[l] = q[l]
      BY <1>2, <1>3, <2>1
    <3>2. QED
      BY <1>1, <1>2, <1>5, <2>1, <3>1 DEF Places
  <2>2. CASE k \notin 1 .. Len(F) /\ l \notin 1 .. Len(F)
    BY <1>2, <1>3, <1>5, <2>2
  <2>3. \A j \in 1 .. Len(F) : j \in 1 .. Len(G) /\ p2[j] \in 1 .. n
    BY <1>1, <1>2, <1>3 DEF Places
  <2>4. \A j \in 1 .. Len(G) : j \notin 1 .. Len(F) => p2[j] = n + 1
    BY <1>2, <1>3
  <2>5. QED
    BY <1>5, <2>1, <2>2, <2>3, <2>4
<1>6. ASSUME NEW i \in 1 .. n + 1, NEW j \in DOMAIN s[i]
      PROVE  \E k \in DOMAIN G : G[k] = s[i][j]
  <2>1. CASE i \in 1 .. n
    <3>1. PICK k \in DOMAIN F : F[k] = s[i][j]
      BY <1>1, <2>1 DEF Places
    <3>2. k \in DOMAIN G /\ G[k] = F[k]
      BY <1>2
    <3>3. QED
      BY <3>1, <3>2
  <2>2. CASE i = n + 1
    <3>1. j \in 1 .. Len(t) /\ s[i][j] = t[j]
      BY <1>2, <2>2
    <3>2. Len(F) + j \in 1 .. Len(G) /\ (Len(F) + j) - Len(F) = j /\ ~(Len(F) + j <= Len(F))
      BY <1>2, <3>1
    <3>3. G[Len(F) + j] = t[j]
      BY <1>2, <3>2
    <3>4. QED
      BY <1>2, <3>1, <3>2, <3>3
  <2>3. QED
    BY <2>1, <2>2
<1>7. Places(G, s, n + 1, p2, q2)
  BY <1>2, <1>4, <1>5, <1>6 DEF Places
<1>8. QED
  BY <1>2, <1>7 DEF G

\* The recursive function in the definition of FlattenSeq exists.
LEMMA FlattenExists ==
  ASSUME NEW s, NEW m \in Nat
  PROVE  \E f : f = [i \in 1 .. m |-> IF i = 1 THEN s[i] ELSE f[i - 1] \o s[i]]
<1> DEFINE Cat(x, i) == x \o s[i]
           Rec(f, n) == f = [i \in 1 .. n |-> IF i = 1 THEN s[i] ELSE Cat(f[i - 1], i)]
           N == {n \in Nat : \E f : Rec(f, n)}
<1> HIDE DEF Cat
<1>1. 0 \in N
  <2>1. Rec([i \in 1 .. 0 |-> 0], 0)
    OBVIOUS
  <2> HIDE DEF Rec
  <2>2. QED
    BY <2>1
<1>2. ASSUME NEW n \in Nat, n \in N PROVE n + 1 \in N
  <2>1. PICK f : Rec(f, n)
    BY <1>2
  <2>2. /\ n >= 1 => f[1] = s[1]
        /\ \A i \in 2 .. n : f[i] = Cat(f[i - 1], i)
    BY <2>1
  <2> DEFINE g == [i \in 1 .. n + 1 |-> IF i <= n THEN f[i] ELSE
                                        IF i = 1 THEN s[i] ELSE Cat(f[i - 1], i)]
  <2>3. ASSUME NEW i \in 1 .. n + 1 PROVE g[i] = IF i = 1 THEN s[i] ELSE Cat(g[i - 1], i)
    <3>1. CASE i = 1
      BY <2>2, <3>1
    <3>2. CASE i # 1
      <4>1. i - 1 \in 1 .. n /\ g[i - 1] = f[i - 1]
        BY <3>2
      <4>2. g[i] = Cat(f[i - 1], i)
        <5>1. CASE i <= n
          <6>1. g[i] = f[i] /\ i \in 2 .. n
            BY <3>2, <5>1
          <6> HIDE DEF g
          <6>2. QED
            BY <2>2, <6>1
        <5>2. CASE ~(i <= n)
          BY <3>2, <5>2
        <5>3. QED
          BY <5>1, <5>2
      <4>3. QED
        BY <3>2, <4>1, <4>2
    <3>3. QED
      BY <3>1, <3>2
  <2>4. DOMAIN g = 1 .. n + 1 /\ g = [i \in DOMAIN g |-> g[i]]
    OBVIOUS
  <2> HIDE DEF g
  <2>5. Rec(g, n + 1)
    BY <2>3, <2>4
  <2> HIDE DEF Rec
  <2>6. QED
    BY <2>5
<1>3. Nat \subseteq N
  <2> HIDE DEF N
  <2>1. QED
    BY <1>1, <1>2, NatSetInduction
<1>4. QED
  BY <1>3 DEF Cat

\* FlattenSeq gives the members of the sequences, each in its place.
LEMMA FlattenPlaces ==
  ASSUME NEW S, NEW s \in Seq(Seq(S))
  PROVE  FlattenSeq(s) \in Seq(S) /\ \E p, q : Places(FlattenSeq(s), s, Len(s), p, q)
<1>0. Len(s) \in Nat /\ DOMAIN s = 1 .. Len(s) /\ \A i \in 1 .. Len(s) : s[i] \in Seq(S)
  OBVIOUS
<1>1. CASE Len(s) = 0
  <2>1. FlattenSeq(s) = s /\ s = <<>>
    BY <1>1 DEF FlattenSeq
  <2>2. QED
    BY <2>1 DEF Places
<1>2. CASE Len(s) # 0
  <2> DEFINE m == Len(s)
             f == CHOOSE f : f = [i \in 1 .. m |-> IF i = 1 THEN s[i] ELSE f[i - 1] \o s[i]]
  <2>1. FlattenSeq(s) = f[m]
    BY <1>2 DEF FlattenSeq
  <2>2. f = [i \in 1 .. m |-> IF i = 1 THEN s[i] ELSE f[i - 1] \o s[i]]
    BY <1>0, FlattenExists
  <2> HIDE DEF f
  <2>3. \A i \in 1 .. m : f[i] = IF i = 1 THEN s[i] ELSE f[i - 1] \o s[i]
    BY <2>2
  <2> DEFINE Good(i) == f[i] \in Seq(S) /\ \E p, q : Places(f[i], s, i, p, q)
             N == {n \in Nat : n + 1 <= m => Good(n + 1)}
  <2>4. 0 \in N
    <3>1. f[1] = s[1] /\ s[1] \in Seq(S)
      BY <1>0, <1>2, <2>3
    <3>2. Places(s[1], s, 1, [k \in DOMAIN s[1] |-> 1], [k \in DOMAIN s[1] |-> k])
      BY DEF Places
    <3>3. Good(1)
      BY <3>1, <3>2
    <3> HIDE DEF Good
    <3>4. QED
      BY <3>3
  <2>5. ASSUME NEW n \in Nat, n \in N PROVE n + 1 \in N
    <3>1. ASSUME n + 2 <= m PROVE Good(n + 2)
      <4>0. n + 2 \in 1 .. m /\ (n + 2) - 1 = n + 1 /\ n + 2 # 1
        BY <1>0, <3>1
      <4>1. f[n + 2] = f[n + 1] \o s[n + 2] /\ s[n + 2] \in Seq(S)
        BY <1>0, <2>3, <4>0
      <4>2. Good(n + 1)
        BY <1>0, <2>5, <3>1
      <4>3. (n + 1) + 1 = n + 2 /\ n + 1 \in Nat
        OBVIOUS
      <4>4. /\ f[n + 1] \o s[n + 2] \in Seq(S)
            /\ \E p, q : Places(f[n + 1] \o s[n + 2], s, n + 2, p, q)
        <5> DEFINE k == n + 1
        <5>1. k \in Nat /\ f[k] \in Seq(S) /\ s[k + 1] \in Seq(S) /\ \E p, q : Places(f[k], s, k, p, q)
          BY <4>1, <4>2, <4>3
        <5> HIDE DEF k
        <5>2. f[k] \o s[k + 1] \in Seq(S) /\ \E p, q : Places(f[k] \o s[k + 1], s, k + 1, p, q)
          BY <5>1, PlacesConcat
        <5>3. k = n + 1 /\ k + 1 = n + 2
          BY DEF k
        <5>4. QED
          BY <5>2, <5>3
      <4>5. QED
        BY <4>1, <4>4
    <3> HIDE DEF Good
    <3>2. (n + 1) + 1 = n + 2
      OBVIOUS
    <3>3. QED
      BY <3>1, <3>2
  <2>6. Nat \subseteq N
    <3> HIDE DEF N
    <3>1. QED
      BY <2>4, <2>5, NatSetInduction
  <2>7. Good(m)
    <3>1. m - 1 \in Nat /\ (m - 1) + 1 = m
      BY <1>0, <1>2
    <3> HIDE DEF Good
    <3>2. m - 1 \in N
      BY <2>6, <3>1
    <3>3. QED
      BY <3>1, <3>2
  <2>8. QED
    BY <2>1, <2>7
<1>3. QED
  BY <1>1, <1>2

-----------------------------------------------------------------------------
(***************************************************************************)
(* Sums.                                                                   *)
(***************************************************************************)

\* f[i] is the sum of the first i of the m numbers w.
Sums(f, w, m) == f = [i \in 0 .. m |-> IF i = 0 THEN 0 ELSE f[i - 1] + w[i]]

\* What that says of the values of f.
LEMMA SumsValues ==
  ASSUME NEW m \in Nat, NEW f, NEW w, Sums(f, w, m)
  PROVE  f[0] = 0 /\ \A i \in 1 .. m : f[i] = f[i - 1] + w[i]
BY DEF Sums

\* The partial sums exist.
LEMMA SumsExist ==
  ASSUME NEW m \in Nat, NEW w
  PROVE  \E f : Sums(f, w, m)
<1> DEFINE N == {n \in Nat : \E f : Sums(f, w, n)}
<1>1. 0 \in N
  <2>1. Sums([i \in 0 .. 0 |-> 0], w, 0)
    BY DEF Sums
  <2>2. QED
    BY <2>1
<1>2. ASSUME NEW n \in Nat, n \in N PROVE n + 1 \in N
  <2>1. PICK f : Sums(f, w, n)
    BY <1>2
  <2>2. f[0] = 0 /\ \A i \in 1 .. n : f[i] = f[i - 1] + w[i]
    BY <2>1, SumsValues
  <2> DEFINE g == [i \in 0 .. n + 1 |-> IF i <= n THEN f[i] ELSE f[n] + w[i]]
  <2>3. ASSUME NEW i \in 0 .. n + 1 PROVE g[i] = IF i = 0 THEN 0 ELSE g[i - 1] + w[i]
    <3>1. CASE i = 0
      BY <2>2, <3>1
    <3>2. CASE i \in 1 .. n
      <4>1. g[i] = f[i] /\ g[i - 1] = f[i - 1]
        BY <3>2
      <4>2. QED
        BY <2>2, <3>2, <4>1
    <3>3. CASE i = n + 1
      <4>1. g[i] = f[n] + w[i] /\ g[i - 1] = f[n]
        BY <3>3
      <4>2. QED
        BY <3>3, <4>1
    <3>4. QED
      BY <3>1, <3>2, <3>3
  <2>4. g = [i \in 0 .. n + 1 |-> g[i]]
    OBVIOUS
  <2> HIDE DEF g
  <2>5. Sums(g, w, n + 1)
    BY <2>3, <2>4 DEF Sums
  <2>6. QED
    BY <2>5
<1>3. Nat \subseteq N
  <2> HIDE DEF N
  <2>1. QED
    BY <1>1, <1>2, NatSetInduction
<1>4. QED
  BY <1>3

\* Sums of naturals are naturals.
LEMMA SumsNat ==
  ASSUME NEW m \in Nat, NEW f, NEW w, Sums(f, w, m), \A i \in 1 .. m : w[i] \in Nat
  PROVE  \A i \in 0 .. m : f[i] \in Nat
<1> DEFINE N == {i \in Nat : i <= m => f[i] \in Nat}
<1>0. f[0] = 0 /\ \A i \in 1 .. m : f[i] = f[i - 1] + w[i]
  BY SumsValues
<1>1. 0 \in N
  BY <1>0
<1>2. ASSUME NEW i \in Nat, i \in N PROVE i + 1 \in N
  <2>1. ASSUME i + 1 <= m PROVE f[i + 1] \in Nat
    <3>1. i + 1 \in 1 .. m /\ (i + 1) - 1 = i /\ f[i] \in Nat
      BY <1>2, <2>1
    <3>2. QED
      BY <1>0, <3>1
  <2>2. QED
    BY <2>1
<1>3. Nat \subseteq N
  <2> HIDE DEF N
  <2>1. QED
    BY <1>1, <1>2, NatSetInduction
<1>4. QED
  BY <1>3

\* Smaller numbers, and zeros after them, have no larger sum.
LEMMA SumsBelow ==
  ASSUME NEW m \in Nat, NEW k \in Nat, m <= k, NEW f, NEW w, NEW g, NEW v,
         Sums(f, w, m), Sums(g, v, k), \A i \in 1 .. m : w[i] \in Nat,
         \A i \in 1 .. k : v[i] \in Nat,
         \A i \in 1 .. m : v[i] <= w[i], \A i \in m + 1 .. k : v[i] = 0
  PROVE  g[k] <= f[m]
<1> DEFINE N == {i \in Nat : i <= k => g[i] <= f[IF i <= m THEN i ELSE m]}
<1>0. /\ f[0] = 0 /\ \A i \in 1 .. m : f[i] = f[i - 1] + w[i]
      /\ g[0] = 0 /\ \A i \in 1 .. k : g[i] = g[i - 1] + v[i]
  BY SumsValues
<1>1. (\A i \in 0 .. m : f[i] \in Nat) /\ \A i \in 0 .. k : g[i] \in Nat
  BY SumsNat
<1>2. 0 \in N
  BY <1>0
<1>3. ASSUME NEW i \in Nat, i \in N PROVE i + 1 \in N
  <2>1. ASSUME i + 1 <= k PROVE g[i + 1] <= f[IF i + 1 <= m THEN i + 1 ELSE m]
    <3>1. /\ i + 1 \in 1 .. k /\ (i + 1) - 1 = i /\ g[i + 1] = g[i] + v[i + 1]
          /\ g[i] <= f[IF i <= m THEN i ELSE m] /\ g[i] \in Nat /\ v[i + 1] \in Nat
      BY <1>0, <1>1, <1>3, <2>1
    <3>2. CASE i + 1 <= m
      <4>1. /\ i + 1 \in 1 .. m /\ i \in 0 .. m /\ f[i + 1] = f[i] + w[i + 1]
            /\ v[i + 1] <= w[i + 1] /\ w[i + 1] \in Nat
        BY <1>0, <3>1, <3>2
      <4>2. f[i] \in Nat /\ g[i] <= f[i]
        BY <1>1, <3>1, <4>1
      <4>3. g[i] + v[i + 1] <= f[i] + w[i + 1]
        BY <3>1, <4>1, <4>2
      <4>4. QED
        BY <3>1, <3>2, <4>1, <4>3
    <3>3. CASE ~(i + 1 <= m)
      <4>1. i + 1 \in m + 1 .. k
        BY <3>1, <3>3
      <4>2. v[i + 1] = 0 /\ g[i + 1] = g[i]
        BY <3>1, <4>1
      <4>3. (IF i <= m THEN i ELSE m) = m
        BY <3>3
      <4>4. QED
        BY <3>1, <3>3, <4>2, <4>3
    <3>4. QED
      BY <3>2, <3>3
  <2>2. QED
    BY <2>1
<1>4. Nat \subseteq N
  <2> HIDE DEF N
  <2>1. QED
    BY <1>2, <1>3, NatSetInduction
<1>5. g[k] <= f[IF k <= m THEN k ELSE m]
  BY <1>4
<1>6. QED
  BY <1>5

\* Making one of the numbers larger by d makes the sum larger by no more.
LEMMA SumsAdd ==
  ASSUME NEW m \in Nat, NEW f, NEW w, NEW g, NEW v, NEW e \in 1 .. m, NEW d \in Nat,
         Sums(f, w, m), Sums(g, v, m), \A i \in 1 .. m : w[i] \in Nat /\ v[i] \in Nat,
         v[e] <= w[e] + d, \A i \in 1 .. m : i # e => v[i] <= w[i]
  PROVE  g[m] <= f[m] + d
<1> DEFINE N == {i \in Nat : i <= m => g[i] <= f[i] + d /\ (i < e => g[i] <= f[i])}
<1>0. /\ f[0] = 0 /\ \A i \in 1 .. m : f[i] = f[i - 1] + w[i]
      /\ g[0] = 0 /\ \A i \in 1 .. m : g[i] = g[i - 1] + v[i]
  BY SumsValues
<1>1. (\A i \in 0 .. m : f[i] \in Nat) /\ \A i \in 0 .. m : g[i] \in Nat
  BY SumsNat
<1>2. 0 \in N
  BY <1>0
<1>3. ASSUME NEW i \in Nat, i \in N PROVE i + 1 \in N
  <2>1. ASSUME i + 1 <= m PROVE g[i + 1] <= f[i + 1] + d /\ (i + 1 < e => g[i + 1] <= f[i + 1])
    <3>1. i + 1 \in 1 .. m /\ (i + 1) - 1 = i /\ i \in 0 .. m
      BY <2>1
    <3>2. /\ g[i + 1] = g[i] + v[i + 1] /\ f[i + 1] = f[i] + w[i + 1]
          /\ g[i] \in Nat /\ f[i] \in Nat /\ v[i + 1] \in Nat /\ w[i + 1] \in Nat
          /\ g[i] <= f[i] + d /\ (i < e => g[i] <= f[i])
      BY <1>0, <1>1, <1>3, <3>1
    <3>3. CASE i + 1 = e
      <4>1. v[i + 1] <= w[i + 1] + d /\ i < e
        BY <3>3
      <4>2. QED
        BY <3>2, <3>3, <4>1
    <3>4. CASE i + 1 # e
      <4>1. v[i + 1] <= w[i + 1]
        BY <3>1, <3>4
      <4>2. QED
        BY <3>2, <4>1
    <3>5. QED
      BY <3>3, <3>4
  <2>2. QED
    BY <2>1
<1>4. Nat \subseteq N
  <2> HIDE DEF N
  <2>1. QED
    BY <1>2, <1>3, NatSetInduction
<1>5. QED
  BY <1>4
=============================================================================
