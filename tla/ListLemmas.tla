----------------------------- MODULE ListLemmas -----------------------------
(***************************************************************************)
(* Lemmas the proofs share: induction and recursion over the naturals, stated *)
(* of sets and functions instead of operators, what Sorting does, and what    *)
(* joining, flattening and cutting do to lists of anything.                   *)
(***************************************************************************)
EXTENDS Sorting, Sequences, SequencesExt, FiniteSetTheorems, SequenceTheorems, TLAPS

\* A set of naturals that is not empty has a least element.
LEMMA Least ==
    ASSUME NEW T, T \subseteq Nat, T # {}
    PROVE  \E x \in T : \A y \in T : x <= y
<1> DEFINE R == {ss \in Nat \X Nat : ss[1] < ss[2]}
<1>1. IsWellFoundedOn(R, Nat)
  BY NatLessThanWellFounded DEF OpToRel
<1> HIDE DEF R
<1>2. PICK x \in T : \A y \in T : ~ (<<y, x>> \in R)
  BY <1>1, WFMin
<1>3. ASSUME NEW y \in T PROVE x <= y
  <2>1. x \in Nat /\ y \in Nat
    OBVIOUS
  <2>2. y < x => <<y, x>> \in R
    BY <2>1 DEF R
  <2> QED
    BY <1>2, <2>1, <2>2
<1> QED
  BY <1>3

\* What holds of the first number and passes to the next holds up to n.
LEMMA UpTo ==
    ASSUME NEW n \in Nat, NEW P, 0 \in P, \A i \in 1..n : i - 1 \in P => i \in P
    PROVE  0..n \subseteq P
<1> SUFFICES ASSUME ~(0..n \subseteq P) PROVE FALSE
  OBVIOUS
<1> DEFINE T == {i \in 0..n : i \notin P}
<1>1. T \subseteq Nat /\ T # {}
  OBVIOUS
<1>2. PICK x \in T : \A y \in T : x <= y
  BY <1>1, Least
<1>3. x \in 1..n /\ x - 1 \in 0..n /\ ~(x <= x - 1)
  BY <1>2
<1>4. x - 1 \in P
  BY <1>2, <1>3
<1> QED
  BY <1>2, <1>3, <1>4

\* The values a step takes a first value through.
Run(g, n, S, a, step) == /\ g \in [0..n -> S]
                         /\ g[0] = a
                         /\ \A i \in 1..n : g[i] = step[<<i, g[i - 1]>>]

\* A step can be taken any number of times.
LEMMA Iterates ==
    ASSUME NEW n \in Nat, NEW S, NEW a \in S, NEW step \in [Nat \X S -> S]
    PROVE  \E g : Run(g, n, S, a, step)
<1> DEFINE Good(m, g) == g[0] = a /\ \A i \in 1..m : g[i] = step[<<i, g[i - 1]>>]
<1> DEFINE P == {m \in 0..n : \E g \in [0..m -> S] : Good(m, g)}
<1>1. 0 \in P
  <2> DEFINE g == [i \in 0..0 |-> a]
  <2>1. g \in [0..0 -> S] /\ Good(0, g)
    OBVIOUS
  <2>2. 0 \in 0..n
    OBVIOUS
  <2> HIDE DEF g
  <2> QED
    BY <2>1, <2>2
<1>2. ASSUME NEW m \in 1..n, m - 1 \in P PROVE m \in P
  <2>1. PICK g \in [0..(m - 1) -> S] : Good(m - 1, g)
    BY <1>2
  <2> DEFINE h == [i \in 0..m |-> IF i = m THEN step[<<m, g[m - 1]>>] ELSE g[i]]
  <2>2. g[m - 1] \in S /\ step[<<m, g[m - 1]>>] \in S
    <3>1. m - 1 \in 0..(m - 1)
      OBVIOUS
    <3>2. g[m - 1] \in S
      BY <3>1
    <3>3. <<m, g[m - 1]>> \in Nat \X S
      BY <3>2
    <3> QED
      BY <3>2, <3>3
  <2>3. \A i \in 0..m : i # m => i \in 0..(m - 1)
    OBVIOUS
  <2>4. h \in [0..m -> S]
    BY <2>2, <2>3
  <2>5. h[0] = a /\ h[m] = step[<<m, g[m - 1]>>] /\ h[m - 1] = g[m - 1]
    BY <2>1
  <2>6. ASSUME NEW i \in 1..m PROVE h[i] = step[<<i, h[i - 1]>>]
    <3>1. CASE i = m
      BY <3>1, <2>5
    <3>2. CASE i # m
      <4>1. i \in 1..(m - 1) /\ i - 1 \in 0..m /\ i \in 0..m /\ i - 1 # m
        BY <3>2
      <4>2. h[i] = g[i] /\ h[i - 1] = g[i - 1]
        BY <4>1, <3>2
      <4> QED
        BY <4>1, <4>2, <2>1
    <3> QED
      BY <3>1, <3>2
  <2>7. m \in 0..n
    OBVIOUS
  <2> HIDE DEF h
  <2> QED
    BY <2>4, <2>5, <2>6, <2>7
<1>3. 0..n \subseteq P
  <2> HIDE DEF P
  <2> QED
    BY <1>1, <1>2, UpTo
<1>4. n \in P
  BY <1>3
<1> QED
  BY <1>4 DEF Run

------------------------------------------------------------------------------
(* The sort.                                                                *)

\* The order of the sort is strict and total.
LEMMA BeforeTotal ==
  ASSUME NEW n \in Nat, NEW f \in [1..n -> Int]
  PROVE  /\ \A i \in 1..n : ~ Before(f, i, i)
         /\ \A i, j \in 1..n : i # j => Before(f, i, j) \/ Before(f, j, i)
         /\ \A i, j, k \in 1..n : Before(f, i, j) /\ Before(f, j, k) => Before(f, i, k)
<1>1. \A i \in 1..n : f[i] \in Int /\ i \in Int
  OBVIOUS
<1> QED
  BY <1>1 DEF Before

\* The rank of an entry says where it is, and there is an entry of every rank.
LEMMA Ranks ==
  ASSUME NEW n \in Nat, NEW f \in [1..n -> Int]
  PROVE  /\ \A i \in 1..n : Rank(f, i) \in 1..n
         /\ \A i, j \in 1..n : Before(f, i, j) => Rank(f, i) < Rank(f, j)
         /\ \A k \in 1..n : \E i \in 1..n : Rank(f, i) = k
<1> DEFINE D == 1..n
           B(i) == {j \in D : Before(f, j, i)}
<1>1. IsFiniteSet(D) /\ Cardinality(D) = n
  <2>1. CASE n = 0
    BY <2>1, FS_Interval
  <2>2. CASE n > 0
    BY <2>2, FS_Interval
  <2> QED
    BY <2>1, <2>2
<1>2. \A i \in D : Rank(f, i) = Cardinality(B(i)) + 1
  BY DEF Rank
<1>3. \A i \in D : i \notin B(i) /\ B(i) \subseteq D
  BY BeforeTotal
<1>4. \A i, j \in D : Before(f, i, j) => i \in B(j) /\ B(i) \subseteq B(j)
  BY BeforeTotal
<1> HIDE DEF D, B
<1>5. ASSUME NEW i \in D PROVE IsFiniteSet(B(i)) /\ Cardinality(B(i)) \in Nat /\ Cardinality(B(i)) < n
  <2>1. B(i) \subseteq D \ {i}
    BY <1>3
  <2>2. IsFiniteSet(D \ {i}) /\ Cardinality(D \ {i}) = n - 1
    BY <1>1, FS_RemoveElement
  <2>3. IsFiniteSet(B(i)) /\ Cardinality(B(i)) <= n - 1
    BY <2>1, <2>2, FS_Subset
  <2> QED
    BY <2>3, FS_CardinalityType
<1>6. ASSUME NEW i \in D, NEW j \in D, Before(f, i, j) PROVE Cardinality(B(i)) < Cardinality(B(j))
  <2>1. B(i) \subseteq B(j) /\ B(i) # B(j)
    BY <1>3, <1>4, <1>6
  <2>2. IsFiniteSet(B(j)) /\ Cardinality(B(i)) \in Nat /\ Cardinality(B(j)) \in Nat
    BY <1>5
  <2>3. Cardinality(B(i)) <= Cardinality(B(j)) /\ Cardinality(B(i)) # Cardinality(B(j))
    BY <2>1, <2>2, FS_Subset
  <2> QED
    BY <2>2, <2>3
<1>7. ASSUME NEW i \in D PROVE Rank(f, i) \in D
  <2> DEFINE c == Cardinality(B(i))
  <2>1. c \in Nat /\ c < n /\ Rank(f, i) = c + 1
    BY <1>2, <1>5
  <2> HIDE DEF c
  <2> QED
    BY <2>1 DEF D
<1>8. \A i, j \in D : Before(f, i, j) => Rank(f, i) < Rank(f, j)
  BY <1>2, <1>5, <1>6
<1> DEFINE g == [i \in D |-> Rank(f, i)]
<1>9. g \in Injection(D, D)
  <2>1. g \in [D -> D]
    BY <1>7
  <2>2. ASSUME NEW i \in D, NEW j \in D, i # j PROVE g[i] # g[j]
    <3>1. Before(f, i, j) \/ Before(f, j, i)
      BY <2>2, BeforeTotal DEF D
    <3>2. Rank(f, i) \in Int /\ Rank(f, j) \in Int
      BY <1>7 DEF D
    <3> QED
      BY <1>8, <3>1, <3>2
  <2> QED
    BY <2>1, <2>2 DEF Injection, IsInjective
<1>10. g \in Surjection(D, D)
  <2> HIDE DEF g
  <2> QED
    BY <1>1, <1>9, FS_Injection
<1>11. \A k \in D : \E i \in D : Rank(f, i) = k
  BY <1>10 DEF Surjection
<1> QED
  BY <1>7, <1>8, <1>11 DEF D

\* The entry the sort puts at a place.
At(f, k) == Descending(f)[k]

\* The sort gives every place exactly once, and its values do not rise.
LEMMA SortedPlaces ==
  ASSUME NEW n \in Nat, NEW f \in [1..n -> Int]
  PROVE  /\ \A k \in 1..n : At(f, k) \in 1..n
         /\ \A k, l \in 1..n : k < l => Before(f, At(f, k), At(f, l))
         /\ \A j \in 1..n : \E k \in 1..n : j = At(f, k)
<1>1. ASSUME NEW k \in 1..n PROVE At(f, k) \in 1..n /\ Rank(f, At(f, k)) = k
  <2>1. \E i \in 1..n : Rank(f, i) = k
    BY Ranks
  <2> QED
    BY <2>1 DEF At, Descending
<1>2. ASSUME NEW k \in 1..n, NEW l \in 1..n, k < l PROVE Before(f, At(f, k), At(f, l))
  <2>1. /\ At(f, k) \in 1..n /\ Rank(f, At(f, k)) = k
        /\ At(f, l) \in 1..n /\ Rank(f, At(f, l)) = l
    BY <1>1
  <2>2. ~ Before(f, At(f, l), At(f, k))
    <3>1. Before(f, At(f, l), At(f, k)) => Rank(f, At(f, l)) < Rank(f, At(f, k))
      BY <2>1, Ranks
    <3> QED
      BY <1>2, <2>1, <3>1
  <2>3. At(f, k) # At(f, l)
    BY <1>2, <2>1
  <2> QED
    BY <2>1, <2>2, <2>3, BeforeTotal
<1>3. ASSUME NEW j \in 1..n PROVE \E k \in 1..n : j = At(f, k)
  <2>1. Rank(f, j) \in 1..n
    BY Ranks
  <2>2. At(f, Rank(f, j)) \in 1..n /\ Rank(f, At(f, Rank(f, j))) = Rank(f, j)
    BY <1>1, <2>1
  <2>3. ~ Before(f, j, At(f, Rank(f, j))) /\ ~ Before(f, At(f, Rank(f, j)), j)
    <3> DEFINE a == At(f, Rank(f, j))
    <3>1. a \in 1..n /\ Rank(f, a) = Rank(f, j) /\ Rank(f, j) \in Int
      BY <2>1, <2>2
    <3> HIDE DEF a
    <3>2. /\ Before(f, j, a) => Rank(f, j) < Rank(f, a)
          /\ Before(f, a, j) => Rank(f, a) < Rank(f, j)
      BY <3>1, Ranks
    <3>3. ~ Before(f, j, a) /\ ~ Before(f, a, j)
      BY <3>1, <3>2
    <3> QED
      BY <3>3 DEF a
  <2>4. j = At(f, Rank(f, j))
    BY <2>2, <2>3, BeforeTotal
  <2> QED
    BY <2>1, <2>4
<1> QED
  BY <1>1, <1>2, <1>3

------------------------------------------------------------------------------
(* Lists of anything.                                                       *)

\* A list of anything.
IsList(l) == \E S : l \in Seq(S)

\* A list has its length and its places.
LEMMA ListPlaces ==
    ASSUME NEW l, IsList(l)
    PROVE  Len(l) \in Nat /\ DOMAIN l = 1..Len(l)
<1>1. PICK S : l \in Seq(S)
  BY DEF IsList
<1> QED
  BY <1>1

\* A function on the first n numbers is a list.
LEMMA FamilyList ==
    ASSUME NEW n \in Nat, NEW f, f = [i \in 1..n |-> f[i]]
    PROVE  IsList(f) /\ Len(f) = n
<1> DEFINE T == {f[i] : i \in 1..n}
<1>1. f \in [1..n -> T]
  OBVIOUS
<1> HIDE DEF T
<1>2. f \in Seq(T) /\ Len(f) = n
  BY <1>1
<1> QED
  BY <1>2 DEF IsList

\* A list goes over into a list of more.
LEMMA WiderList ==
    ASSUME NEW S, NEW T, S \subseteq T, NEW l \in Seq(S)
    PROVE  l \in Seq(T)
OBVIOUS

\* A list is a list of its entries.
LEMMA OwnEntries ==
    ASSUME NEW l, IsList(l), NEW T, \A i \in 1..Len(l) : l[i] \in T
    PROVE  l \in Seq(T)
<1>1. PICK S : l \in Seq(S)
  BY DEF IsList
<1>2. Len(l) \in Nat /\ l \in [1..Len(l) -> S]
  BY <1>1
<1>3. l \in [1..Len(l) -> T]
  BY <1>2
<1> QED
  BY <1>2, <1>3

\* Two lists one after the other.
LEMMA JoinedLists ==
    ASSUME NEW a, NEW b, IsList(a), IsList(b)
    PROVE  /\ IsList(a \o b) /\ Len(a \o b) = Len(a) + Len(b)
           /\ \A i \in 1..Len(a) : (a \o b)[i] = a[i]
           /\ \A i \in 1..Len(b) : (a \o b)[Len(a) + i] = b[i]
<1>1. PICK A : a \in Seq(A)
  BY DEF IsList
<1>2. PICK B : b \in Seq(B)
  BY DEF IsList
<1> DEFINE T == A \cup B
<1>3. a \in Seq(T) /\ b \in Seq(T)
  <2>1. A \subseteq T /\ B \subseteq T
    OBVIOUS
  <2> HIDE DEF T
  <2> QED
    BY <1>1, <1>2, <2>1, WiderList
<1> HIDE DEF T
<1>4. /\ a \o b \in Seq(T) /\ Len(a \o b) = Len(a) + Len(b)
      /\ \A i \in 1..Len(a) : (a \o b)[i] = a[i]
      /\ \A i \in 1..Len(b) : (a \o b)[Len(a) + i] = b[i]
  BY <1>3
<1> QED
  BY <1>4 DEF IsList

\* Lists put one after the other keep their entries.
LEMMA FlatList ==
    ASSUME NEW seqs, IsList(seqs), \A i \in 1..Len(seqs) : IsList(seqs[i])
    PROVE  /\ IsList(FlattenSeq(seqs))
           /\ \A i \in 1..Len(seqs) : \A k \in 1..Len(seqs[i]) :
                  \E j \in 1..Len(FlattenSeq(seqs)) : FlattenSeq(seqs)[j] = seqs[i][k]
<1> DEFINE n == Len(seqs)
           T == UNION {{seqs[i][k] : k \in 1..Len(seqs[i])} : i \in 1..n}
           S == Seq(T)
           empty == <<>>
           Longer(s, i) == IF i = 1 THEN seqs[i] ELSE s \o seqs[i]
           step == [p \in Nat \X S |-> IF p[1] \in 1..n THEN Longer(p[2], p[1]) ELSE <<>>]
           flatten[i \in 1..Len(seqs)] == IF i = 1 THEN seqs[i] ELSE flatten[i - 1] \o seqs[i]
<1>0. n \in Nat
  BY ListPlaces
<1>1. CASE n = 0
  <2>1. FlattenSeq(seqs) = seqs
    BY <1>1 DEF FlattenSeq
  <2>2. 1..n = {}
    BY <1>1
  <2> QED
    BY <2>1, <2>2
<1>2. CASE n # 0
  <2>0. FlattenSeq(seqs) = flatten[n] /\ n \in 1..n
    BY <1>0, <1>2 DEF FlattenSeq
  <2>1. \A i \in 1..n : seqs[i] \in S
    <3>1. ASSUME NEW i \in 1..n PROVE seqs[i] \in Seq(T)
      <4>1. \A k \in 1..Len(seqs[i]) : seqs[i][k] \in T
        OBVIOUS
      <4> HIDE DEF T
      <4> QED
        BY <4>1, OwnEntries
    <3> QED
      BY <3>1
  <2>2. empty \in S /\ \A i \in 1..n, s \in S : Longer(s, i) \in S
    <3> HIDE DEF T, n
    <3>1. empty \in S
      OBVIOUS
    <3>2. ASSUME NEW i \in 1..n, NEW s \in S PROVE Longer(s, i) \in S
      <4>1. seqs[i] \in Seq(T) /\ s \in Seq(T)
        BY <2>1
      <4>2. s \o seqs[i] \in Seq(T)
        BY <4>1
      <4> QED
        BY <4>1, <4>2
    <3> QED
      BY <3>1, <3>2
  <2>3. /\ step \in [Nat \X S -> S]
        /\ \A i \in 1..n, s \in S : step[<<i, s>>] = Longer(s, i)
    <3> HIDE DEF Longer, S, n
    <3>1. ASSUME NEW p \in Nat \X S
          PROVE  (IF p[1] \in 1..n THEN Longer(p[2], p[1]) ELSE <<>>) \in S
      BY <2>2 DEF empty
    <3>2. \A i \in 1..n : i \in Nat
      BY <1>0
    <3> QED
      BY <3>1, <3>2
  <2>4. PICK g : Run(g, n, S, empty, step)
    <3> HIDE DEF n, S, empty, step
    <3> QED
      BY <1>0, <2>2, <2>3, Iterates
  <2> HIDE DEF step, S
  <2>5. ASSUME NEW i \in 1..n PROVE g[i - 1] \in S /\ g[i] \in S /\ g[i] = Longer(g[i - 1], i)
    <3>1. i - 1 \in 0..n /\ i \in 0..n
      BY <1>0
    <3> QED
      BY <3>1, <2>3, <2>4 DEF Run
  <2> DEFINE h == [i \in 1..n |-> g[i]]
  <2>6. h = [i \in 1..Len(seqs) |-> IF i = 1 THEN seqs[i] ELSE h[i - 1] \o seqs[i]]
    <3>1. ASSUME NEW i \in 1..n PROVE h[i] = IF i = 1 THEN seqs[i] ELSE h[i - 1] \o seqs[i]
      <4>1. CASE i = 1
        BY <2>5, <4>1
      <4>2. CASE i # 1
        <5>1. i - 1 \in 1..n
          BY <1>0, <4>2
        <5> QED
          BY <2>5, <4>2, <5>1
      <4> QED
        BY <4>1, <4>2
    <3> HIDE DEF h
    <3>2. h = [i \in 1..n |-> h[i]]
      BY DEF h
    <3> QED
      BY <3>1, <3>2
  <2>7. flatten = [i \in 1..Len(seqs) |-> IF i = 1 THEN seqs[i] ELSE flatten[i - 1] \o seqs[i]]
    <3> HIDE DEF h
    <3> QED
      BY <2>6
  <2> HIDE DEF flatten
  <2>8. \A i \in 1..n : flatten[i] = IF i = 1 THEN seqs[i] ELSE flatten[i - 1] \o seqs[i]
    BY <2>7
  <2> DEFINE Has(l, i) == \A k \in 1..Len(seqs[i]) : \E j \in 1..Len(l) : l[j] = seqs[i][k]
             P == {m \in 0..n : m # 0 => IsList(flatten[m]) /\ \A i \in 1..m : Has(flatten[m], i)}
  <2>9. 0 \in P
    BY <1>0
  <2>10. ASSUME NEW m \in 1..n, m - 1 \in P PROVE m \in P
    <3>1. CASE m = 1
      <4>1. flatten[m] = seqs[1] /\ IsList(seqs[1])
        BY <2>8, <3>1
      <4>2. \A i \in 1..m : i = 1
        BY <3>1
      <4> QED
        BY <1>0, <4>1, <4>2
    <3>2. CASE m # 1
      <4> DEFINE a == flatten[m - 1]
                 b == seqs[m]
      <4>1. /\ flatten[m] = a \o b /\ IsList(b)
            /\ IsList(a) /\ \A i \in 1..(m - 1) : Has(a, i)
        <5>1. m - 1 # 0 /\ m \in 0..n /\ m \in Nat
          BY <3>2, <1>0
        <5>2. flatten[m] = a \o b /\ IsList(b)
          BY <2>8, <3>2
        <5> HIDE DEF Has
        <5>3. IsList(a) /\ \A i \in 1..(m - 1) : Has(a, i)
          BY <2>10, <5>1
        <5> QED
          BY <5>2, <5>3
      <4> HIDE DEF a
      <4>2. /\ IsList(a \o b) /\ Len(a \o b) = Len(a) + Len(b) /\ Len(a) \in Nat /\ Len(b) \in Nat
            /\ \A j \in 1..Len(a) : (a \o b)[j] = a[j]
            /\ \A j \in 1..Len(b) : (a \o b)[Len(a) + j] = b[j]
        <5> HIDE DEF b
        <5> QED
          BY <4>1, JoinedLists, ListPlaces
      <4>3. ASSUME NEW i \in 1..m PROVE Has(a \o b, i)
        <5>1. CASE i = m
          <6>1. ASSUME NEW k \in 1..Len(b) PROVE \E j \in 1..Len(a \o b) : (a \o b)[j] = b[k]
            <7> HIDE DEF b
            <7>1. Len(a) + k \in 1..Len(a \o b)
              BY <4>2
            <7> QED
              BY <7>1, <4>2
          <6> QED
            BY <5>1, <6>1
        <5>2. CASE i # m
          <6>1. Has(a, i)
            BY <4>1, <5>2, <1>0
          <6>2. \A j \in 1..Len(a) : j \in 1..Len(a \o b)
            BY <4>2
          <6> QED
            BY <6>1, <6>2, <4>2
        <5> QED
          BY <5>1, <5>2
      <4>4. m \in 0..n
        BY <1>0
      <4> HIDE DEF Has, b
      <4> QED
        BY <4>1, <4>2, <4>3, <4>4
    <3> QED
      BY <3>1, <3>2
  <2>11. n \in P
    <3> HIDE DEF P, n
    <3>1. 0..n \subseteq P
      BY <1>0, <2>9, <2>10, UpTo
    <3> QED
      BY <1>0, <3>1
  <2> QED
    BY <2>0, <2>11, <1>2
<1> QED
  BY <1>1, <1>2

\* A list of one entry.
LEMMA OneEntry ==
    ASSUME NEW j
    PROVE  IsList(<<j>>) /\ Len(<<j>>) = 1 /\ <<j>>[1] = j
<1>1. <<j>> \in Seq({j}) /\ Len(<<j>>) = 1 /\ <<j>>[1] = j
  OBVIOUS
<1> QED
  BY <1>1 DEF IsList

\* Three lists one after the other.
LEMMA ThreeLists ==
    ASSUME NEW a, NEW b, NEW c, IsList(a), IsList(b), IsList(c)
    PROVE  /\ IsList(a \o b \o c) /\ Len(a \o b \o c) = Len(a) + Len(b) + Len(c)
           /\ \A i \in 1..Len(a) : (a \o b \o c)[i] = a[i]
           /\ \A i \in 1..Len(a \o b \o c) : \/ \E k \in 1..Len(a) : (a \o b \o c)[i] = a[k]
                                             \/ \E k \in 1..Len(b) : (a \o b \o c)[i] = b[k]
                                             \/ \E k \in 1..Len(c) : (a \o b \o c)[i] = c[k]
<1> DEFINE ab == a \o b
           n == Len(a)
           m == Len(b)
           l == Len(c)
           s == ab \o c
<1>1. n \in Nat /\ m \in Nat /\ l \in Nat
  BY ListPlaces
<1>2. /\ IsList(ab) /\ Len(ab) = n + m
      /\ \A i \in 1..n : ab[i] = a[i]
      /\ \A i \in 1..m : ab[n + i] = b[i]
  BY JoinedLists
<1> HIDE DEF ab
<1>3. /\ IsList(s) /\ Len(s) = n + m + l
      /\ \A i \in 1..(n + m) : s[i] = ab[i]
      /\ \A i \in 1..l : s[n + m + i] = c[i]
  <2>1. /\ IsList(s) /\ Len(s) = Len(ab) + Len(c)
        /\ \A i \in 1..Len(ab) : s[i] = ab[i]
        /\ \A i \in 1..Len(c) : s[Len(ab) + i] = c[i]
    <3>1. IsList(ab) /\ IsList(c)
      BY <1>2
    <3> QED
      BY <3>1, JoinedLists
  <2> HIDE DEF s
  <2> QED
    BY <1>2, <2>1
<1> HIDE DEF s, n, m, l
<1>4. \A i \in 1..n : s[i] = a[i]
  BY <1>1, <1>2, <1>3
<1>5. ASSUME NEW i \in 1..Len(s)
      PROVE  \/ \E k \in 1..n : s[i] = a[k]
             \/ \E k \in 1..m : s[i] = b[k]
             \/ \E k \in 1..l : s[i] = c[k]
  <2>1. CASE i \in 1..n
    BY <1>4, <2>1
  <2>2. CASE i \in (n + 1)..(n + m)
    <3> DEFINE k == i - n
    <3>1. k \in 1..m /\ i = n + k /\ i \in 1..(n + m)
      BY <1>1, <2>2
    <3> HIDE DEF k
    <3> QED
      BY <3>1, <1>2, <1>3
  <2>3. CASE i \in (n + m + 1)..(n + m + l)
    <3> DEFINE k == i - (n + m)
    <3>1. k \in 1..l /\ i = n + m + k
      BY <1>1, <2>3
    <3> HIDE DEF k
    <3> QED
      BY <3>1, <1>3
  <2> QED
    BY <2>1, <2>2, <2>3, <1>1, <1>3
<1> QED
  BY <1>3, <1>4, <1>5 DEF s, ab, n, m, l

\* A list without its first entry.
LEMMA RestOfList ==
    ASSUME NEW t, IsList(t), t # <<>>
    PROVE  /\ Len(t) \in Nat /\ Len(t) >= 1 /\ Head(t) = t[1]
           /\ IsList(Tail(t)) /\ Len(Tail(t)) = Len(t) - 1
           /\ \A k \in 1..(Len(t) - 1) : Tail(t)[k] = t[k + 1]
<1>1. PICK S : t \in Seq(S)
  BY DEF IsList
<1>2. Len(t) \in Nat /\ Len(t) # 0
  BY <1>1, EmptySeq
<1>3. Head(t) = t[1] /\ Tail(t) \in Seq(S) /\ Len(Tail(t)) = Len(t) - 1
  BY <1>1, <1>2
<1>4. \A k \in 1..(Len(t) - 1) : Tail(t)[k] = t[k + 1]
  BY <1>1, <1>2
<1> QED
  BY <1>2, <1>3, <1>4 DEF IsList

\* A list with one entry more.
LEMMA OneMore ==
    ASSUME NEW s, IsList(s), NEW x
    PROVE  /\ IsList(Append(s, x)) /\ Len(s) \in Nat /\ Len(Append(s, x)) = Len(s) + 1
           /\ \A i \in 1..Len(s) : Append(s, x)[i] = s[i]
           /\ Append(s, x)[Len(s) + 1] = x
<1>1. PICK S : s \in Seq(S)
  BY DEF IsList
<1> DEFINE T == S \cup {x}
<1>2. s \in Seq(T) /\ x \in T
  <2>1. S \subseteq T /\ x \in T
    OBVIOUS
  <2> HIDE DEF T
  <2> QED
    BY <1>1, <2>1, WiderList
<1> HIDE DEF T
<1>3. /\ Append(s, x) \in Seq(T) /\ Len(s) \in Nat /\ Len(Append(s, x)) = Len(s) + 1
      /\ \A i \in 1..Len(s) : Append(s, x)[i] = s[i]
      /\ Append(s, x)[Len(s) + 1] = x
  BY <1>2
<1> QED
  BY <1>3 DEF IsList

\* The first entries of a list.
LEMMA FirstOnes ==
    ASSUME NEW s, IsList(s), NEW n \in 0..Len(s)
    PROVE  /\ IsList(SubSeq(s, 1, n)) /\ Len(SubSeq(s, 1, n)) = n
           /\ \A i \in 1..n : SubSeq(s, 1, n)[i] = s[i]
<1>1. PICK S : s \in Seq(S)
  BY DEF IsList
<1>2. Len(s) \in Nat /\ n \in Nat
  BY <1>1
<1>3. SubSeq(s, 1, n) \in Seq(S) /\ Len(SubSeq(s, 1, n)) = n
  BY <1>1, <1>2
<1>4. \A i \in 1..n : SubSeq(s, 1, n)[i] = s[i]
  BY <1>1, <1>2
<1> QED
  BY <1>3, <1>4 DEF IsList
==============================================================================
