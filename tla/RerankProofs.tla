----------------------------- MODULE RerankProofs -----------------------------
(***************************************************************************)
(* Proofs about Rerank, for every set of requests, texts and rerankers, every  *)
(* scoring function and every capacity.                                       *)
(***************************************************************************)
EXTENDS Rerank, ListLemmas, SequenceTheorems

USE DEF config, localVars, vars

(* ---------------------------------------------------------------------- *)
(* hash_pair.                                                              *)

\* What hash_pair hashes, place by place.
LEMMA PairAt ==
  ASSUME NEW q \in Texts, NEW d \in Texts
  PROVE  /\ hash_pair(q, d) \in Seq(Chars \cup {NUL})
         /\ Len(hash_pair(q, d)) = Len(q) + 1 + Len(d)
         /\ \A i \in 1..Len(q) : hash_pair(q, d)[i] = q[i]
         /\ hash_pair(q, d)[Len(q) + 1] = NUL
         /\ \A i \in 1..Len(d) : hash_pair(q, d)[Len(q) + 1 + i] = d[i]
<1> DEFINE C == Chars \cup {NUL}
           n == Len(q)
           m == Len(d)
           u == q \o <<NUL>>
<1>1. q \in Seq(C) /\ d \in Seq(C) /\ <<NUL>> \in Seq(C) /\ Len(<<NUL>>) = 1 /\ n \in Nat /\ m \in Nat
  BY DEF Texts
<1>2. <<NUL>>[1] = NUL
  OBVIOUS
<1> HIDE DEF n, m, C
<1>3. /\ u \in Seq(C) /\ Len(u) = n + 1
      /\ \A i \in 1..(n + 1) : u[i] = IF i <= n THEN q[i] ELSE <<NUL>>[i - n]
  BY <1>1, ConcatProperties DEF n
<1> HIDE DEF u
<1>4. hash_pair(q, d) = u \o d
  BY DEF hash_pair, u
<1>5. /\ hash_pair(q, d) \in Seq(C) /\ Len(hash_pair(q, d)) = Len(u) + Len(d)
      /\ \A i \in 1..(Len(u) + Len(d)) : hash_pair(q, d)[i] = IF i <= Len(u) THEN u[i] ELSE d[i - Len(u)]
  <2> DEFINE h == u \o d
  <2>1. /\ h \in Seq(C) /\ Len(h) = Len(u) + Len(d)
        /\ \A i \in 1..(Len(u) + Len(d)) : h[i] = IF i <= Len(u) THEN u[i] ELSE d[i - Len(u)]
    BY <1>1, <1>3, ConcatProperties
  <2> QED
    BY <1>4, <2>1
<1>6. ASSUME NEW i \in 1..n PROVE hash_pair(q, d)[i] = q[i]
  <2>1. i \in 1..(n + 1) /\ i <= n /\ i \in 1..(Len(u) + Len(d)) /\ i <= Len(u)
    BY <1>1, <1>3 DEF m
  <2> QED
    BY <1>3, <1>5, <2>1
<1>7. hash_pair(q, d)[n + 1] = NUL
  <2>1. n + 1 \in 1..(n + 1) /\ ~(n + 1 <= n) /\ n + 1 \in 1..(Len(u) + Len(d)) /\ n + 1 <= Len(u) /\ (n + 1) - n = 1
    BY <1>1, <1>3 DEF m
  <2> QED
    BY <1>2, <1>3, <1>5, <2>1
<1>8. ASSUME NEW i \in 1..m PROVE hash_pair(q, d)[n + 1 + i] = d[i]
  <2>1. n + 1 + i \in 1..(Len(u) + Len(d)) /\ ~(n + 1 + i <= Len(u)) /\ (n + 1 + i) - Len(u) = i
    BY <1>1, <1>3 DEF m
  <2> QED
    BY <1>5, <2>1
<1>9. Len(hash_pair(q, d)) = n + 1 + m
  BY <1>1, <1>3, <1>5 DEF m
<1> QED
  BY <1>5, <1>6, <1>7, <1>8, <1>9 DEF n, m, C

\* What is hashed for two plain texts contains the separator once, so it says both, and
\* no other pair is hashed to it, whatever its texts contain.
LEMMA PairInjective ==
  ASSUME NEW q \in Texts, NEW d \in Texts, NEW p \in Texts, NEW e \in Texts, Plain(q), Plain(d),
         hash_pair(q, d) = hash_pair(p, e)
  PROVE  q = p /\ d = e
<1> DEFINE h == hash_pair(q, d)
<1>q. /\ Len(h) = Len(q) + 1 + Len(d) /\ \A i \in 1..Len(q) : h[i] = q[i]
      /\ h[Len(q) + 1] = NUL /\ \A i \in 1..Len(d) : h[Len(q) + 1 + i] = d[i]
  BY PairAt
<1>p. /\ Len(h) = Len(p) + 1 + Len(e) /\ \A i \in 1..Len(p) : h[i] = p[i]
      /\ h[Len(p) + 1] = NUL /\ \A i \in 1..Len(e) : h[Len(p) + 1 + i] = e[i]
  <2>1. h = hash_pair(p, e)
    OBVIOUS
  <2> HIDE DEF h
  <2> QED
    BY <2>1, PairAt
<1> HIDE DEF h
<1>1. /\ Len(q) \in Nat /\ Len(d) \in Nat /\ Len(p) \in Nat /\ Len(e) \in Nat
      /\ \A i \in 1..Len(q) : q[i] # NUL
      /\ \A i \in 1..Len(d) : d[i] # NUL
  BY DEF Texts, Plain
<1>2. ~ (Len(q) < Len(p))
  <2> SUFFICES ASSUME Len(q) < Len(p) PROVE FALSE
    OBVIOUS
  <2> DEFINE i == Len(p) - Len(q)
  <2>1. i \in 1..Len(d) /\ Len(q) + 1 + i = Len(p) + 1
    BY <1>q, <1>p, <1>1
  <2>2. h[Len(q) + 1 + i] = d[i] /\ d[i] # NUL
    BY <1>q, <1>1, <2>1
  <2>3. h[Len(q) + 1 + i] = NUL
    BY <1>p, <2>1
  <2> QED
    BY <2>2, <2>3
<1>3. ~ (Len(p) < Len(q))
  <2> SUFFICES ASSUME Len(p) < Len(q) PROVE FALSE
    OBVIOUS
  <2>1. Len(p) + 1 \in 1..Len(q)
    BY <1>1
  <2> QED
    BY <1>q, <1>1, <1>p, <2>1
<1>4. Len(q) = Len(p) /\ Len(d) = Len(e)
  <2>1. Len(q) = Len(p)
    BY <1>1, <1>2, <1>3
  <2>2. Len(q) + 1 + Len(d) = Len(p) + 1 + Len(e)
    BY <1>q, <1>p
  <2> QED
    BY <1>1, <2>1, <2>2
<1>5. \A i \in 1..Len(q) : q[i] = p[i]
  BY <1>q, <1>4, <1>p
<1>6. \A i \in 1..Len(d) : d[i] = e[i]
  BY <1>q, <1>4, <1>p
<1>7. q = p
  BY <1>4, <1>5, SeqEqual DEF Texts
<1>8. d = e
  BY <1>4, <1>6, SeqEqual DEF Texts
<1> QED
  BY <1>7, <1>8

(* ---------------------------------------------------------------------- *)
(* build_sorted_results.                                                   *)

\* The results in the order of the sort.
LEMMA SortedResults ==
  ASSUME NEW n \in Nat, NEW f \in [1..n -> Int]
  PROVE  Sorted(f) = [k \in 1..n |-> Result(f, At(f, k))]
BY DEF Sorted, At

\* What is answered: the entries of the first places, as many as were asked for.
Kept(n, top_n) == IF top_n = None \/ top_n > n THEN n ELSE top_n

\* What is at each place of them.
LEMMA ResultsAre ==
  ASSUME NEW n \in Nat, NEW f \in [1..n -> Int], NEW top_n \in Nat \cup {None}
  PROVE  /\ Kept(n, top_n) \in 0..n
         /\ Len(build_sorted_results(f, top_n)) = Kept(n, top_n)
         /\ DOMAIN build_sorted_results(f, top_n) = 1..Kept(n, top_n)
         /\ \A k \in 1..Kept(n, top_n) : build_sorted_results(f, top_n)[k] = Result(f, At(f, k))
<1> DEFINE s == Sorted(f)
           m == Kept(n, top_n)
           R == {Result(f, i) : i \in 1..n}
<1>1. s = [k \in 1..n |-> Result(f, At(f, k))] /\ \A k \in 1..n : At(f, k) \in 1..n
  BY SortedPlaces, SortedResults
<1>2. \A k \in 1..n : Result(f, At(f, k)) \in R
  BY <1>1
<1> HIDE DEF s, R
<1>3. s \in Seq(R) /\ Len(s) = n /\ DOMAIN s = 1..n
  BY <1>1, <1>2
<1>4. m \in 0..n
  BY RerankAssumption DEF Kept
<1>5. build_sorted_results(f, top_n) = IF top_n = None \/ top_n > n THEN s ELSE SubSeq(s, 1, top_n)
  BY <1>3 DEF build_sorted_results, Truncated, s
<1>6. CASE top_n = None \/ top_n > n
  BY <1>1, <1>3, <1>4, <1>5, <1>6 DEF Kept
<1>7. CASE ~ (top_n = None \/ top_n > n)
  <2>1. m = top_n /\ top_n \in Nat /\ top_n <= n /\ build_sorted_results(f, top_n) = SubSeq(s, 1, top_n)
    BY <1>5, <1>7 DEF Kept
  <2> DEFINE u == SubSeq(s, 1, top_n)
  <2>2. u \in Seq(R) /\ Len(u) = top_n /\ \A k \in 1..top_n : u[k] = s[k]
    <3>1. \A k \in 1..top_n : s[k] \in R
      BY <1>1, <1>2, <2>1
    <3>2. 1 \in Int /\ top_n \in Int /\ 1..top_n \subseteq DOMAIN s
      BY <1>3, <2>1
    <3> QED
      BY <1>3, <2>1, <3>1, <3>2, SubSeqProperties
  <2> HIDE DEF u
  <2>3. DOMAIN u = 1..top_n
    BY <2>2
  <2>4. \A k \in 1..top_n : k \in 1..n
    BY <2>1
  <2> QED
    BY <1>1, <1>4, <2>1, <2>2, <2>3, <2>4 DEF u
<1> QED
  BY <1>6, <1>7

(* ---------------------------------------------------------------------- *)
(* The invariant.                                                          *)

PcStates == {"new", "admitted", "probe", "tokenize", "splice", "await", "done", "dropped"}
Held     == {"admitted", "probe", "tokenize", "splice", "await"}

Holders == {r \in Requests : pc[r] \in Held}

TypeOK == /\ rerankers \subseteq Names
          /\ backend \in Backends
          /\ pc     \in [Requests -> PcStates]
          /\ body   \in [Requests -> Bodies]
          /\ pos    \in [Requests -> Nat \ {0}]
          /\ status \in [Requests -> Nat]
          /\ DOMAIN name = Requests /\ DOMAIN slots = Requests
          /\ DOMAIN misses = Requests /\ DOMAIN results = Requests

\* The handlers that hold a permit are finitely many, however many requests there are.
PermitInv == /\ cap \in Nat /\ permits \in Nat
             /\ IsFiniteSet(Holders)
             /\ permits + Cardinality(Holders) = cap

Docs(r) == DOMAIN body[r].documents

Ids(r, i) == TokenIds(name[r], body[r].query, body[r].documents[i])

\* A slot that was found: for a plain pair it holds the ids of the pair.
PlainPair(r, i) == Plain(body[r].query) /\ Plain(body[r].documents[i])

Found(r, i)  == PlainPair(r, i) => slots[r][i] = Ids(r, i)
Missed(r, i) == \E k \in DOMAIN misses[r] : misses[r][k] = i

IdsSet  == Names \X Texts \X Texts
SlotSet == IdsSet \cup {None}

\* Every entry is the ids of some pair, and the entry of a plain pair its own.
CacheInv == PlainPairsSound /\ \A k \in DOMAIN cache : cache[k] \in IdsSet

SlotsTyped(r) == /\ name[r] \in Names
                 /\ slots[r] \in [Docs(r) -> SlotSet]

\* The scores the answer should be made of.
Expected(r) == [i \in Docs(r) |-> apply_normalize(Logit(name[r], body[r].query, body[r].documents[i]),
                                                 body[r].normalize)]

\* Every document whose token ids have been looked up was found or is a miss.
HandlerInv(r) ==
    /\ misses[r] \in Seq(Docs(r))
    /\ pc[r] \in {"new", "admitted"} => pos[r] = 1 /\ misses[r] = <<>>
    /\ pc[r] \in {"probe", "tokenize", "splice", "await"} => SlotsTyped(r)
    /\ pc[r] = "probe" => \A i \in Docs(r) : i < pos[r] => Found(r, i) \/ Missed(r, i)
    /\ pc[r] \in {"tokenize", "splice"} => \A i \in Docs(r) : Found(r, i) \/ Missed(r, i)
    /\ pc[r] = "await" /\ backend # "worker" => \A i \in Docs(r) : Found(r, i)
    /\ status[r] = 200 => /\ pc[r] = "done" /\ name[r] \in Names
                          /\ Exact(r) => results[r] = build_sorted_results(Expected(r), body[r].top_n)

IInv == TypeOK /\ CacheInv /\ \A r \in Requests : HandlerInv(r)

\* The parts of a request.
LEMMA BodyType ==
  ASSUME TypeOK, NEW r \in Requests
  PROVE  /\ body[r] \in Bodies /\ body[r].query \in Texts /\ body[r].documents \in Seq(Texts)
         /\ Len(body[r].documents) \in Nat /\ Docs(r) = 1..Len(body[r].documents)
         /\ \A i \in Docs(r) : body[r].documents[i] \in Texts
         /\ body[r].top_n \in Nat \cup {None} /\ body[r].normalize \in {"none", "sigmoid"}
<1>1. body[r] \in Bodies
  BY DEF TypeOK
<1>2. body[r] \in [model : Names \cup {None}, query : Texts, documents : Seq(Texts),
                   top_n : Nat \cup {None}, normalize : {"none", "sigmoid"}]
  BY <1>1, RerankAssumption
<1> QED
  BY <1>1, <1>2 DEF Docs

\* The expected scores are numbers.
LEMMA ExpectedType ==
  ASSUME TypeOK, NEW r \in Requests, name[r] \in Names
  PROVE  Expected(r) \in [Docs(r) -> Int]
<1>1. ASSUME NEW i \in Docs(r) PROVE Logit(name[r], body[r].query, body[r].documents[i]) \in Int
  BY BodyType, RerankAssumption DEF Docs
<1>2. ASSUME NEW x \in Int PROVE apply_normalize(x, body[r].normalize) \in Int
  <2>1. body[r].normalize = "none" \/ body[r].normalize = "sigmoid"
    BY BodyType
  <2>2. Clamp \in Int /\ -Clamp \in Int
    BY RerankAssumption
  <2> QED
    BY <2>1, <2>2 DEF apply_normalize
<1> QED
  BY <1>1, <1>2 DEF Expected

\* The invariant implies what the run checks.
LEMMA BestFromInv == IInv => BestDocuments
<1> SUFFICES ASSUME IInv, NEW r \in Requests, status[r] = 200, Exact(r)
             PROVE  LET docs   == DOMAIN body[r].documents
                        score  == [i \in docs |->
                                      apply_normalize(Logit(name[r], body[r].query, body[r].documents[i]),
                                                      body[r].normalize)]
                        listed == {results[r][k].index : k \in DOMAIN results[r]}
                    IN  /\ Len(results[r]) = IF body[r].top_n = None \/ body[r].top_n > Len(body[r].documents)
                                             THEN Len(body[r].documents) ELSE body[r].top_n
                        /\ listed \subseteq docs
                        /\ \A k \in DOMAIN results[r] : results[r][k].relevance_score = score[results[r][k].index]
                        /\ \A k, l \in DOMAIN results[r] : k < l => Before(score, results[r][k].index, results[r][l].index)
                        /\ \A i \in listed, j \in docs \ listed : Before(score, i, j)
  BY DEF BestDocuments
<1> DEFINE n == Len(body[r].documents)
           f == Expected(r)
           t == body[r].top_n
           m == Kept(n, t)
           listed == {results[r][k].index : k \in DOMAIN results[r]}
<1>1. n \in Nat /\ Docs(r) = 1..n /\ body[r].top_n \in Nat \cup {None}
  BY BodyType DEF IInv
<1>2. name[r] \in Names /\ results[r] = build_sorted_results(f, body[r].top_n)
  BY DEF IInv, HandlerInv
<1>3. f \in [1..n -> Int]
  BY <1>1, <1>2, ExpectedType DEF IInv
<1>14. t \in Nat \cup {None} /\ results[r] = build_sorted_results(f, t)
  BY <1>1, <1>2
<1>15. n \in Nat
  BY <1>1
<1> HIDE DEF f, n, t
<1>4. /\ m \in 0..n /\ Len(results[r]) = m /\ DOMAIN results[r] = 1..m
      /\ \A k \in 1..m : results[r][k] = Result(f, At(f, k))
  <2>1. /\ m \in 0..n /\ Len(build_sorted_results(f, t)) = m /\ DOMAIN build_sorted_results(f, t) = 1..m
        /\ \A k \in 1..m : build_sorted_results(f, t)[k] = Result(f, At(f, k))
    BY <1>3, <1>14, <1>15, ResultsAre
  <2> HIDE DEF m
  <2> QED
    BY <1>14, <2>1
<1> HIDE DEF m
<1>5. /\ \A k \in 1..n : At(f, k) \in 1..n
      /\ \A k, l \in 1..n : k < l => Before(f, At(f, k), At(f, l))
      /\ \A j \in 1..n : \E k \in 1..n : j = At(f, k)
  BY <1>3, <1>15, SortedPlaces
<1>6. ASSUME NEW k \in 1..m
      PROVE  results[r][k].index = At(f, k) /\ results[r][k].relevance_score = f[At(f, k)] /\ k \in 1..n
  <2>1. results[r][k] = [index |-> At(f, k), relevance_score |-> f[At(f, k)]]
    BY <1>4 DEF Result
  <2>2. k \in 1..n
    BY <1>4, <1>15
  <2> QED
    BY <2>1, <2>2
<1>7. listed \subseteq 1..n
  <2>1. ASSUME NEW k \in DOMAIN results[r] PROVE results[r][k].index \in 1..n
    <3>1. results[r][k].index = At(f, k) /\ k \in 1..n
      BY <1>4, <1>6
    <3> QED
      BY <1>5, <3>1
  <2> QED
    BY <2>1
<1>8. \A k \in DOMAIN results[r] : results[r][k].relevance_score = f[results[r][k].index]
  BY <1>4, <1>6
<1>9. ASSUME NEW k \in DOMAIN results[r], NEW l \in DOMAIN results[r], k < l
      PROVE  Before(f, results[r][k].index, results[r][l].index)
  <2>1. results[r][k].index = At(f, k) /\ results[r][l].index = At(f, l) /\ k \in 1..n /\ l \in 1..n
    BY <1>4, <1>6
  <2> QED
    BY <1>5, <1>9, <2>1
<1>10. ASSUME NEW i \in listed, NEW j \in (1..n) \ listed PROVE Before(f, i, j)
  <2>1. PICK k \in 1..m : i = At(f, k) /\ k \in 1..n
    BY <1>4, <1>6
  <2>2. PICK l \in 1..n : j = At(f, l)
    BY <1>5
  <2>3. l \notin 1..m
    BY <1>4, <1>6, <2>2
  <2>4. k < l
    BY <1>4, <1>15, <2>1, <2>3
  <2> QED
    BY <1>5, <2>1, <2>2, <2>4
<1>11. f = [i \in DOMAIN body[r].documents |->
              apply_normalize(Logit(name[r], body[r].query, body[r].documents[i]), body[r].normalize)]
  BY DEF f, Expected, Docs
<1>12. Len(results[r]) = IF body[r].top_n = None \/ body[r].top_n > n THEN n ELSE body[r].top_n
  BY <1>4 DEF Kept, m, t
<1>13. DOMAIN body[r].documents = 1..n
  BY <1>1 DEF Docs
<1> QED
  BY <1>7, <1>8, <1>9, <1>10, <1>11, <1>12, <1>13 DEF n

(* ---------------------------------------------------------------------- *)
(* The permits.                                                            *)

\* One request gets or gives back a permit.
LEMMA HoldersMove ==
  ASSUME TypeOK, IsFiniteSet(Holders), NEW r \in Requests, NEW l, pc' = [pc EXCEPT ![r] = l]
  PROVE  /\ IsFiniteSet(Holders') /\ Cardinality(Holders) \in Nat
         /\ Cardinality(Holders') = Cardinality(Holders) + (IF l \in Held THEN 1 ELSE 0)
                                                         - (IF pc[r] \in Held THEN 1 ELSE 0)
<1> DEFINE S == Holders \ {r}
<1>1. IsFiniteSet(S) /\ r \notin S
  BY FS_Subset
<1>2. Holders = IF pc[r] \in Held THEN S \cup {r} ELSE S
  BY DEF Holders
<1>3. Holders' = IF l \in Held THEN S \cup {r} ELSE S
  BY DEF Holders, TypeOK
<1> HIDE DEF S
<1>4. Cardinality(S) \in Nat /\ IsFiniteSet(S \cup {r}) /\ Cardinality(S \cup {r}) = Cardinality(S) + 1
  BY <1>1, FS_CardinalityType, FS_AddElement
<1> QED
  BY <1>1, <1>2, <1>3, <1>4

\* What a step of a handler owes to the permits.
LEMMA PermitStep ==
  ASSUME TypeOK, PermitInv, NEW r \in Requests, NEW l, pc' = [pc EXCEPT ![r] = l], cap' = cap, permits' \in Nat,
         permits' = permits - (IF l \in Held THEN 1 ELSE 0) + (IF pc[r] \in Held THEN 1 ELSE 0)
  PROVE  PermitInv'
<1>1. /\ IsFiniteSet(Holders') /\ Cardinality(Holders) \in Nat
      /\ Cardinality(Holders') = Cardinality(Holders) + (IF l \in Held THEN 1 ELSE 0)
                                                      - (IF pc[r] \in Held THEN 1 ELSE 0)
  BY HoldersMove DEF PermitInv
<1>2. permits \in Nat /\ cap \in Nat /\ permits + Cardinality(Holders) = cap
  BY DEF PermitInv
<1>3. permits' + Cardinality(Holders') = cap
  BY <1>1, <1>2
<1> QED
  BY <1>1, <1>2, <1>3 DEF PermitInv

\* Every step preserves the sum of free and held permits.
LEMMA NextPermits == TypeOK /\ PermitInv /\ [Next]_vars => PermitInv'
<1> SUFFICES ASSUME TypeOK, PermitInv, [Next]_vars PROVE PermitInv'
  OBVIOUS
<1>0. permits \in Nat /\ permits + 1 \in Nat /\ {"admitted", "probe", "tokenize", "splice", "await"} = Held
      /\ "done" \notin Held /\ "dropped" \notin Held /\ "new" \notin Held
  BY DEF PermitInv, Held
<1>1. CASE UNCHANGED <<cap, permits, pc>>
  BY <1>1 DEF PermitInv, Holders
<1>2. ASSUME NEW r \in Requests, NEW code, Finish(r, code), pc[r] \in Held, cap' = cap PROVE PermitInv'
  <2>1. pc' = [pc EXCEPT ![r] = "done"] /\ permits' = permits + 1
    BY <1>2 DEF Finish
  <2>2. permits' \in Nat /\ permits' = permits - (IF "done" \in Held THEN 1 ELSE 0) + (IF pc[r] \in Held THEN 1 ELSE 0)
    BY <1>0, <1>2, <2>1
  <2> QED
    BY <1>2, <2>1, <2>2, PermitStep
<1>3. ASSUME NEW r \in Requests, NEW l \in Held, Goto(r, l), pc[r] \in Held, cap' = cap PROVE PermitInv'
  <2>1. pc' = [pc EXCEPT ![r] = l] /\ permits' = permits
    BY <1>3 DEF Goto
  <2>2. permits' \in Nat /\ permits' = permits - (IF l \in Held THEN 1 ELSE 0) + (IF pc[r] \in Held THEN 1 ELSE 0)
    BY <1>0, <1>3, <2>1
  <2> QED
    BY <1>3, <2>1, <2>2, PermitStep
<1>4. ASSUME NEW r \in Requests, TryAcquire(r) PROVE PermitInv'
  <2>1. CASE HasPermit
    <3>1. pc[r] = "new" /\ pc' = [pc EXCEPT ![r] = "admitted"] /\ permits' = permits - 1 /\ permits > 0 /\ cap' = cap
      BY <1>4, <2>1 DEF TryAcquire, HasPermit
    <3>2. "admitted" \in Held /\ pc[r] \notin Held
      BY <1>0, <3>1 DEF Held
    <3>3. permits' \in Nat /\ permits' = permits - (IF "admitted" \in Held THEN 1 ELSE 0) + (IF pc[r] \in Held THEN 1 ELSE 0)
      BY <1>0, <3>1, <3>2
    <3> QED
      BY <3>1, <3>3, PermitStep
  <2>2. CASE ~HasPermit
    <3>1. pc[r] = "new" /\ pc' = [pc EXCEPT ![r] = "done"] /\ permits' = permits /\ cap' = cap
      BY <1>4, <2>2 DEF TryAcquire
    <3>2. permits' \in Nat /\ permits' = permits - (IF "done" \in Held THEN 1 ELSE 0) + (IF pc[r] \in Held THEN 1 ELSE 0)
      BY <1>0, <3>1
    <3> QED
      BY <3>1, <3>2, PermitStep
  <2> QED
    BY <2>1, <2>2
<1>5. ASSUME NEW r \in Requests, Disconnect(r) PROVE PermitInv'
  <2>1. pc[r] \in {"tokenize", "await"} /\ pc' = [pc EXCEPT ![r] = "dropped"] /\ permits' = permits + 1 /\ cap' = cap
    BY <1>5 DEF Disconnect
  <2>2. pc[r] \in Held
    BY <2>1 DEF Held
  <2>3. permits' \in Nat /\ permits' = permits - (IF "dropped" \in Held THEN 1 ELSE 0) + (IF pc[r] \in Held THEN 1 ELSE 0)
    BY <1>0, <2>1, <2>2
  <2> QED
    BY <2>1, <2>3, PermitStep
<1>6. ASSUME NEW r \in Requests, Step(r) PROVE PermitInv'
  <2>1. CASE Probe(r) \/ Splice(r)
    BY <1>1, <2>1 DEF Probe, Splice
  <2>2. CASE Refuse(r)
    <3>1. pc[r] = "admitted" /\ cap' = cap /\ Finish(r, Rejection(body[r]))
      BY <2>2 DEF Refuse
    <3>2. pc[r] \in Held
      BY <3>1 DEF Held
    <3> QED
      BY <1>2, <3>1, <3>2
  <2>3. CASE Admit(r) \/ Probed(r) \/ Spliced(r)
    <3>1. pc[r] \in {"admitted", "probe", "splice"} /\ cap' = cap
          /\ \E l \in {"await", "probe", "tokenize"} : Goto(r, l)
      BY <2>3 DEF Admit, Probed, Spliced
    <3>2. pc[r] \in Held /\ {"await", "probe", "tokenize"} \subseteq Held
      BY <3>1 DEF Held
    <3> QED
      BY <1>3, <3>1, <3>2
  <2> QED
    BY <1>6, <2>1, <2>2, <2>3 DEF Step
<1>7. ASSUME NEW r \in Requests, Backend(r) PROVE PermitInv'
  <2>1. CASE Tokenized(r)
    <3>1. pc[r] = "tokenize" /\ cap' = cap /\ Goto(r, "splice")
      BY <2>1 DEF Tokenized
    <3>2. pc[r] \in Held /\ "splice" \in Held
      BY <3>1 DEF Held
    <3> QED
      BY <1>3, <3>1, <3>2
  <2>2. CASE TokenizeFails(r) \/ InferenceFails(r) \/ Answer(r)
    <3>1. pc[r] \in {"tokenize", "await"} /\ cap' = cap /\ \E code \in Failures[backend] \cup {200, 500} : Finish(r, code)
      BY <2>2 DEF TokenizeFails, InferenceFails, Answer
    <3>2. pc[r] \in Held
      BY <3>1 DEF Held
    <3> QED
      BY <1>2, <3>1, <3>2
  <2> QED
    BY <1>7, <2>1, <2>2 DEF Backend
<1>8. CASE Evict \/ Shutdown
  BY <1>1, <1>8 DEF Evict, Shutdown
<1> QED
  BY <1>1, <1>4, <1>5, <1>6, <1>7, <1>8 DEF Next

(* ---------------------------------------------------------------------- *)
(* The handlers and the cache.                                             *)

\* An insertion under the key of its own pair leaves the cache sound.
LEMMA InsertSound ==
  ASSUME IInv, NEW r \in Requests, name[r] \in Names, NEW i \in Docs(r), cache' = Inserted(Key(r, i), Ids(r, i))
  PROVE  CacheInv'
<1> DEFINE K(n, b, j) == <<n, hash_pair(b.query, b.documents[j])>>
           T(n, b, j) == TokenIds(n, b.query, b.documents[j])
<1>0. body[r].query \in Texts /\ body[r].documents[i] \in Texts /\ Ids(r, i) \in IdsSet
  BY BodyType DEF IInv, Ids, TokenIds, IdsSet
<1>1. CASE MaxEntries = 0
  BY <1>1 DEF Inserted, IInv, CacheInv, PlainPairsSound, Sound, Plain, TokenIds, hash_pair, IdsSet
<1>2. CASE MaxEntries # 0
  <2>1. cache' = [x \in DOMAIN cache \cup {Key(r, i)} |-> IF x = Key(r, i) THEN Ids(r, i) ELSE cache[x]]
    BY <1>2 DEF Inserted
  <2>2. \A k \in DOMAIN cache' : cache'[k] \in IdsSet
    BY <1>0, <2>1 DEF IInv, CacheInv
  <2>3. ASSUME NEW n \in Names, NEW b \in Bodies, NEW j \in DOMAIN b.documents,
               Plain(b.query), Plain(b.documents[j]), K(n, b, j) \in DOMAIN cache'
        PROVE  cache'[K(n, b, j)] = T(n, b, j)
    <3>1. K(n, b, j) \in DOMAIN cache => cache[K(n, b, j)] = T(n, b, j)
      BY <2>3 DEF IInv, CacheInv, PlainPairsSound, Sound
    <3>2. CASE K(n, b, j) = Key(r, i)
      <4>1. b.query \in Texts /\ b.documents[j] \in Texts
        <5>1. b.query \in Texts /\ b.documents \in Seq(Texts)
          BY RerankAssumption
        <5> QED
          BY <5>1
      <4>2. n = name[r] /\ hash_pair(b.query, b.documents[j]) = hash_pair(body[r].query, body[r].documents[i])
        BY <3>2 DEF Key
      <4>3. b.query = body[r].query /\ b.documents[j] = body[r].documents[i]
        BY <1>0, <2>3, <4>1, <4>2, PairInjective
      <4>4. T(n, b, j) = Ids(r, i)
        BY <4>2, <4>3 DEF Ids
      <4> QED
        BY <2>1, <3>2, <4>4
    <3>3. CASE K(n, b, j) # Key(r, i)
      <4>1. K(n, b, j) \in DOMAIN cache'
        BY <2>3
      <4> HIDE DEF K, T
      <4> QED
        BY <2>1, <3>1, <3>3, <4>1
    <3> QED
      BY <3>2, <3>3
  <2>4. PlainPairsSound'
    BY <2>3 DEF PlainPairsSound, Sound, Plain, TokenIds, hash_pair
  <2> QED
    BY <2>2, <2>4 DEF CacheInv, IdsSet
<1> QED
  BY <1>1, <1>2

\* So does leaving it alone.
LEMMA CacheKept == ASSUME CacheInv, cache' = cache PROVE CacheInv'
BY DEF CacheInv, PlainPairsSound, Sound, Plain, TokenIds, hash_pair, IdsSet

\* A step of one handler leaves the others as they are.
Alone(r) == \A q \in Requests : q # r =>
                /\ pc'[q] = pc[q] /\ name'[q] = name[q] /\ slots'[q] = slots[q] /\ pos'[q] = pos[q]
                /\ misses'[q] = misses[q] /\ results'[q] = results[q] /\ status'[q] = status[q]

\* What is known of a handler depends on its own state only.
LEMMA HandlerKept ==
  ASSUME NEW q \in Requests, HandlerInv(q), body' = body, backend' = backend, pc'[q] = pc[q], name'[q] = name[q],
         slots'[q] = slots[q], pos'[q] = pos[q], misses'[q] = misses[q], results'[q] = results[q], status'[q] = status[q]
  PROVE  HandlerInv(q)'
<1>1. Docs(q)' = Docs(q) /\ Expected(q)' = Expected(q) /\ (SlotsTyped(q)' <=> SlotsTyped(q))
  BY DEF Docs, Expected, SlotsTyped, apply_normalize
<1>2. \A i \in Docs(q) : (Found(q, i)' <=> Found(q, i)) /\ (Missed(q, i)' <=> Missed(q, i))
  BY DEF Found, Missed, Ids, TokenIds, PlainPair, Plain
<1>4. Exact(q)' <=> Exact(q)
  BY DEF Exact, Plain
<1>3. build_sorted_results(Expected(q), body[q].top_n)' = build_sorted_results(Expected(q), body[q].top_n)
  BY <1>1 DEF build_sorted_results, Truncated, Sorted, Rank, Before, Result
<1> QED
  BY <1>1, <1>2, <1>3, <1>4 DEF HandlerInv

\* A step of one handler that leaves the others alone.
LEMMA StepIInv ==
  ASSUME IInv, NEW r \in Requests, body' = body, backend' = backend, Alone(r), TypeOK', CacheInv', HandlerInv(r)'
  PROVE  IInv'
<1>1. ASSUME NEW q \in Requests, q # r PROVE HandlerInv(q)'
  BY <1>1, HandlerKept DEF IInv, Alone
<1> QED
  BY <1>1 DEF IInv

\* The misses stay places of documents.
LEMMA MissesKept == ASSUME IInv, NEW r \in Requests, body' = body, misses' = misses PROVE misses'[r] \in Seq(Docs(r)')
<1>1. misses[r] \in Seq(Docs(r))
  BY DEF IInv, HandlerInv
<1> QED
  BY <1>1 DEF Docs

\* A handler that is over without a 200 promises nothing.
LEMMA OverIInv ==
  ASSUME IInv, NEW r \in Requests, pc' = [pc EXCEPT ![r] = "done"] \/ pc' = [pc EXCEPT ![r] = "dropped"],
         status' \in [Requests -> Nat], status'[r] # 200, \A q \in Requests : q # r => status'[q] = status[q],
         config' = config, cache' = cache, localVars' = localVars, results' = results
  PROVE  IInv'
<1>1. TypeOK' /\ Alone(r)
  BY DEF IInv, TypeOK, Alone, PcStates
<1>2. pc'[r] \in {"done", "dropped"} /\ status'[r] # 200
  BY DEF IInv, TypeOK
<1>3. HandlerInv(r)'
  BY <1>2, MissesKept DEF HandlerInv
<1>4. CacheInv'
  BY CacheKept DEF IInv
<1> QED
  BY <1>1, <1>3, <1>4, StepIInv

\* The permit.
LEMMA TryAcquireIInv == ASSUME IInv, NEW r \in Requests, TryAcquire(r) PROVE IInv'
<1>1. pc[r] = "new" /\ UNCHANGED <<config, cache, localVars, results>>
  BY DEF TryAcquire
<1>2. status[r] # 200
  BY <1>1 DEF IInv, HandlerInv
<1>3. CASE ~HasPermit
  <2>1. pc' = [pc EXCEPT ![r] = "done"] /\ status' = [status EXCEPT ![r] = 429]
    BY <1>3 DEF TryAcquire
  <2>2. status' \in [Requests -> Nat] /\ status'[r] # 200 /\ \A q \in Requests : q # r => status'[q] = status[q]
    BY <2>1 DEF IInv, TypeOK
  <2> QED
    BY <1>1, <2>1, <2>2, OverIInv
<1>4. CASE HasPermit
  <2>1. pc' = [pc EXCEPT ![r] = "admitted"] /\ status' = status
    BY <1>4 DEF TryAcquire
  <2>2. TypeOK' /\ Alone(r) /\ pc'[r] = "admitted"
    BY <1>1, <2>1 DEF IInv, TypeOK, Alone, PcStates
  <2>3. pos'[r] = 1 /\ misses'[r] = <<>>
    BY <1>1 DEF IInv, HandlerInv
  <2>4. HandlerInv(r)'
    BY <1>1, <1>2, <2>1, <2>2, <2>3, MissesKept DEF HandlerInv
  <2>5. CacheInv'
    BY <1>1, CacheKept DEF IInv
  <2> QED
    BY <1>1, <2>2, <2>4, <2>5, StepIInv
<1> QED
  BY <1>3, <1>4

\* The name that is resolved is one of the configured rerankers.
LEMMA ResolvedName ==
  ASSUME TypeOK, NEW model, resolve_reranker_name(model) # None PROVE resolve_reranker_name(model) \in Names
<1>1. CASE model # None
  BY <1>1 DEF resolve_reranker_name, TypeOK
<1>2. CASE model = None
  <2>1. Cardinality(rerankers) = 1 /\ resolve_reranker_name(model) = CHOOSE n \in rerankers : TRUE
    BY <1>2 DEF resolve_reranker_name
  <2>2. rerankers # {}
    BY <2>1, FS_EmptySet
  <2> QED
    BY <2>1, <2>2 DEF TypeOK
<1> QED
  BY <1>1, <1>2

\* A request that passed the checks.
LEMMA AdmitIInv == ASSUME IInv, NEW r \in Requests, Admit(r) PROVE IInv'
<1>1. PICK l \in {"await", "probe"} :
        /\ pc[r] = "admitted" /\ Rejection(body[r]) = 0
        /\ name' = [name EXCEPT ![r] = resolve_reranker_name(body[r].model)]
        /\ slots' = [slots EXCEPT ![r] = [i \in Docs(r) |-> None]]
        /\ pc' = [pc EXCEPT ![r] = l] /\ (l = "await" => backend = "worker") /\ status' = status
        /\ UNCHANGED <<config, cache, body, pos, misses, results>>
  BY DEF Admit, Goto, Docs
<1>2. resolve_reranker_name(body[r].model) \in Names
  BY <1>1, ResolvedName DEF Rejection, IInv
<1>3. TypeOK' /\ Alone(r) /\ pc'[r] = l /\ name'[r] \in Names /\ slots'[r] = [i \in Docs(r) |-> None]
  BY <1>1, <1>2 DEF IInv, TypeOK, Alone, PcStates
<1>4. status'[r] # 200 /\ pos'[r] = 1
  BY <1>1 DEF IInv, HandlerInv
<1>5. Docs(r)' = Docs(r)
  BY <1>1 DEF Docs
<1>6. SlotsTyped(r)'
  BY <1>3, <1>5 DEF SlotsTyped, SlotSet
<1>7. \A i \in Docs(r) : ~ (i < 1)
  BY BodyType DEF IInv
<1>8. HandlerInv(r)'
  BY <1>1, <1>3, <1>4, <1>5, <1>6, <1>7, MissesKept DEF HandlerInv
<1>9. CacheInv'
  BY <1>1, CacheKept DEF IInv
<1> QED
  BY <1>1, <1>3, <1>8, <1>9, StepIInv

\* The entry a handler looks up is one of some pair; for a plain pair it is its own.
LEMMA LookedUp ==
  ASSUME IInv, NEW r \in Requests, name[r] \in Names, NEW i \in Docs(r), Key(r, i) \in DOMAIN cache
  PROVE  cache[Key(r, i)] \in SlotSet /\ (PlainPair(r, i) => cache[Key(r, i)] = Ids(r, i))
<1>1. body[r] \in Bodies
  BY BodyType DEF IInv
<1> QED
  BY <1>1 DEF IInv, CacheInv, PlainPairsSound, Sound, Key, Ids, Docs, SlotSet, PlainPair

\* Token ids are what a slot may hold.
LEMMA IdsType ==
  ASSUME IInv, NEW r \in Requests, name[r] \in Names, NEW i \in Docs(r)
  PROVE  Ids(r, i) \in SlotSet
BY BodyType DEF IInv, Ids, TokenIds, SlotSet, IdsSet

\* One lookup: a hit is the right ids, a miss is noted.
LEMMA ProbeIInv == ASSUME IInv, NEW r \in Requests, Probe(r) PROVE IInv'
<1> DEFINE i == pos[r]
<1>1. /\ pc[r] = "probe" /\ i <= Len(slots[r]) /\ pos' = [pos EXCEPT ![r] = i + 1]
      /\ UNCHANGED <<config, cache, pc, body, name, results, status>>
      /\ \/ /\ Key(r, i) \in DOMAIN cache /\ slots' = [slots EXCEPT ![r][i] = cache[Key(r, i)]]
            /\ misses' = misses
         \/ /\ misses' = [misses EXCEPT ![r] = Append(misses[r], i)] /\ slots' = slots
  BY DEF Probe
<1>2. SlotsTyped(r) /\ misses[r] \in Seq(Docs(r)) /\ status[r] # 200
      /\ \A j \in Docs(r) : j < i => Found(r, j) \/ Missed(r, j)
  BY <1>1 DEF IInv, HandlerInv
<1>3. i \in Nat \ {0} /\ pos'[r] = i + 1 /\ pc'[r] = "probe"
  BY <1>1 DEF IInv, TypeOK
<1>4. Docs(r) = 1..Len(body[r].documents) /\ Len(body[r].documents) \in Nat /\ Docs(r)' = Docs(r)
  BY <1>1, BodyType DEF IInv, Docs
<1>5. i \in Docs(r)
  <2>1. Len(slots[r]) = Len(body[r].documents)
    BY <1>2, <1>4 DEF SlotsTyped
  <2> QED
    BY <1>1, <1>3, <1>4, <2>1
<1>6. TypeOK' /\ Alone(r)
  BY <1>1, <1>3 DEF IInv, TypeOK, Alone
<1>7. CacheInv'
  BY <1>1, CacheKept DEF IInv
<1>8. /\ misses'[r] \in Seq(Docs(r)) /\ SlotsTyped(r)'
      /\ \A j \in Docs(r) : j < i + 1 => Found(r, j)' \/ Missed(r, j)'
  <2> DEFINE c == cache[Key(r, i)]
  <2>1. CASE Key(r, i) \in DOMAIN cache /\ slots' = [slots EXCEPT ![r][i] = c] /\ misses' = misses
    <3>1. (PlainPair(r, i) => c = Ids(r, i)) /\ c \in SlotSet
      BY <1>2, <1>5, <2>1, LookedUp DEF SlotsTyped
    <3> HIDE DEF c
    <3>2. slots'[r] = [slots[r] EXCEPT ![i] = c]
      BY <2>1 DEF IInv, TypeOK
    <3>3. slots'[r] \in [Docs(r) -> SlotSet]
      <4>1. c \in SlotSet /\ slots[r] \in [Docs(r) -> SlotSet]
        BY <1>2, <3>1 DEF SlotsTyped
      <4> QED
        BY <3>2, <4>1
    <3>4. SlotsTyped(r)'
      BY <1>1, <1>2, <1>4, <3>3 DEF SlotsTyped
    <3>5. ASSUME NEW j \in Docs(r), j < i + 1 PROVE Found(r, j)' \/ Missed(r, j)'
      <4>1. CASE j = i
        BY <1>1, <1>2, <1>5, <3>1, <3>2, <4>1 DEF Found, Ids, TokenIds, PlainPair, Plain, SlotsTyped
      <4>2. CASE j # i
        <5>1. j < i
          BY <1>3, <1>4, <3>5, <4>2
        <5> QED
          BY <1>1, <1>2, <2>1, <3>2, <4>2, <5>1 DEF Found, Missed, Ids, TokenIds, PlainPair, Plain, SlotsTyped
      <4> QED
        BY <4>1, <4>2
    <3> QED
      BY <1>2, <2>1, <3>4, <3>5
  <2>2. CASE misses' = [misses EXCEPT ![r] = Append(misses[r], i)] /\ slots' = slots
    <3>1. misses'[r] = Append(misses[r], i)
      BY <2>2 DEF IInv, TypeOK
    <3>2. /\ misses'[r] \in Seq(Docs(r)) /\ DOMAIN misses[r] = 1..Len(misses[r]) /\ Len(misses[r]) \in Nat
          /\ DOMAIN misses'[r] = 1..(Len(misses[r]) + 1)
          /\ misses'[r][Len(misses[r]) + 1] = i /\ \A k \in 1..Len(misses[r]) : misses'[r][k] = misses[r][k]
      BY <1>2, <1>5, <3>1
    <3>3. SlotsTyped(r)'
      BY <1>1, <1>2, <1>4, <2>2 DEF SlotsTyped
    <3>4. ASSUME NEW j \in Docs(r), j < i + 1 PROVE Found(r, j)' \/ Missed(r, j)'
      <4>1. CASE j = i
        BY <3>2, <4>1 DEF Missed
      <4>2. CASE j # i
        <5>1. j < i
          BY <1>3, <1>4, <3>4, <4>2
        <5>2. CASE Found(r, j)
          BY <1>1, <2>2, <5>2 DEF Found, Ids, TokenIds, PlainPair, Plain
        <5>3. CASE Missed(r, j)
          <6>1. PICK k \in 1..Len(misses[r]) : misses[r][k] = j
            BY <3>2, <5>3 DEF Missed
          <6>2. k \in DOMAIN misses'[r] /\ misses'[r][k] = j
            BY <3>2, <6>1
          <6> QED
            BY <6>2 DEF Missed
        <5> QED
          BY <1>2, <5>1, <5>2, <5>3
      <4> QED
        BY <4>1, <4>2
    <3> QED
      BY <3>2, <3>3, <3>4
  <2> QED
    BY <1>1, <2>1, <2>2
<1>9. HandlerInv(r)'
  BY <1>1, <1>2, <1>3, <1>4, <1>8 DEF HandlerInv
<1> QED
  BY <1>1, <1>6, <1>7, <1>9, StepIInv

\* All documents have been looked up.
LEMMA ProbedIInv == ASSUME IInv, NEW r \in Requests, Probed(r) PROVE IInv'
<1>1. /\ pc[r] = "probe" /\ pos[r] > Len(slots[r]) /\ status' = status
      /\ pc' = [pc EXCEPT ![r] = IF misses[r] = <<>> THEN "await" ELSE "tokenize"]
      /\ UNCHANGED <<config, cache, localVars, results>>
  BY DEF Probed, Goto
<1>2. /\ SlotsTyped(r) /\ status[r] # 200
      /\ \A i \in Docs(r) : i < pos[r] => Found(r, i) \/ Missed(r, i)
  BY <1>1 DEF IInv, HandlerInv
<1>3. Docs(r) = 1..Len(body[r].documents) /\ Len(body[r].documents) \in Nat /\ Docs(r)' = Docs(r) /\ pos[r] \in Nat
  BY <1>1, BodyType DEF IInv, TypeOK, Docs
<1>4. Len(slots[r]) = Len(body[r].documents)
  BY <1>2, <1>3 DEF SlotsTyped
<1>5. \A i \in Docs(r) : Found(r, i) \/ Missed(r, i)
  BY <1>1, <1>2, <1>3, <1>4
<1>6. TypeOK' /\ Alone(r)
  BY <1>1 DEF IInv, TypeOK, Alone, PcStates
<1>7. SlotsTyped(r)' /\ \A i \in Docs(r) : (Found(r, i)' <=> Found(r, i)) /\ (Missed(r, i)' <=> Missed(r, i))
  BY <1>1, <1>2, <1>3 DEF SlotsTyped, Found, Missed, Ids, TokenIds, PlainPair, Plain
<1>8. HandlerInv(r)'
  <2>1. CASE misses[r] = <<>>
    <3>1. pc'[r] = "await"
      BY <1>1, <2>1 DEF IInv, TypeOK
    <3>2. \A i \in Docs(r) : Found(r, i)'
      BY <1>5, <1>7, <2>1 DEF Missed
    <3> QED
      BY <1>1, <1>2, <1>3, <1>7, <3>1, <3>2, MissesKept DEF HandlerInv
  <2>2. CASE misses[r] # <<>>
    <3>1. pc'[r] = "tokenize"
      BY <1>1, <2>2 DEF IInv, TypeOK
    <3> QED
      BY <1>1, <1>2, <1>3, <1>5, <1>7, <3>1, MissesKept DEF HandlerInv
  <2> QED
    BY <2>1, <2>2
<1>9. CacheInv'
  BY <1>1, CacheKept DEF IInv
<1> QED
  BY <1>1, <1>6, <1>8, <1>9, StepIInv

\* Waiting for the tokenizer, and the last of its answers spliced.
LEMMA TokenizedIInv == ASSUME IInv, NEW r \in Requests, Tokenized(r) \/ Spliced(r) PROVE IInv'
<1>1. PICK l \in {"splice", "await"} :
        /\ pc[r] \in {"tokenize", "splice"} /\ pc' = [pc EXCEPT ![r] = l] /\ status' = status
        /\ l = "await" => misses[r] = <<>>
        /\ UNCHANGED <<config, cache, localVars, results>>
  BY DEF Tokenized, Spliced, Goto
<1>2. SlotsTyped(r) /\ status[r] # 200 /\ \A i \in Docs(r) : Found(r, i) \/ Missed(r, i)
  BY <1>1 DEF IInv, HandlerInv
<1>3. TypeOK' /\ Alone(r) /\ pc'[r] = l /\ Docs(r)' = Docs(r)
  BY <1>1 DEF IInv, TypeOK, Alone, PcStates, Docs
<1>4. SlotsTyped(r)' /\ \A i \in Docs(r) : (Found(r, i)' <=> Found(r, i)) /\ (Missed(r, i)' <=> Missed(r, i))
  BY <1>1, <1>2, <1>3 DEF SlotsTyped, Found, Missed, Ids, TokenIds, PlainPair, Plain
<1>5. l = "await" => \A i \in Docs(r) : Found(r, i)
  BY <1>1, <1>2 DEF Missed
<1>6. HandlerInv(r)'
  BY <1>1, <1>2, <1>3, <1>4, <1>5, MissesKept DEF HandlerInv
<1>7. CacheInv'
  BY <1>1, CacheKept DEF IInv
<1> QED
  BY <1>1, <1>3, <1>6, <1>7, StepIInv

\* One miss gets its ids and goes to the cache.
LEMMA SpliceIInv == ASSUME IInv, NEW r \in Requests, Splice(r) PROVE IInv'
<1> DEFINE i == Head(misses[r])
           ids == Ids(r, i)
<1>1. /\ pc[r] = "splice" /\ misses[r] # <<>> /\ cache' = Inserted(Key(r, i), ids)
      /\ slots' = [slots EXCEPT ![r][i] = ids] /\ misses' = [misses EXCEPT ![r] = Tail(misses[r])]
      /\ UNCHANGED <<config, pc, body, name, pos, results, status>>
  BY DEF Splice, Ids
<1>2. SlotsTyped(r) /\ misses[r] \in Seq(Docs(r)) /\ status[r] # 200 /\ \A j \in Docs(r) : Found(r, j) \/ Missed(r, j)
  BY <1>1 DEF IInv, HandlerInv
<1>3. name[r] \in Names /\ i \in Docs(r) /\ Docs(r)' = Docs(r)
  BY <1>1, <1>2 DEF SlotsTyped, Docs
<1>4. ids \in SlotSet
  BY <1>3, IdsType
<1>5. CacheInv'
  BY <1>1, <1>3, InsertSound
<1>6. /\ Len(misses[r]) \in Nat /\ DOMAIN misses[r] = 1..Len(misses[r]) /\ i = misses[r][1]
      /\ Tail(misses[r]) \in Seq(Docs(r)) /\ DOMAIN Tail(misses[r]) = 1..(Len(misses[r]) - 1)
      /\ \A k \in 1..(Len(misses[r]) - 1) : Tail(misses[r])[k] = misses[r][k + 1]
  BY <1>1, <1>2
<1> HIDE DEF i, ids
<1>7. TypeOK' /\ Alone(r) /\ misses'[r] = Tail(misses[r]) /\ slots'[r] = [slots[r] EXCEPT ![i] = ids] /\ pc'[r] = "splice"
  BY <1>1 DEF IInv, TypeOK, Alone
<1>8. SlotsTyped(r)'
  BY <1>1, <1>2, <1>3, <1>4, <1>7 DEF SlotsTyped
<1>9. ASSUME NEW j \in Docs(r) PROVE Found(r, j)' \/ Missed(r, j)'
  <2>1. CASE j = i
    BY <1>1, <1>2, <1>7, <2>1 DEF Found, Ids, TokenIds, PlainPair, Plain, SlotsTyped, ids
  <2>2. CASE j # i /\ Found(r, j)
    BY <1>1, <1>2, <1>7, <2>2 DEF Found, Ids, TokenIds, PlainPair, Plain, SlotsTyped
  <2>3. CASE j # i /\ Missed(r, j)
    <3>1. PICK k \in 1..Len(misses[r]) : misses[r][k] = j
      BY <1>6, <2>3 DEF Missed
    <3>2. k # 1
      BY <1>6, <2>3, <3>1
    <3>3. k - 1 \in 1..(Len(misses[r]) - 1) /\ (k - 1) + 1 = k
      BY <1>6, <3>1, <3>2
    <3>4. k - 1 \in DOMAIN misses'[r] /\ misses'[r][k - 1] = j
      <4>1. Tail(misses[r])[k - 1] = misses[r][(k - 1) + 1]
        BY <1>6, <3>3
      <4> QED
        BY <1>6, <1>7, <3>1, <3>3, <4>1
    <3> QED
      BY <3>4 DEF Missed
  <2> QED
    BY <1>2, <2>1, <2>2, <2>3
<1>10. HandlerInv(r)'
  BY <1>1, <1>2, <1>3, <1>6, <1>7, <1>8, <1>9 DEF HandlerInv
<1> QED
  BY <1>1, <1>5, <1>7, <1>10, StepIInv

\* The scores are those of the documents, sorted and cut.
LEMMA AnswerIInv == ASSUME IInv, NEW r \in Requests, Answer(r) PROVE IInv'
<1> DEFINE f == [i \in DOMAIN Scores(r) |-> apply_normalize(Scores(r)[i], body[r].normalize)]
<1>1. /\ pc[r] = "await" /\ results' = [results EXCEPT ![r] = build_sorted_results(f, body[r].top_n)]
      /\ pc' = [pc EXCEPT ![r] = "done"] /\ status' = [status EXCEPT ![r] = 200]
      /\ UNCHANGED <<config, cache, localVars>>
  BY DEF Answer, Finish
<1>2. SlotsTyped(r) /\ (backend # "worker" => \A i \in Docs(r) : Found(r, i))
  BY <1>1 DEF IInv, HandlerInv
<1>3. ASSUME Exact(r)
      PROVE  Scores(r) = [i \in Docs(r) |-> Logit(name[r], body[r].query, body[r].documents[i])]
  <2>0. backend = "worker" \/ \A i \in Docs(r) : PlainPair(r, i)
    BY <1>3 DEF Exact, PlainPair, Docs
  <2>1. DOMAIN slots[r] = Docs(r)
    BY <1>2 DEF SlotsTyped
  <2>2. ASSUME NEW i \in Docs(r)
        PROVE  (IF backend = "worker" THEN TokenIds(name[r], body[r].query, body[r].documents[i]) ELSE slots[r][i])
                 = <<name[r], body[r].query, body[r].documents[i]>>
    BY <1>2, <2>0 DEF Found, Ids, TokenIds
  <2>3. ASSUME NEW i \in Docs(r)
        PROVE  (LET ids == IF backend = "worker" THEN TokenIds(name[r], body[r].query, body[r].documents[i]) ELSE slots[r][i]
                IN  Logit(ids[1], ids[2], ids[3])) = Logit(name[r], body[r].query, body[r].documents[i])
    <3> DEFINE ids == IF backend = "worker" THEN TokenIds(name[r], body[r].query, body[r].documents[i]) ELSE slots[r][i]
    <3>1. ids = <<name[r], body[r].query, body[r].documents[i]>>
      BY <2>2
    <3> HIDE DEF ids
    <3>2. ids[1] = name[r] /\ ids[2] = body[r].query /\ ids[3] = body[r].documents[i]
      BY <3>1
    <3>3. Logit(ids[1], ids[2], ids[3]) = Logit(name[r], body[r].query, body[r].documents[i])
      BY <3>2
    <3> QED
      BY <3>3 DEF ids
  <2> QED
    BY <2>1, <2>3 DEF Scores
<1>4. Exact(r) => f = Expected(r)
  BY <1>3 DEF Expected
<1> HIDE DEF f
<1>5. TypeOK' /\ Alone(r) /\ pc'[r] = "done" /\ results'[r] = build_sorted_results(f, body[r].top_n)
  BY <1>1 DEF IInv, TypeOK, Alone, PcStates
<1>6. Expected(r)' = Expected(r) /\ name'[r] \in Names /\ (Exact(r)' <=> Exact(r))
  BY <1>1, <1>2 DEF Expected, Docs, SlotsTyped, apply_normalize, Exact, Plain
<1>7. Exact(r) => results'[r] = build_sorted_results(Expected(r), body[r].top_n)'
  BY <1>1, <1>4, <1>5, <1>6 DEF build_sorted_results, Truncated, Sorted, Rank, Before, Result
<1>8. HandlerInv(r)'
  BY <1>1, <1>5, <1>6, <1>7, MissesKept DEF HandlerInv
<1>9. CacheInv'
  BY <1>1, CacheKept DEF IInv
<1> QED
  BY <1>1, <1>5, <1>8, <1>9, StepIInv

\* A response without results.
LEMMA FinishIInv ==
  ASSUME IInv, NEW r \in Requests, NEW code, code \in Nat, code # 200, Finish(r, code),
         UNCHANGED <<config, cache, localVars, results>>
  PROVE  IInv'
<1>1. pc' = [pc EXCEPT ![r] = "done"] /\ status' = [status EXCEPT ![r] = code]
  BY DEF Finish
<1>2. status' \in [Requests -> Nat] /\ status'[r] # 200 /\ \A q \in Requests : q # r => status'[q] = status[q]
  BY <1>1 DEF IInv, TypeOK
<1> QED
  BY <1>1, <1>2, OverIInv

\* Rejections, failures, disconnects.
LEMMA EndsIInv ==
  ASSUME IInv, NEW r \in Requests, Refuse(r) \/ TokenizeFails(r) \/ InferenceFails(r) \/ Disconnect(r) PROVE IInv'
<1>3. CASE Refuse(r)
  <2>1. Rejection(body[r]) \in {400, 503}
    BY <1>3 DEF Refuse, Rejection
  <2>2. Rejection(body[r]) \in Nat /\ Rejection(body[r]) # 200
    BY <2>1
  <2> QED
    BY <1>3, <2>2, FinishIInv DEF Refuse
<1>4. CASE TokenizeFails(r)
  <2>1. 500 \in Nat /\ 500 # 200
    OBVIOUS
  <2> QED
    BY <1>4, <2>1, FinishIInv DEF TokenizeFails
<1>5. CASE InferenceFails(r)
  <2>1. PICK code \in Failures[backend] : Finish(r, code)
    BY <1>5 DEF InferenceFails
  <2>2. code \in Nat /\ code # 200
    BY DEF Failures, IInv, TypeOK, Backends
  <2> QED
    BY <1>5, <2>1, <2>2, FinishIInv DEF InferenceFails
<1>6. CASE Disconnect(r)
  <2>1. /\ pc[r] \in {"tokenize", "await"} /\ pc' = [pc EXCEPT ![r] = "dropped"] /\ status' = status
        /\ UNCHANGED <<config, cache, localVars, results>>
    BY <1>6 DEF Disconnect
  <2>2. status[r] # 200
    BY <2>1 DEF IInv, HandlerInv
  <2>3. status' \in [Requests -> Nat]
    BY <2>1 DEF IInv, TypeOK
  <2> QED
    BY <2>1, <2>2, <2>3, OverIInv
<1> QED
  BY <1>3, <1>4, <1>5, <1>6

\* The invariant is inductive.
LEMMA NextIInv == IInv /\ [Next]_vars => IInv'
<1> SUFFICES ASSUME IInv, [Next]_vars PROVE IInv'
  OBVIOUS
<1>1. ASSUME UNCHANGED <<config, pc, localVars, results, status>>, CacheInv' PROVE IInv'
  <2>1. TypeOK'
    BY <1>1 DEF IInv, TypeOK
  <2>2. ASSUME NEW q \in Requests PROVE HandlerInv(q)'
    BY <1>1, HandlerKept DEF IInv
  <2> QED
    BY <1>1, <2>1, <2>2 DEF IInv
<1>2. CASE UNCHANGED vars \/ Shutdown
  BY <1>1, <1>2, CacheKept DEF Shutdown, IInv
<1>3. CASE Evict
  <2>1. PICK k \in DOMAIN cache : cache' = [x \in DOMAIN cache \ {k} |-> cache[x]]
    BY <1>3 DEF Evict
  <2>2. CacheInv'
    <3> DEFINE K(n, b, j) == <<n, hash_pair(b.query, b.documents[j])>>
    <3>1. ASSUME NEW n \in Names, NEW b \in Bodies, NEW j \in DOMAIN b.documents,
                 Plain(b.query), Plain(b.documents[j]), K(n, b, j) \in DOMAIN cache'
          PROVE  cache'[K(n, b, j)] = TokenIds(n, b.query, b.documents[j])
      <4>1. K(n, b, j) \in DOMAIN cache => cache[K(n, b, j)] = TokenIds(n, b.query, b.documents[j])
        BY <3>1 DEF IInv, CacheInv, PlainPairsSound, Sound
      <4>2. K(n, b, j) \in DOMAIN cache'
        BY <3>1
      <4> HIDE DEF K
      <4> QED
        BY <2>1, <4>1, <4>2
    <3>2. PlainPairsSound'
      BY <3>1 DEF PlainPairsSound, Sound, Plain, TokenIds, hash_pair
    <3>3. \A x \in DOMAIN cache' : cache'[x] \in IdsSet
      BY <2>1 DEF IInv, CacheInv
    <3> QED
      BY <3>2, <3>3 DEF CacheInv, IdsSet
  <2> QED
    BY <1>1, <1>3, <2>2 DEF Evict
<1>4. ASSUME NEW r \in Requests, TryAcquire(r) \/ Step(r) \/ Backend(r) \/ Disconnect(r) PROVE IInv'
  BY <1>4, TryAcquireIInv, AdmitIInv, ProbeIInv, ProbedIInv, TokenizedIInv, SpliceIInv, AnswerIInv, EndsIInv
     DEF Step, Backend
<1> QED
  BY <1>2, <1>3, <1>4 DEF Next

\* A new server.
LEMMA InitIInv == Init => IInv /\ PermitInv
<1> SUFFICES ASSUME Init PROVE IInv /\ PermitInv
  OBVIOUS
<1>1. TypeOK
  BY DEF Init, TypeOK, PcStates
<1>2. CacheInv
  BY DEF Init, CacheInv, PlainPairsSound, Sound
<1>3. ASSUME NEW r \in Requests PROVE HandlerInv(r)
  BY DEF Init, HandlerInv
<1>4. Holders = {}
  BY DEF Init, Holders, Held
<1>5. PermitInv
  BY <1>4, FS_EmptySet, RerankAssumption DEF Init, PermitInv
<1> QED
  BY <1>1, <1>2, <1>3, <1>5 DEF IInv

\* The invariants of the handlers and of what they share.
THEOREM RerankInvariant == Spec => [](IInv /\ PermitInv)
<1>1. IInv => TypeOK
  BY DEF IInv
<1> QED
  BY <1>1, InitIInv, NextIInv, NextPermits, PTL DEF Spec

\* api_rerank.rs: on every way out of the handler, the dropped ones included, its permit
\* comes back once, for every cap and any number of requests.
THEOREM RerankPermits == Spec => []PermitsConserved
<1>1. PermitInv => PermitsConserved
  BY DEF PermitInv, PermitsConserved, Holders, Holding, Held
<1> QED
  BY <1>1, RerankInvariant, PTL

\* token_cache.rs: a pair of plain texts finds its own token ids under its key, for texts
\* of any length and whatever the texts of other requests contain: its key has one
\* separator, and a pair with the same key has it at the same place.
THEOREM RerankTokenCache == Spec => []PlainPairsSound
<1>1. IInv => PlainPairsSound
  BY DEF IInv, CacheInv
<1> QED
  BY <1>1, RerankInvariant, PTL

\* api_rerank.rs: a 200 lists the best documents of its request, best first, for every
\* scoring function, number of documents and top_n; when the server scores itself, for
\* requests without the separator.
THEOREM RerankBest == Spec => []BestDocuments
BY BestFromInv, RerankInvariant, PTL

===============================================================================
