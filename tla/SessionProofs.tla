---------------------------- MODULE SessionProofs ---------------------------
(***************************************************************************)
(* The sessions, from the graph file to the inference: a session built at     *)
(* startup runs the graph of its own model with the options configured for    *)
(* it, and a server that is up has all its models (Startup); requests are     *)
(* routed to sessions as PoolService says (SessionPool, Sparse); a text gets   *)
(* its own sparse vector whatever ran on its session and thread before.       *)
(***************************************************************************)
EXTENDS Startup, Sparse, ListLemmas, SequenceTheorems

\* The pools' type and the rule that a mutex is held by the caller that runs.
PoolInv == PoolTypeOK /\ HolderRuns

\* A session belongs to one pool only.
LEMMA SessionFacts ==
    ASSUME NEW q \in Pools, NEW i \in 0..(PoolSize(q) - 1)
    PROVE  /\ Session(q, i) \in Sessions
           /\ Session(q, i).pool = q
BY DEF Session, SessionsOf, Sessions

\* Taking the cursor modulo the size of the pool names a session of it.
LEMMA PickedSession ==
    ASSUME PoolTypeOK, NEW q \in Pools
    PROVE  /\ Session(q, cursor[q] % PoolSize(q)) \in Sessions
           /\ Session(q, cursor[q] % PoolSize(q)).pool = q
           /\ Session(q, cursor[q] % PoolSize(q)) # NoSession
<1>1. cursor[q] \in Nat /\ PoolSize(q) \in Nat \ {0}
  BY PoolAssumption DEF PoolTypeOK
<1>2. cursor[q] % PoolSize(q) \in 0..(PoolSize(q) - 1)
  BY <1>1
<1> QED
  BY <1>2, SessionFacts, NoSessionAssumption

\* The cursor wraps at the width of its counter.
LEMMA NextCursor ==
    ASSUME PoolTypeOK, NEW q \in Pools
    PROVE  (cursor[q] + 1) % CursorSize(q) \in 0..(CursorSize(q) - 1)
<1>1. cursor[q] \in Nat /\ CursorSize(q) \in Nat \ {0}
  BY PoolAssumption DEF PoolTypeOK
<1> QED
  BY <1>1

\* The type and the holders of the mutexes are preserved together.
LEMMA PoolInductive == PoolInv /\ [PoolNext]_poolVars => PoolInv'
<1> SUFFICES ASSUME PoolInv, [PoolNext]_poolVars PROVE PoolInv'
  OBVIOUS
<1> USE NoSessionAssumption
<1>0. NoCaller \notin Callers
  BY PoolAssumption
<1>1. ASSUME NEW c \in Callers, NEW j \in Jobs, NEW q \in Pools, Accepts(q, j), Pick(c, j, q)
      PROVE  PoolInv'
  <2> DEFINE s == Session(q, cursor[q] % PoolSize(q))
  <2>1. s \in Sessions /\ s # NoSession /\ s.pool = q
    BY PickedSession DEF PoolInv
  <2> HIDE DEF s
  <2>2. /\ want' = [want EXCEPT ![c] = s] /\ step' = [step EXCEPT ![c] = "waiting"]
        /\ job' = [job EXCEPT ![c] = j] /\ lock' = lock /\ step[c] = "idle"
    BY <1>1 DEF Pick, s
  <2>3. PoolTypeOK'
    BY <1>1, <2>1, <2>2, NextCursor DEF PoolInv, PoolTypeOK, Pick
  <2>4. HolderRuns'
    BY <1>1, <2>1, <2>2 DEF PoolInv, PoolTypeOK, HolderRuns
  <2> QED
    BY <2>3, <2>4 DEF PoolInv
<1>2. ASSUME NEW c \in Callers, Lock(c) PROVE PoolInv'
  <2>1. want[c] \in Sessions
    BY <1>2 DEF PoolInv, PoolTypeOK, HolderRuns, Lock
  <2>2. PoolTypeOK'
    BY <1>2, <2>1 DEF PoolInv, PoolTypeOK, Lock
  <2>3. HolderRuns'
    BY <1>0, <1>2, <2>1 DEF PoolInv, PoolTypeOK, HolderRuns, Lock
  <2> QED
    BY <2>2, <2>3 DEF PoolInv
<1>3. ASSUME NEW c \in Callers, Unlock(c) PROVE PoolInv'
  <2>1. want[c] \in Sessions /\ lock[want[c]] = c
    BY <1>3 DEF PoolInv, PoolTypeOK, HolderRuns, Unlock
  <2>2. PoolTypeOK'
    BY <1>3, <2>1 DEF PoolInv, PoolTypeOK, Unlock
  <2>3. HolderRuns'
    BY <1>0, <1>3, <2>1 DEF PoolInv, PoolTypeOK, HolderRuns, Unlock
  <2> QED
    BY <2>2, <2>3 DEF PoolInv
<1>4. CASE UNCHANGED poolVars
  BY <1>4 DEF poolVars, PoolInv, PoolTypeOK, HolderRuns
<1> QED
  BY <1>1, <1>2, <1>3, <1>4 DEF PoolNext

\* The invariant of the pools.
LEMMA PoolInvariant == PoolSpec => []PoolInv
<1>1. PoolInit => PoolInv
  BY PoolAssumption, NoSessionAssumption DEF PoolInit, PoolInv, PoolTypeOK, HolderRuns
<1> QED
  BY <1>1, PoolInductive, PTL DEF PoolSpec

\* A step of the cursor and the mutexes is a step of the service or leaves it as
\* it is.
LEMMA PoolStep ==
    ASSUME PoolInv, [PoolNext]_poolVars
    PROVE  [Service!Next]_(Service!vars)
<1>1. ASSUME NEW c \in Callers, NEW j \in Jobs, NEW q \in Pools, Pick(c, j, q) PROVE Service!Ask(c, j)
  BY <1>1 DEF Pick, Service!Ask
<1>2. ASSUME NEW c \in Callers, Lock(c) PROVE want[c] \in Sessions /\ Service!Serve(c, want[c])
  BY <1>2 DEF PoolInv, PoolTypeOK, HolderRuns, Lock, Service!Serve, Suits
<1>3. ASSUME NEW c \in Callers, Unlock(c) PROVE want[c] \in Sessions /\ Service!Release(c, want[c])
  BY <1>3 DEF PoolInv, PoolTypeOK, HolderRuns, Unlock, Service!Release
<1>4. CASE UNCHANGED poolVars
  BY <1>4 DEF poolVars, Service!vars
<1>5. CASE PoolNext
  <2>1. PICK c \in Callers : \/ \E j \in Jobs, q \in Pools : Pick(c, j, q)
                            \/ Lock(c) \/ Unlock(c)
    BY <1>5 DEF PoolNext
  <2>2. \/ \E j \in Jobs : Service!Ask(c, j)
        \/ \E s \in Sessions : Service!Serve(c, s)
        \/ \E s \in Sessions : Service!Release(c, s)
    <3>1. CASE \E j \in Jobs, q \in Pools : Pick(c, j, q)
      BY <3>1, <1>1
    <3>2. CASE Lock(c)
      <4>1. want[c] \in Sessions /\ Service!Serve(c, want[c])
        BY <3>2, <1>2
      <4> QED
        BY <4>1
    <3>3. CASE Unlock(c)
      <4>1. want[c] \in Sessions /\ Service!Release(c, want[c])
        BY <3>3, <1>3
      <4> DEFINE R(s) == Service!Release(c, s)
      <4>2. R(want[c])
        BY <4>1
      <4> HIDE DEF R
      <4>3. \E s \in Sessions : R(s)
        BY <4>1, <4>2
      <4> QED
        BY <4>3 DEF R
    <3> QED
      BY <2>1, <3>1, <3>2, <3>3
  <2> QED
    BY <2>2 DEF Service!Next
<1> QED
  BY <1>4, <1>5

\* Cursor and mutexes implement the service for callers that choose a pool that
\* takes their job.
LEMMA PoolImplements == PoolSpec => RefinesService
<1>1. PoolInit => Service!Init
  BY DEF PoolInit, Service!Init
<1> QED
  BY <1>1, PoolInvariant, PoolStep, PTL DEF PoolSpec, RefinesService, Service!Spec

\* The name of a model resolves to a configured one, itself if one was named, or to
\* nothing.
LEMMA ResolvedName ==
    ASSUME NEW model, resolve_splade_name(model) # Absent
    PROVE  resolve_splade_name(model) \in Splades /\ model \in {Absent, resolve_splade_name(model)}
<1>1. CASE model # Absent
  BY <1>1 DEF resolve_splade_name
<1>2. CASE model = Absent
  <2>1. Cardinality(Splades) = 1 /\ resolve_splade_name(model) = CHOOSE m \in Splades : TRUE
    BY <1>2 DEF resolve_splade_name
  <2>2. Splades # {}
    BY <2>1, FS_EmptySet
  <2> QED
    BY <1>2, <2>1, <2>2
<1> QED
  BY <1>1, <1>2

\* A handler that has passed the checks.
Active == {"dispatch", "next", "encode"}

\* A request that got past the checks resolves to a configured model.
SparseInv ==
    /\ DOMAIN pc = SparseCallers /\ DOMAIN req = SparseCallers
    /\ \A c \in SparseCallers : pc[c] \in Active => /\ ModelOf(c) \in Splades
                                                  /\ req[c] \in Bodies

\* The type of the sparse handler and the pool of every caller are preserved.
LEMMA SparseInductive == SparseInv /\ [SparseNext]_allVars => SparseInv'
<1> SUFFICES ASSUME SparseInv, [SparseNext]_allVars PROVE SparseInv'
  OBVIOUS
<1>1. ASSUME NEW c \in SparseCallers, Receive(c) PROVE SparseInv'
  <2>1. PICK r \in Bodies :
          /\ req' = [req EXCEPT ![c] = r]
          /\ \/ pc' = [pc EXCEPT ![c] = "done"]
             \/ ~Invalid(r) /\ pc' = [pc EXCEPT ![c] = IF workers THEN "dispatch" ELSE "next"]
    BY <1>1 DEF Receive, Respond
  <2>2. ~Invalid(r) => resolve_splade_name(r.model) \in Splades
    BY ResolvedName DEF Invalid
  <2> QED
    BY <2>1, <2>2 DEF SparseInv, ModelOf, Active
<1>2. ASSUME NEW c \in SparseCallers, Handle(c) \/ Disconnect(c) PROVE SparseInv'
  <2>1. req' = req /\ \E next \in {"next", "encode", "done"} :
            pc' = pc \/ (pc[c] \in Active /\ pc' = [pc EXCEPT ![c] = next])
    <3>1. CASE Dispatch(c)
      BY <3>1 DEF Dispatch, Respond, Active
    <3>2. CASE EncodeTrivial(c) \/ TokenizeFails(c) \/ Answer(c)
      BY <3>2 DEF EncodeTrivial, TokenizeFails, Answer, Fail, Respond, Active
    <3>3. CASE BeginEncode(c) \/ EncodeLock(c)
      BY <3>3 DEF BeginEncode, EncodeLock, Active, sparseVars
    <3>4. CASE EndEncode(c)
      <4>1. /\ req' = req /\ pc[c] = "encode"
            /\ \/ Fail(c, 500)
               \/ pc' = [pc EXCEPT ![c] = IF gone[c] /\ ~workers THEN "done" ELSE "next"]
        BY <3>4 DEF EndEncode
      <4> QED
        BY <4>1 DEF Fail, Respond, Active
    <3>5. CASE Disconnect(c)
      BY <3>5 DEF Disconnect, Active
    <3> QED
      BY <1>2, <3>1, <3>2, <3>3, <3>4, <3>5 DEF Handle
  <2> QED
    BY <2>1 DEF SparseInv, ModelOf, Active
<1>3. CASE (\E c \in RerankCallers : score_pairs(c)) \/ UNCHANGED allVars
  BY <1>3 DEF score_pairs, sparseVars, allVars, SparseInv, ModelOf
<1> QED
  BY <1>1, <1>2, <1>3 DEF SparseNext

\* The pool a batch is sent to exists and takes it: its own reranker's, with a graph
\* for that number of pairs or for any.
LEMMA PoolForBatch ==
    ASSUME NEW name \in Rerankers, NEW n
    PROVE  PoolFor(name, n) \in Pools /\ Accepts(PoolFor(name, n), RerankJob(name, n))
BY DynamicPoolsAssumption DEF PoolFor, RerankPool, RerankJob, Accepts

\* So does the pool a text is sent to.
LEMMA PoolForText ==
    ASSUME NEW r, resolve_splade_name(r.model) \in Splades
    PROVE  LET q == SpladePool(resolve_splade_name(r.model))
           IN  q \in Pools /\ Accepts(q, SpladeJob(r))
<1>1. resolve_splade_name(r.model) # Absent
  BY SparseAssumption
<1>2. r.model \in {Absent, resolve_splade_name(r.model)}
  BY <1>1, ResolvedName
<1> QED
  BY <1>2, DynamicPoolsAssumption DEF SpladePool, SpladeJob, Accepts

\* Whatever the handler and the reranker do, they touch the pools only through
\* Pick, Lock and Unlock.
LEMMA StepOfPools ==
    ASSUME SparseInv, [SparseNext]_allVars
    PROVE  [PoolNext]_poolVars
<1>1. ASSUME NEW c \in SparseCallers, Receive(c) \/ Handle(c) \/ Disconnect(c)
      PROVE  [PoolNext]_poolVars
  <2>1. c \in Callers
    BY SparseAssumption
  <2>2. CASE BeginEncode(c)
    <3>1. ModelOf(c) \in Splades /\ req[c] \in Bodies /\ Pick(c, SpladeJob(req[c]), SpladePool(ModelOf(c)))
      BY <2>2 DEF BeginEncode, SparseInv, Active
    <3>2. /\ SpladePool(ModelOf(c)) \in Pools /\ Accepts(SpladePool(ModelOf(c)), SpladeJob(req[c]))
          /\ SpladeJob(req[c]) \in Jobs
      BY <3>1, PoolForText, JobsAssumption DEF ModelOf
    <3> QED
      BY <2>1, <3>1, <3>2 DEF PoolNext
  <2>3. CASE EncodeLock(c)
    BY <2>1, <2>3 DEF EncodeLock, PoolNext
  <2>4. CASE EndEncode(c)
    <3>1. Unlock(c)
      BY <2>4 DEF EndEncode
    <3> QED
      BY <2>1, <3>1 DEF PoolNext
  <2>5. CASE Receive(c) \/ Dispatch(c) \/ EncodeTrivial(c) \/ TokenizeFails(c) \/ Answer(c) \/ Disconnect(c)
    BY <2>5 DEF Receive, Dispatch, EncodeTrivial, TokenizeFails, Answer, Disconnect
  <2> QED
    BY <1>1, <2>2, <2>3, <2>4, <2>5 DEF Handle
<1>2. ASSUME NEW c \in RerankCallers, score_pairs(c) PROVE [PoolNext]_poolVars
  <2>1. c \in Callers
    BY SparseAssumption
  <2>2. CASE Lock(c) \/ Unlock(c)
    BY <2>1, <2>2 DEF PoolNext
  <2>3. CASE \E name \in Rerankers, n \in Batches \ {0} : Pick(c, RerankJob(name, n), PoolFor(name, n))
    <3>1. PICK name \in Rerankers, n \in Batches \ {0} : Pick(c, RerankJob(name, n), PoolFor(name, n))
      BY <2>3
    <3>2. RerankJob(name, n) \in Jobs
      BY JobsAssumption
    <3> QED
      BY <2>1, <3>1, <3>2, PoolForBatch DEF PoolNext
  <2> QED
    BY <1>2, <2>2, <2>3 DEF score_pairs
<1>3. CASE UNCHANGED allVars
  BY <1>3 DEF allVars
<1> QED
  BY <1>1, <1>2, <1>3 DEF SparseNext

\* The handler and the reranker use the pools as their specification says.
LEMMA UsesPools == SparseSpec => PoolSpec
<1>1. SparseInit => PoolInit /\ SparseInv
  BY DEF SparseInit, SparseInv, Active
<1> QED
  BY <1>1, SparseInductive, StepOfPools, PTL DEF SparseSpec, PoolSpec

\* api_splade.rs, model_splade.rs, model_reranker/mod.rs: whatever is asked for runs
\* on a session of the model the request named, or of the only one, whose graph
\* takes its number of rows, and has that session to itself until it is done.
THEOREM SessionsAreServed == SparseSpec => RefinesService
BY UsesPools, PoolImplements

------------------------------------------------------------------------------
(* The weights.                                                             *)

\* Of finitely many numbers and zero one is the largest.
LEMMA LargestOf ==
    ASSUME NEW n \in Nat, NEW f \in [1..n -> Int]
    PROVE  \E x \in {f[j] : j \in 1..n} \cup {0} : \A y \in {f[j] : j \in 1..n} \cup {0} : x >= y
<1> DEFINE B(k) == {f[j] : j \in 1..k} \cup {0}
           P == {k \in 0..n : \E x \in B(k) : \A y \in B(k) : x >= y}
<1>1. 0 \in P
  <2>1. B(0) = {0} /\ 0 \in 0..n
    OBVIOUS
  <2> QED
    BY <2>1
<1>2. ASSUME NEW k \in 1..n, k - 1 \in P PROVE k \in P
  <2>1. PICK x \in B(k - 1) : \A y \in B(k - 1) : x >= y
    BY <1>2
  <2>2. k \in 0..n /\ k - 1 \in 0..n /\ k \in 1..k /\ f[k] \in Int
    OBVIOUS
  <2>3. \A j \in 1..k : j \in 1..(k - 1) \/ j = k
    OBVIOUS
  <2>4. \A j \in 1..(k - 1) : j \in 1..k /\ f[j] \in Int
    OBVIOUS
  <2>5. B(k) = B(k - 1) \cup {f[k]}
    BY <2>2, <2>3, <2>4
  <2>6. B(k - 1) \subseteq Int /\ x \in Int
    BY <2>4
  <2> HIDE DEF B
  <2>7. CASE f[k] >= x
    <3>1. \A y \in B(k) : f[k] >= y
      BY <2>1, <2>2, <2>5, <2>6, <2>7
    <3> QED
      BY <2>2, <2>5, <3>1
  <2>8. CASE ~(f[k] >= x)
    <3>1. x \in B(k) /\ \A y \in B(k) : x >= y
      BY <2>1, <2>2, <2>5, <2>6, <2>8
    <3> QED
      BY <2>2, <3>1
  <2> QED
    BY <2>7, <2>8
<1>3. 0..n \subseteq P
  <2> HIDE DEF P
  <2> QED
    BY <1>1, <1>2, UpTo
<1>4. n \in P
  <2> HIDE DEF P
  <2> QED
    BY <1>3
<1> QED
  BY <1>4

\* What the sweep over the positions leaves for a term is its weight in the text: the
\* largest of the logarithms is the logarithm of the largest.
LEMMA SweepWeighs ==
    ASSUME NEW text \in SparseTexts, NEW v \in Vocab
    PROVE  Weight(text, v) \in Nat /\ Sweep(Zero, text)[v] = Weight(text, v)
<1> DEFINE n == Positions(text)
           F == [j \in 1..n |-> Logit(text, j, v)]
           B == {Logit(text, j, v) : j \in 1..n} \cup {0}
           A == {0} \cup {Log1p(Logit(text, j, v)) : j \in {j \in 1..n : Logit(text, j, v) > 0}}
           best == Max(B)
<1>1. n \in Nat
  BY TermsAssumption
<1>2. \A j \in 1..n : Logit(text, j, v) \in Logits /\ Logit(text, j, v) \in Int
  BY TermsAssumption DEF Logits
<1>3. F \in [1..n -> Int] /\ B = {F[j] : j \in 1..n} \cup {0}
  BY <1>2
<1>4. \E x \in B : \A y \in B : x >= y
  <2> HIDE DEF F, n, B
  <2> QED
    BY <1>1, <1>3, LargestOf
<1>5. best \in B /\ \A y \in B : best >= y
  <2> HIDE DEF B
  <2> QED
    BY <1>4 DEF Max
<1>6. best \in Int /\ best >= 0
  BY <1>2, <1>5
<1>7. \A j \in 1..n : Logit(text, j, v) <= best
  BY <1>2, <1>5, <1>6
<1> DEFINE w == IF best = 0 THEN 0 ELSE Log1p(best)
<1>8. Weight(text, v) = w
  BY DEF Weight
<1> HIDE DEF best
<1>9. best # 0 => best \in Logits /\ best > 0
  BY <1>2, <1>5, <1>6
<1>10. w \in Nat
  BY <1>9, TermsAssumption
<1>11. w \in A
  <2>1. CASE best = 0
    BY <2>1
  <2>2. CASE best # 0
    <3>1. PICK j \in 1..n : best = Logit(text, j, v)
      BY <1>5, <2>2
    <3> QED
      BY <1>9, <2>2, <3>1
  <2> QED
    BY <2>1, <2>2
<1>12. \A y \in A : w >= y /\ y \in Nat
  <2>1. 0 \in Nat /\ w >= 0
    BY <1>10
  <2>2. ASSUME NEW j \in 1..n, Logit(text, j, v) > 0
        PROVE  w >= Log1p(Logit(text, j, v)) /\ Log1p(Logit(text, j, v)) \in Nat
    <3> DEFINE x == Logit(text, j, v)
    <3>1. x \in Logits /\ x \in Int /\ x > 0 /\ x <= best
      BY <1>2, <1>7, <2>2
    <3> HIDE DEF x
    <3>2. best # 0 /\ best \in Logits
      BY <1>6, <1>9, <3>1
    <3>3. Log1p(x) \in Nat /\ Log1p(x) <= Log1p(best) /\ Log1p(best) \in Nat
      BY <1>9, <3>1, <3>2, TermsAssumption
    <3>4. w = Log1p(best)
      BY <3>2
    <3> HIDE DEF w
    <3>5. w >= Log1p(x) /\ Log1p(x) \in Nat
      BY <3>3, <3>4
    <3> QED
      BY <3>5 DEF x
  <2> QED
    BY <2>1, <2>2
<1>13. Max(A) = w
  <2> HIDE DEF A, w
  <2>1. Max(A) \in A /\ \A y \in A : Max(A) >= y
    BY <1>11, <1>12 DEF Max
  <2>2. Max(A) \in Nat /\ w \in Nat /\ Max(A) >= w /\ w >= Max(A)
    BY <1>10, <1>11, <1>12, <2>1
  <2> QED
    BY <2>2
<1>14. Sweep(Zero, text)[v] = Max(A)
  <2>1. Zero[v] = 0
    BY DEF Zero
  <2> QED
    BY <2>1 DEF Sweep
<1> QED
  BY <1>8, <1>10, <1>13, <1>14

------------------------------------------------------------------------------
(* The lists of terms.                                                      *)

\* The terms of a text that count.
Above(text, m) == IF Positions(text) = 0 THEN {} ELSE {v \in Vocab : Weight(text, v) > m}

\* A list of the heaviest terms of a text, of whatever length.
Ranked(item, text, m) ==
    /\ item \in Seq(Vocab \X Int)
    /\ \A i \in 1..Len(item) : item[i][1] \in Above(text, m) /\ item[i][2] = Weight(text, item[i][1])
    /\ \A i, j \in 1..Len(item) : i < j => item[i][1] # item[j][1] /\ item[i][2] >= item[j][2]
    /\ \A v \in Above(text, m) : \/ \E j \in 1..Len(item) : item[j][1] = v
                                 \/ \A i \in 1..Len(item) : item[i][2] >= Weight(text, v)

\* The smaller of two numbers.
Shorter(k, n) == IF k < n THEN k ELSE n

\* As many of them as were asked for, or all.
Complete(item, text, k, m) == /\ Ranked(item, text, m)
                              /\ Len(item) = Shorter(k, Cardinality(Above(text, m)))

\* They are finitely many, and weigh more than the threshold.
LEMMA AboveFacts ==
    ASSUME NEW text \in SparseTexts, NEW m \in Int
    PROVE  /\ IsFiniteSet(Above(text, m)) /\ Cardinality(Above(text, m)) \in Nat
           /\ \A v \in Above(text, m) : v \in Vocab /\ Weight(text, v) \in Nat /\ Weight(text, v) > m
<1>1. Above(text, m) \subseteq Vocab
  BY DEF Above
<1>2. IsFiniteSet(Above(text, m)) /\ Cardinality(Above(text, m)) \in Nat
  BY <1>1, TermsAssumption, FS_Subset, FS_CardinalityType
<1>3. \A v \in Above(text, m) : Weight(text, v) > m
  BY DEF Above
<1> QED
  BY <1>1, <1>2, <1>3, SweepWeighs

\* What the partial sort of encode_sparse selects are the heaviest terms.
LEMMA TopIsComplete ==
    ASSUME NEW text \in SparseTexts, Positions(text) # 0, NEW k \in Nat, NEW m \in Int,
           NEW weights, weights = Sweep(Zero, text), NEW item \in TopTerms(weights, k, m)
    PROVE  Complete(item, text, k, m)
<1> DEFINE above == {v \in Vocab : weights[v] > m}
           n == IF k < Cardinality(above) THEN k ELSE Cardinality(above)
<1>1. \A v \in Vocab : weights[v] = Weight(text, v) /\ weights[v] \in Int
  BY SweepWeighs
<1>2. above = Above(text, m)
  BY <1>1 DEF Above
<1>3. PICK s \in [1..n -> above] :
          /\ \A i, j \in 1..n : i < j => s[i] # s[j] /\ weights[s[i]] >= weights[s[j]]
          /\ \A i \in 1..n, v \in above \ Range(s) : weights[s[i]] >= weights[v]
          /\ item = [i \in 1..n |-> <<s[i], weights[s[i]]>>]
  BY DEF TopTerms
<1> HIDE DEF above
<1>4. n \in Nat /\ n = Shorter(k, Cardinality(Above(text, m)))
  BY <1>2, AboveFacts DEF Shorter
<1> HIDE DEF n
<1>5. \A i \in 1..n : s[i] \in above /\ s[i] \in Vocab /\ weights[s[i]] = Weight(text, s[i]) /\ weights[s[i]] \in Int
  BY <1>1, <1>3 DEF above
<1>6. /\ item \in Seq(Vocab \X Int) /\ Len(item) = n
      /\ \A i \in 1..n : item[i] = <<s[i], weights[s[i]]>>
  <2> DEFINE S == Vocab \X Int
  <2>1. item \in [1..n -> S]
    BY <1>3, <1>5
  <2> HIDE DEF S
  <2>2. item \in Seq(S) /\ Len(item) = n
    BY <1>4, <2>1
  <2> QED
    BY <1>3, <2>2 DEF S
<1>7. \A i \in 1..n : item[i][1] = s[i] /\ item[i][2] = weights[s[i]]
  BY <1>6
<1>8. ASSUME NEW v \in above, \A j \in 1..n : item[j][1] # v, NEW i \in 1..n
      PROVE  item[i][2] >= Weight(text, v)
  <2>1. v \notin Range(s)
    BY <1>3, <1>7, <1>8 DEF Range
  <2>2. weights[v] = Weight(text, v)
    BY <1>1 DEF above
  <2> QED
    BY <1>3, <1>7, <2>1, <2>2
<1>9. Ranked(item, text, m)
  <2>1. \A i \in 1..n : item[i][1] \in above /\ item[i][2] = Weight(text, item[i][1])
    BY <1>5, <1>7
  <2>2. \A i, j \in 1..n : i < j => item[i][1] # item[j][1] /\ item[i][2] >= item[j][2]
    BY <1>3, <1>7
  <2> QED
    BY <1>2, <1>6, <1>8, <2>1, <2>2 DEF Ranked
<1> QED
  BY <1>4, <1>6, <1>9 DEF Complete

\* Nothing is right for a text without tokens, or when nothing is wanted.
LEMMA EmptyIsComplete ==
    ASSUME NEW text \in SparseTexts, NEW k \in Nat, NEW m \in Int, Positions(text) = 0 \/ k = 0
    PROVE  Complete(<<>>, text, k, m)
<1>1. <<>> \in Seq(Vocab \X Int) /\ Len(<<>>) = 0 /\ 1..0 = {}
  OBVIOUS
<1>2. Shorter(k, Cardinality(Above(text, m))) = 0
  <2>1. CASE Positions(text) = 0
    <3>1. Cardinality(Above(text, m)) = 0
      BY <2>1, FS_EmptySet DEF Above
    <3> QED
      BY <3>1 DEF Shorter
  <2>2. CASE k = 0
    BY <2>2, AboveFacts DEF Shorter
  <2> QED
    BY <2>1, <2>2
<1> QED
  BY <1>1, <1>2 DEF Complete, Ranked

\* Cutting a list of heaviest terms leaves one.
LEMMA RankedCut ==
    ASSUME NEW text, NEW m \in Int, NEW item, Ranked(item, text, m), NEW n \in 0..Len(item)
    PROVE  Ranked(SubSeq(item, 1, n), text, m) /\ Len(SubSeq(item, 1, n)) = n
<1> DEFINE cut == SubSeq(item, 1, n)
           S == Vocab \X Int
<1>1. item \in Seq(S) /\ Len(item) \in Nat
  BY DEF Ranked
<1> HIDE DEF S
<1>2. cut \in Seq(S) /\ Len(cut) = n /\ \A i \in 1..n : cut[i] = item[i]
  BY <1>1
<1>3. \A i \in 1..n : i \in 1..Len(item)
  BY <1>1
<1> HIDE DEF cut
<1>4. ASSUME NEW v \in Above(text, m), NEW i \in 1..n, \A j \in 1..n : cut[j][1] # v
      PROVE  cut[i][2] >= Weight(text, v)
  <2>1. CASE \E j \in 1..Len(item) : item[j][1] = v
    <3>1. PICK j \in 1..Len(item) : item[j][1] = v
      BY <2>1
    <3>2. j \notin 1..n
      BY <1>2, <1>4, <3>1
    <3>3. i < j
      BY <1>1, <3>2
    <3>4. item[i][2] >= item[j][2] /\ item[j][2] = Weight(text, v)
      BY <1>3, <3>1, <3>3 DEF Ranked
    <3> QED
      BY <1>2, <3>4
  <2>2. CASE ~ \E j \in 1..Len(item) : item[j][1] = v
    <3>1. item[i][2] >= Weight(text, v)
      BY <1>3, <2>2 DEF Ranked
    <3> QED
      BY <1>2, <3>1
  <2> QED
    BY <2>1, <2>2
<1>5. \A i \in 1..n : cut[i][1] \in Above(text, m) /\ cut[i][2] = Weight(text, cut[i][1])
  BY <1>2, <1>3 DEF Ranked
<1>6. ASSUME NEW i \in 1..n, NEW j \in 1..n, i < j
      PROVE  cut[i][1] # cut[j][1] /\ cut[i][2] >= cut[j][2]
  <2>1. cut[i] = item[i] /\ cut[j] = item[j] /\ i \in 1..Len(item) /\ j \in 1..Len(item)
    BY <1>2, <1>3
  <2>2. item[i][1] # item[j][1] /\ item[i][2] >= item[j][2]
    BY <1>6, <2>1 DEF Ranked
  <2> QED
    BY <2>1, <2>2
<1>7. Ranked(cut, text, m)
  BY <1>2, <1>4, <1>5, <1>6 DEF Ranked, S
<1> QED
  BY <1>2, <1>7 DEF cut

\* A list of heaviest terms of the right length is what OwnTerms asks for.
LEMMA RankedIsBest ==
    ASSUME NEW text \in SparseTexts, NEW m \in Int, NEW k \in Nat, NEW item, Ranked(item, text, m),
           Len(item) <= k,
           NEW partial \in BOOLEAN,
           partial \/ Len(item) = Shorter(k, Cardinality(Above(text, m)))
    PROVE  IsBest(item, text, k, m, partial)
<1> DEFINE above == Above(text, m)
           n == Len(item)
           D == 1..n
           terms == {item[i][1] : i \in D}
           c == Cardinality(above)
<1>1. item \in Seq(Vocab \X Int) /\ DOMAIN item = D /\ n \in Nat
  BY DEF Ranked
<1>2. c \in Nat
  BY AboveFacts
<1>3. \A i \in D : item[i][1] \in above /\ item[i][2] = Weight(text, item[i][1]) /\ item[i][2] \in Nat
  BY AboveFacts DEF Ranked
<1>4. Cardinality(terms) = n
  <2> DEFINE f == [i \in D |-> item[i][1]]
  <2>1. IsFiniteSet(D) /\ Cardinality(D) = n
    <3> HIDE DEF n
    <3>1. CASE n = 0
      BY <3>1, FS_Interval
    <3>2. CASE n # 0
      BY <1>1, <3>2, FS_Interval
    <3> QED
      BY <3>1, <3>2
  <2>2. ASSUME NEW i \in D, NEW j \in D, i # j PROVE f[i] # f[j]
    <3>1. i < j \/ j < i
      BY <1>1, <2>2
    <3> QED
      BY <3>1 DEF Ranked
  <2>3. f \in Surjection(D, terms) /\ f \in Injection(D, terms)
    BY <2>2 DEF Surjection, Injection, IsInjective
  <2> HIDE DEF f, D, terms, n
  <2> QED
    BY <2>1, <2>3, FS_Surjection
<1>5. \A i \in 1..(n - 1) : item[i][2] >= item[i + 1][2]
  <2>1. \A i \in 1..(n - 1) : i \in D /\ i + 1 \in D /\ i < i + 1
    BY <1>1
  <2> QED
    BY <2>1 DEF Ranked
<1>6. \A v \in above \ terms, i \in D : item[i][2] >= Weight(text, v)
  BY DEF Ranked
<1>7. Min({k, c}) = Shorter(k, c)
  <2> HIDE DEF c
  <2> DEFINE x == Shorter(k, c)
  <2>1. x \in {k, c} /\ \A y \in {k, c} : x <= y /\ y \in Nat
    BY <1>2 DEF Shorter
  <2> HIDE DEF x
  <2>2. Min({k, c}) \in {k, c} /\ \A y \in {k, c} : Min({k, c}) <= y
    BY <2>1 DEF Min
  <2>3. Min({k, c}) \in Nat /\ x \in Nat /\ Min({k, c}) <= x /\ x <= Min({k, c})
    BY <2>1, <2>2
  <2> QED
    BY <2>3 DEF x
<1>8. above = IF Positions(text) = 0 THEN {} ELSE {v \in Vocab : Weight(text, v) > m}
  BY DEF Above
<1>9. terms \subseteq above
  BY <1>3
<1> HIDE DEF above, n, D, c
<1> QED
  BY <1>1, <1>3, <1>4, <1>5, <1>6, <1>7, <1>8, <1>9 DEF IsBest, n, c, above

\* A list whose pairs are all above the threshold loses none of them.
LEMMA HeavyAll ==
    ASSUME NEW pairs \in Seq(Vocab \X Int), NEW m \in Int, \A i \in 1..Len(pairs) : pairs[i][2] > m
    PROVE  Heavy(pairs, m) = pairs
<1> DEFINE n == Len(pairs)
           S == Vocab \X Int
           kept[i \in 0..Len(pairs)] ==
               IF i = 0 THEN <<>>
               ELSE IF pairs[i][2] > m THEN Append(kept[i - 1], pairs[i]) ELSE kept[i - 1]
           g == [i \in 0..n |-> SubSeq(pairs, 1, i)]
<1>0. Heavy(pairs, m) = kept[n]
  BY DEF Heavy
<1>1. n \in Nat /\ pairs \in Seq(S)
  OBVIOUS
<1> HIDE DEF S
<1>2. ASSUME NEW i \in 1..n PROVE SubSeq(pairs, 1, i) = Append(SubSeq(pairs, 1, i - 1), pairs[i])
  <2>1. i - 1 \in 0..n /\ i \in 0..n /\ i \in Nat
    BY <1>1
  <2> DEFINE a == SubSeq(pairs, 1, i)
             b == SubSeq(pairs, 1, i - 1)
  <2>2. a \in Seq(S) /\ Len(a) = i /\ \A j \in 1..i : a[j] = pairs[j]
    BY <1>1, <2>1
  <2>3. b \in Seq(S) /\ Len(b) = i - 1 /\ \A j \in 1..(i - 1) : b[j] = pairs[j]
    BY <1>1, <2>1
  <2>4. pairs[i] \in S
    BY <1>1
  <2> HIDE DEF a, b
  <2> DEFINE d == Append(b, pairs[i])
  <2>5. d \in Seq(S) /\ Len(d) = i /\ d[i] = pairs[i] /\ \A j \in 1..(i - 1) : d[j] = b[j]
    BY <2>1, <2>3, <2>4
  <2> HIDE DEF d
  <2>6. \A j \in 1..i : a[j] = d[j]
    <3>1. \A j \in 1..i : j = i \/ j \in 1..(i - 1)
      BY <2>1
    <3> QED
      BY <2>2, <2>3, <2>5, <3>1
  <2>7. a = d
    BY <2>1, <2>2, <2>5, <2>6
  <2> QED
    BY <2>7 DEF a, b, d
<1>3. g = [i \in 0..Len(pairs) |->
               IF i = 0 THEN <<>>
               ELSE IF pairs[i][2] > m THEN Append(g[i - 1], pairs[i]) ELSE g[i - 1]]
  <2>1. ASSUME NEW i \in 0..n
        PROVE  g[i] = IF i = 0 THEN <<>>
                      ELSE IF pairs[i][2] > m THEN Append(g[i - 1], pairs[i]) ELSE g[i - 1]
    <3>1. CASE i = 0
      <4>1. SubSeq(pairs, 1, 0) = <<>>
        BY <1>1
      <4> QED
        BY <3>1, <4>1
    <3>2. CASE i # 0
      <4>1. i \in 1..n /\ i - 1 \in 0..n
        BY <1>1, <3>2
      <4>2. pairs[i][2] > m /\ g[i] = SubSeq(pairs, 1, i) /\ g[i - 1] = SubSeq(pairs, 1, i - 1)
        BY <4>1
      <4> QED
        BY <1>2, <3>2, <4>1, <4>2
    <3> QED
      BY <3>1, <3>2
  <2> QED
    BY <2>1
<1>4. kept = [i \in 0..Len(pairs) |->
               IF i = 0 THEN <<>>
               ELSE IF pairs[i][2] > m THEN Append(kept[i - 1], pairs[i]) ELSE kept[i - 1]]
  <2> HIDE DEF g
  <2> QED
    BY <1>3
<1> HIDE DEF kept
<1> DEFINE P == {i \in 0..n : kept[i] = SubSeq(pairs, 1, i)}
<1>5. 0 \in P
  <2>1. SubSeq(pairs, 1, 0) = <<>> /\ 0 \in 0..n
    BY <1>1
  <2> QED
    BY <1>4, <2>1
<1>6. ASSUME NEW i \in 1..n, i - 1 \in P PROVE i \in P
  <2>1. i \in 0..n /\ i # 0 /\ pairs[i][2] > m
    BY <1>1
  <2>2. kept[i] = Append(kept[i - 1], pairs[i])
    BY <1>4, <2>1
  <2> QED
    BY <1>2, <1>6, <2>1, <2>2
<1>7. 0..n \subseteq P
  <2> HIDE DEF P, n
  <2> QED
    BY <1>1, <1>5, <1>6, UpTo
<1>8. kept[n] = SubSeq(pairs, 1, n)
  <2>1. n \in P
    <3> HIDE DEF P, n
    <3> QED
      BY <1>1, <1>7
  <2> QED
    BY <2>1
<1>9. SubSeq(pairs, 1, n) = pairs
  BY <1>1
<1> QED
  BY <1>0, <1>8, <1>9

\* What the handler makes of a worker's list is what was asked for: the worker was
\* told a number cut to 32 bits, with zero for everything.
LEMMA CutIsBest ==
    ASSUME NEW text \in SparseTexts, NEW r \in Bodies, workers, NEW item,
           Complete(item, text, EffectiveTopK(r), r.min_weight)
    PROVE  IsBest(Truncated(Heavy(item, r.min_weight), TopK(r)), text, TopK(r), r.min_weight,
                  TopK(r) >= U32Size)
<1> DEFINE m == r.min_weight
           k == TopK(r)
           n == Shorter(k, Len(item))
           c == Cardinality(Above(text, m))
           cut == SubSeq(item, 1, n)
<1>1. m \in Int /\ k \in Nat /\ U32Size \in Nat \ {0} /\ Unlimited \in Nat
  BY TermsAssumption DEF TopK
<1>2. Ranked(item, text, m) /\ Len(item) = Shorter(EffectiveTopK(r), c)
  BY DEF Complete
<1>3. EffectiveTopK(r) = IF k % U32Size = 0 THEN Unlimited ELSE k % U32Size
  BY DEF EffectiveTopK
<1>4. c \in Nat
  BY <1>1, AboveFacts
<1> HIDE DEF m, k, c
<1>5. item \in Seq(Vocab \X Int) /\ Len(item) \in Nat
  BY <1>2 DEF Ranked
<1>6. n \in 0..Len(item) /\ n <= k
  BY <1>1, <1>5 DEF Shorter
<1>7. Truncated(Heavy(item, m), k) = cut
  <2>1. \A i \in 1..Len(item) : item[i][2] > m
    BY <1>1, <1>2, AboveFacts DEF Ranked
  <2>2. Heavy(item, m) = item
    BY <1>1, <1>5, <2>1, HeavyAll
  <2> QED
    BY <2>2 DEF Truncated, Shorter
<1>8. k < U32Size => n = Shorter(k, c)
  <2>1. CASE k = 0
    BY <1>4, <1>5, <2>1 DEF Shorter
  <2>2. CASE k # 0 /\ k < U32Size
    <3>1. k % U32Size = k
      BY <1>1, <2>2
    <3>2. Len(item) = Shorter(k, c)
      BY <1>2, <1>3, <2>2, <3>1
    <3> QED
      BY <1>1, <1>4, <3>2 DEF Shorter
  <2> QED
    BY <2>1, <2>2
<1> HIDE DEF n
<1>9. Ranked(cut, text, m) /\ Len(cut) = n
  BY <1>1, <1>2, <1>6, RankedCut
<1> HIDE DEF cut
<1>10. k >= U32Size \/ Len(cut) = Shorter(k, Cardinality(Above(text, m)))
  BY <1>1, <1>8, <1>9 DEF c
<1>11. IsBest(cut, text, k, m, k >= U32Size)
  <2>1. (k >= U32Size) \in BOOLEAN
    OBVIOUS
  <2> QED
    BY <1>1, <1>6, <1>9, <1>10, <2>1, RankedIsBest
<1> QED
  BY <1>7, <1>11 DEF m, k

------------------------------------------------------------------------------
(* The requests.                                                            *)

\* The answer to a request is its own.
Answered(r, d, partial) ==
    /\ Len(d) = Len(r.input)
    /\ \A k \in DOMAIN d : IsBest(d[k], r.input[k], TopK(r), r.min_weight, partial)

\* The texts encoded so far have what the encoder was asked for.
Partial(r, d, top_k) ==
    /\ r \in Bodies
    /\ d \in Seq(Seq(Vocab \X Int)) /\ Len(d) <= Len(r.input)
    /\ \A k \in 1..Len(d) : Complete(d[k], r.input[k], top_k, r.min_weight)

\* A handler that works has encoded a prefix of its texts.
HandlerInv(c) ==
    /\ status[c] = 200 => /\ pc[c] = "done"
                          /\ Answered(req[c], data[c], workers /\ TopK(req[c]) >= U32Size)
    /\ pc[c] = "new" => data[c] = <<>>
    /\ pc[c] \in Active => Partial(req[c], data[c], EffectiveTopK(req[c]))
    /\ pc[c] = "encode" => More(c) /\ ~Trivial(c)

\* All of them.
TermsInv ==
    /\ workers \in BOOLEAN
    /\ DOMAIN req = SparseCallers /\ DOMAIN pc = SparseCallers
    /\ DOMAIN status = SparseCallers /\ DOMAIN data = SparseCallers
    /\ \A c \in SparseCallers : HandlerInv(c)

\* What the numbers of a request are.
LEMMA BodyFacts ==
    ASSUME NEW r \in Bodies
    PROVE  /\ Len(r.input) \in Nat /\ \A i \in 1..Len(r.input) : r.input[i] \in SparseTexts
           /\ r.min_weight \in Int /\ TopK(r) \in Nat
           /\ workers \in BOOLEAN => EffectiveTopK(r) \in Nat
<1> DEFINE s == r.input
           R == Range(s)
<1>1. s \in Seq(R) /\ R \subseteq SparseTexts
  BY TermsAssumption DEF SparseTexts
<1>2. Len(s) \in Nat /\ \A i \in 1..Len(s) : s[i] \in SparseTexts
  <2> HIDE DEF s, R
  <2> QED
    BY <1>1
<1>3. TopK(r) \in Nat /\ r.min_weight \in Int /\ U32Size \in Nat \ {0} /\ Unlimited \in Nat
  BY TermsAssumption DEF TopK
<1>4. TopK(r) % U32Size \in Nat
  BY <1>3
<1>5. EffectiveTopK(r) \in Nat
  BY <1>3, <1>4 DEF EffectiveTopK
<1> QED
  BY <1>2, <1>3, <1>5

\* A step of one handler leaves the others as they are.
LEMMA OthersTerms ==
    ASSUME NEW c \in SparseCallers, HandlerInv(c), workers' = workers, req'[c] = req[c],
           pc'[c] = pc[c], status'[c] = status[c], data'[c] = data[c]
    PROVE  HandlerInv(c)'
<1>1. EffectiveTopK(req[c])' = EffectiveTopK(req[c]) /\ TopK(req[c])' = TopK(req[c])
  BY DEF EffectiveTopK, TopK
<1>2. More(c)' = More(c) /\ Trivial(c)' = Trivial(c)
  BY <1>1 DEF More, Trivial, Text
<1>3. Answered(req[c], data[c], workers /\ TopK(req[c]) >= U32Size)'
        = Answered(req[c], data[c], workers /\ TopK(req[c]) >= U32Size)
  BY <1>1
<1>4. Partial(req[c], data[c], EffectiveTopK(req[c]))' = Partial(req[c], data[c], EffectiveTopK(req[c]))
  BY <1>1 DEF Partial
<1> QED
  BY <1>2, <1>3, <1>4 DEF HandlerInv

\* One more text.
LEMMA LongerPartial ==
    ASSUME NEW r, NEW d, NEW k, Partial(r, d, k), Len(d) < Len(r.input), NEW item,
           Complete(item, r.input[Len(d) + 1], k, r.min_weight)
    PROVE  Partial(r, Append(d, item), k)
<1> DEFINE S == Seq(Vocab \X Int)
           n == Len(d)
           e == Append(d, item)
<1>1. d \in Seq(S) /\ item \in S /\ Len(r.input) \in Nat
  BY BodyFacts DEF Partial, Complete, Ranked
<1> HIDE DEF S
<1>2. e \in Seq(S) /\ Len(e) = n + 1 /\ n \in Nat /\ e[n + 1] = item /\ \A i \in 1..n : e[i] = d[i]
  BY <1>1
<1> HIDE DEF e
<1>3. n + 1 <= Len(r.input)
  BY <1>1, <1>2
<1>4. \A i \in 1..(n + 1) : i \in 1..n \/ i = n + 1
  BY <1>2
<1>5. \A i \in 1..(n + 1) : Complete(e[i], r.input[i], k, r.min_weight)
  BY <1>2, <1>4 DEF Partial
<1>6. Partial(r, e, k)
  BY <1>2, <1>3, <1>5 DEF Partial, S
<1> QED
  BY <1>6 DEF e

\* The answer is made of the lists as they are, or cut again.
LEMMA AnswerTerms ==
    ASSUME TermsInv, NEW c \in SparseCallers, Answer(c)
    PROVE  HandlerInv(c)'
<1> DEFINE r == req[c]
           d == data[c]
           S == Seq(Vocab \X Int)
<1>1. /\ pc'[c] = "done" /\ status'[c] = 200 /\ req'[c] = r /\ workers' = workers
      /\ pc[c] = "next" /\ ~(Len(d) < Len(r.input))
  BY DEF Answer, Respond, TermsInv, More
<1>2. data'[c] = IF ~workers THEN d ELSE [k \in DOMAIN d |-> Truncated(Heavy(d[k], r.min_weight), TopK(r))]
  BY DEF Answer, TermsInv
<1>3. Partial(r, d, EffectiveTopK(r))
  BY <1>1 DEF TermsInv, HandlerInv, Active
<1>4. r \in Bodies /\ d \in Seq(S) /\ Len(d) <= Len(r.input)
  BY <1>3 DEF Partial
<1>5. Len(r.input) \in Nat /\ r.min_weight \in Int /\ TopK(r) \in Nat
  BY <1>4, BodyFacts
<1> HIDE DEF r, d, S
<1>6. Len(d) = Len(r.input) /\ DOMAIN d = 1..Len(d) /\ Len(d) \in Nat
  BY <1>1, <1>4, <1>5
<1>7. ASSUME NEW k \in 1..Len(d)
      PROVE  /\ r.input[k] \in SparseTexts
             /\ Complete(d[k], r.input[k], EffectiveTopK(r), r.min_weight)
  <2>1. r.input[k] \in SparseTexts
    BY <1>4, <1>6, BodyFacts
  <2> QED
    BY <1>3, <2>1 DEF Partial
<1>8. CASE ~workers
  <2>1. EffectiveTopK(r) = TopK(r) /\ data'[c] = d
    BY <1>2, <1>8 DEF EffectiveTopK
  <2>2. ASSUME NEW k \in 1..Len(d) PROVE IsBest(d[k], r.input[k], TopK(r), r.min_weight, FALSE)
    <3> DEFINE text == r.input[k]
               a == Cardinality(Above(text, r.min_weight))
    <3>1. text \in SparseTexts /\ Ranked(d[k], text, r.min_weight) /\ Len(d[k]) = Shorter(TopK(r), a)
      BY <1>7, <2>1 DEF Complete
    <3>2. a \in Nat
      BY <1>5, <3>1, AboveFacts
    <3> HIDE DEF text, a
    <3>3. Len(d[k]) <= TopK(r)
      BY <1>5, <3>1, <3>2 DEF Shorter
    <3>4. IsBest(d[k], text, TopK(r), r.min_weight, FALSE)
      BY <1>5, <3>1, <3>3, RankedIsBest DEF a
    <3> QED
      BY <3>4 DEF text
  <2>3. Answered(r, d, FALSE)
    BY <1>6, <2>2 DEF Answered
  <2>4. Answered(req[c], data[c], workers /\ TopK(req[c]) >= U32Size)'
    BY <1>1, <1>8, <2>1, <2>3
  <2> QED
    BY <1>1, <2>4 DEF HandlerInv, Active
<1>9. CASE workers
  <2> DEFINE e == [k \in DOMAIN d |-> Truncated(Heavy(d[k], r.min_weight), TopK(r))]
  <2>1. \A k \in 1..Len(d) : IsBest(Truncated(Heavy(d[k], r.min_weight), TopK(r)), r.input[k],
                                    TopK(r), r.min_weight, TopK(r) >= U32Size)
    BY <1>4, <1>7, <1>9, CutIsBest
  <2>2. DOMAIN e = 1..Len(d) /\ Len(e) = Len(d) /\ data'[c] = e
    BY <1>2, <1>6, <1>9
  <2>3. \A k \in DOMAIN e : IsBest(e[k], r.input[k], TopK(r), r.min_weight, TopK(r) >= U32Size)
    BY <1>6, <2>1
  <2> HIDE DEF e
  <2>4. Answered(r, e, TopK(r) >= U32Size)
    BY <1>6, <2>2, <2>3 DEF Answered
  <2>5. Answered(req[c], data[c], workers /\ TopK(req[c]) >= U32Size)'
    BY <1>1, <1>9, <2>2, <2>4
  <2> QED
    BY <1>1, <2>5 DEF HandlerInv, Active
<1> QED
  BY <1>8, <1>9

\* A text that was encoded adds its own list, next or last.
LEMMA EncodedTerms ==
    ASSUME TermsInv, NEW c \in SparseCallers, pc[c] \in Active, More(c), NEW item,
           Complete(item, Text(c), EffectiveTopK(req[c]), req[c].min_weight),
           workers' = workers, req' = req, status' = status,
           data' = [data EXCEPT ![c] = Append(@, item)],
           pc'[c] \in {"next", "done"}
    PROVE  HandlerInv(c)'
<1> DEFINE r == req[c]
           d == data[c]
           e == Append(d, item)
<1>1. /\ data'[c] = e /\ req'[c] = r /\ status'[c] = status[c] /\ status[c] # 200
  BY DEF TermsInv, HandlerInv, Active
<1>2. Partial(r, d, EffectiveTopK(r)) /\ Len(d) < Len(r.input)
  BY DEF TermsInv, HandlerInv, More
<1>3. Partial(r, e, EffectiveTopK(r))
  <2>1. Complete(item, r.input[Len(d) + 1], EffectiveTopK(r), r.min_weight)
    BY DEF Text
  <2> HIDE DEF r, d
  <2> QED
    BY <1>2, <2>1, LongerPartial
<1>4. EffectiveTopK(req[c])' = EffectiveTopK(r)
  BY <1>1 DEF EffectiveTopK
<1> HIDE DEF e
<1>5. Partial(req[c], data[c], EffectiveTopK(req[c]))'
  BY <1>1, <1>3, <1>4
<1> QED
  BY <1>1, <1>5 DEF HandlerInv

\* Every step of a handler keeps what holds of its request.
LEMMA HandlerTerms ==
    ASSUME TermsInv, NEW c \in SparseCallers, Receive(c) \/ Handle(c) \/ Disconnect(c)
    PROVE  HandlerInv(c)' /\ workers' = workers
<1> DEFINE r == req[c]
           d == data[c]
<1>0. /\ HandlerInv(c) /\ workers \in BOOLEAN
      /\ DOMAIN req = SparseCallers /\ DOMAIN pc = SparseCallers
      /\ DOMAIN status = SparseCallers /\ DOMAIN data = SparseCallers
  BY DEF TermsInv
<1>1. pc[c] \in Active => /\ status[c] # 200 /\ Partial(r, d, EffectiveTopK(r))
                          /\ r \in Bodies /\ Len(d) \in Nat
  <2>1. \A x, y, k : Partial(x, y, k) => x \in Bodies /\ Len(y) \in Nat
    BY DEF Partial
  <2> QED
    BY <1>0, <2>1 DEF HandlerInv, Active
\* The request is over without an answer.
<1>2. ASSUME pc'[c] = "done", status'[c] # 200 PROVE HandlerInv(c)'
  BY <1>2 DEF HandlerInv, Active
\* The request goes on as it is.
<1>3. ASSUME pc[c] \in Active, pc'[c] \in Active, workers' = workers, req'[c] = r, data'[c] = d,
             status'[c] = status[c], pc'[c] = "encode" => More(c) /\ ~Trivial(c)
      PROVE  HandlerInv(c)'
  <2>1. EffectiveTopK(req[c])' = EffectiveTopK(r)
    BY <1>3 DEF EffectiveTopK
  <2>2. Partial(req[c], data[c], EffectiveTopK(req[c]))'
    BY <1>1, <1>3, <2>1
  <2>3. More(c)' = More(c) /\ Trivial(c)' = Trivial(c)
    BY <1>3, <2>1 DEF More, Trivial, Text
  <2>4. pc'[c] \notin {"new", "done"} /\ status'[c] # 200
    BY <1>1, <1>3 DEF Active
  <2> QED
    BY <1>3, <2>2, <2>3, <2>4 DEF HandlerInv
<1>4. ASSUME pc[c] \in Active, More(c) PROVE Text(c) \in SparseTexts /\ EffectiveTopK(r) \in Nat /\ r.min_weight \in Int
  <2>1. Len(d) + 1 \in 1..Len(r.input)
    BY <1>1, <1>4, BodyFacts DEF More
  <2> QED
    BY <1>0, <1>1, <1>4, <2>1, BodyFacts DEF Text
<1>5. CASE Receive(c)
  <2>1. PICK b \in Bodies :
          /\ req' = [req EXCEPT ![c] = b]
          /\ \/ Respond(c, 503) \/ Respond(c, 400)
             \/ /\ pc' = [pc EXCEPT ![c] = IF workers THEN "dispatch" ELSE "next"]
                /\ status' = status
    BY <1>5 DEF Receive
  <2>2. pc[c] = "new" /\ workers' = workers /\ data' = data
    BY <1>5 DEF Receive
  <2>3. d = <<>> /\ status[c] # 200 /\ req'[c] = b
    BY <1>0, <2>1, <2>2 DEF HandlerInv
  <2>4. CASE Respond(c, 503) \/ Respond(c, 400)
    <3>1. pc'[c] = "done" /\ status'[c] # 200
      BY <1>0, <2>4 DEF Respond
    <3> QED
      BY <1>2, <2>2, <3>1
  <2>5. CASE /\ pc' = [pc EXCEPT ![c] = IF workers THEN "dispatch" ELSE "next"]
             /\ status' = status
    <3>1. pc'[c] \in {"dispatch", "next"} /\ status'[c] # 200
      BY <1>0, <2>3, <2>5
    <3> DEFINE k == EffectiveTopK(req[c])'
    <3>2. Partial(b, <<>>, k)
      <4>1. Len(b.input) \in Nat
        BY BodyFacts
      <4>2. <<>> \in Seq(Seq(Vocab \X Int)) /\ Len(<<>>) = 0 /\ 1..0 = {}
        OBVIOUS
      <4> HIDE DEF k
      <4> QED
        BY <4>1, <4>2 DEF Partial
    <3>3. Partial(req[c], data[c], EffectiveTopK(req[c]))'
      BY <2>2, <2>3, <3>2
    <3> QED
      BY <2>2, <3>1, <3>3 DEF HandlerInv
  <2> QED
    BY <2>1, <2>4, <2>5
<1>6. CASE Dispatch(c)
  <2>1. pc[c] \in Active /\ workers' = workers /\ req' = req /\ data' = data
    BY <1>6 DEF Dispatch, Active
  <2>2. \/ pc' = [pc EXCEPT ![c] = "next"] /\ status' = status
        \/ Respond(c, 503) \/ Respond(c, 500)
    BY <1>6 DEF Dispatch
  <2>3. \/ pc'[c] = "next" /\ status'[c] = status[c]
        \/ pc'[c] = "done" /\ status'[c] # 200
    BY <1>0, <2>2 DEF Respond
  <2> QED
    BY <1>2, <1>3, <2>1, <2>3 DEF Active
<1>7. CASE EncodeTrivial(c)
  <2>1. /\ pc[c] = "next" /\ More(c) /\ Trivial(c)
        /\ data' = [data EXCEPT ![c] = Append(@, <<>>)]
        /\ workers' = workers /\ req' = req /\ status' = status /\ pc' = pc
    BY <1>7 DEF EncodeTrivial
  <2>2. Text(c) \in SparseTexts /\ EffectiveTopK(r) \in Nat /\ r.min_weight \in Int
    BY <1>4, <2>1 DEF Active
  <2>3. Positions(Text(c)) = 0 \/ EffectiveTopK(r) = 0
    BY <2>1 DEF Trivial
  <2>4. Complete(<<>>, Text(c), EffectiveTopK(r), r.min_weight)
    BY <2>2, <2>3, EmptyIsComplete
  <2> QED
    BY <2>1, <2>4, EncodedTerms DEF Active
<1>8. CASE TokenizeFails(c)
  <2>1. pc'[c] = "done" /\ status'[c] # 200 /\ workers' = workers
    BY <1>0, <1>8 DEF TokenizeFails, Fail, Respond
  <2> QED
    BY <1>2, <2>1
<1>9. CASE BeginEncode(c)
  <2>1. /\ pc[c] = "next" /\ More(c) /\ ~Trivial(c) /\ pc'[c] = "encode"
        /\ workers' = workers /\ req' = req /\ status' = status /\ data' = data
    BY <1>0, <1>9 DEF BeginEncode
  <2> QED
    BY <1>3, <2>1 DEF Active
<1>10. CASE EncodeLock(c)
  <2>1. workers' = workers /\ req' = req /\ status' = status /\ data' = data /\ pc' = pc
    BY <1>10 DEF EncodeLock, sparseVars
  <2> QED
    BY <1>0, <2>1, OthersTerms
<1>11. CASE EndEncode(c)
  <2>1. pc[c] = "encode" /\ More(c) /\ ~Trivial(c) /\ workers' = workers /\ req' = req
    BY <1>0, <1>11 DEF EndEncode, HandlerInv
  <2>2. CASE Fail(c, 500)
    <3>1. pc'[c] = "done" /\ status'[c] # 200
      BY <1>0, <2>2 DEF Fail, Respond
    <3> QED
      BY <1>2, <2>1, <3>1
  <2>3. CASE ~Fail(c, 500)
    <3> DEFINE weights == Sweep(Cleared(buf[thread[c]]), Text(c))
    <3>1. PICK item \in TopTerms(weights, EffectiveTopK(r), r.min_weight) :
              data' = [data EXCEPT ![c] = Append(@, item)]
      BY <1>11, <2>3 DEF EndEncode
    <3>2. /\ pc' = [pc EXCEPT ![c] = IF gone[c] /\ ~workers THEN "done" ELSE "next"]
          /\ status' = status
      BY <1>11, <2>3 DEF EndEncode
    <3>3. weights = Sweep(Zero, Text(c))
      BY DEF Cleared
    <3>4. Positions(Text(c)) # 0
      BY <2>1 DEF Trivial
    <3>5. Text(c) \in SparseTexts /\ EffectiveTopK(r) \in Nat /\ r.min_weight \in Int
      BY <1>4, <2>1 DEF Active
    <3> HIDE DEF weights
    <3>6. Complete(item, Text(c), EffectiveTopK(r), r.min_weight)
      BY <3>1, <3>3, <3>4, <3>5, TopIsComplete
    <3>7. pc'[c] \in {"next", "done"}
      BY <1>0, <3>2
    <3> QED
      BY <2>1, <3>1, <3>2, <3>6, <3>7, EncodedTerms DEF Active
  <2> QED
    BY <2>2, <2>3
<1>12. CASE Answer(c)
  BY <1>12, AnswerTerms DEF Answer
<1>13. CASE Disconnect(c)
  <2>1. /\ pc[c] \in Active /\ workers' = workers /\ req' = req /\ status' = status /\ data' = data
        /\ pc'[c] = "done" \/ pc'[c] = pc[c]
    BY <1>0, <1>13 DEF Disconnect, Active
  <2>2. pc[c] = "encode" => More(c) /\ ~Trivial(c)
    BY <1>0 DEF HandlerInv
  <2> QED
    BY <1>1, <1>2, <1>3, <2>1, <2>2
<1> QED
  BY <1>5, <1>6, <1>7, <1>8, <1>9, <1>10, <1>11, <1>12, <1>13 DEF Handle

\* TermsInv is inductive.
LEMMA TermsInductive == TermsInv /\ [SparseNext]_allVars => TermsInv'
<1> SUFFICES ASSUME TermsInv, [SparseNext]_allVars PROVE TermsInv'
  OBVIOUS
<1>1. ASSUME NEW c \in SparseCallers, Receive(c) \/ Handle(c) \/ Disconnect(c) PROVE TermsInv'
  <2>1. HandlerInv(c)' /\ workers' = workers
    BY <1>1, HandlerTerms
  <2>2. /\ req' = req \/ \E x : req' = [req EXCEPT ![c] = x]
        /\ pc' = pc \/ \E x : pc' = [pc EXCEPT ![c] = x]
        /\ status' = status \/ \E x : status' = [status EXCEPT ![c] = x]
        /\ data' = data \/ \E x : data' = [data EXCEPT ![c] = x]
    <3>1. CASE Receive(c)
      <4>1. (\E x : req' = [req EXCEPT ![c] = x]) /\ data' = data
        BY <3>1 DEF Receive
      <4>2. \/ \E code : Respond(c, code)
            \/ status' = status /\ \E x : pc' = [pc EXCEPT ![c] = x]
        BY <3>1 DEF Receive
      <4> QED
        BY <4>1, <4>2 DEF Respond
    <3>2. CASE Dispatch(c) \/ EncodeTrivial(c) \/ TokenizeFails(c)
      <4>1. CASE Dispatch(c)
        BY <4>1 DEF Dispatch, Respond
      <4>2. CASE EncodeTrivial(c)
        BY <4>2 DEF EncodeTrivial
      <4>3. CASE TokenizeFails(c)
        BY <4>3 DEF TokenizeFails, Respond, Fail
      <4> QED
        BY <3>2, <4>1, <4>2, <4>3
    <3>3. CASE BeginEncode(c) \/ EncodeLock(c)
      BY <3>3 DEF BeginEncode, EncodeLock, sparseVars
    <3>4. CASE EndEncode(c)
      <4>1. CASE Fail(c, 500)
        BY <3>4, <4>1 DEF EndEncode, Respond, Fail
      <4>2. CASE ~Fail(c, 500)
        <5>1. /\ req' = req /\ status' = status
              /\ pc' = [pc EXCEPT ![c] = IF gone[c] /\ ~workers THEN "done" ELSE "next"]
          BY <3>4, <4>2 DEF EndEncode
        <5>2. \E item : data' = [data EXCEPT ![c] = Append(@, item)]
          BY <3>4, <4>2 DEF EndEncode
        <5> QED
          BY <5>1, <5>2
      <4> QED
        BY <4>1, <4>2
    <3>5. CASE Answer(c) \/ Disconnect(c)
      BY <3>5 DEF Answer, Disconnect, Respond
    <3> QED
      BY <1>1, <3>1, <3>2, <3>3, <3>4, <3>5 DEF Handle
  <2>3. /\ DOMAIN req' = SparseCallers /\ DOMAIN pc' = SparseCallers
        /\ DOMAIN status' = SparseCallers /\ DOMAIN data' = SparseCallers
    BY <2>2 DEF TermsInv
  <2>4. ASSUME NEW u \in SparseCallers, u # c PROVE HandlerInv(u)'
    <3>1. req'[u] = req[u] /\ pc'[u] = pc[u] /\ status'[u] = status[u] /\ data'[u] = data[u]
      BY <2>2, <2>4 DEF TermsInv
    <3>2. HandlerInv(u)
      BY DEF TermsInv
    <3> QED
      BY <2>1, <3>1, <3>2, OthersTerms
  <2>5. \A u \in SparseCallers : HandlerInv(u)'
    BY <2>1, <2>4
  <2> QED
    BY <2>1, <2>3, <2>5 DEF TermsInv
<1>2. CASE (\E c \in RerankCallers : score_pairs(c)) \/ UNCHANGED allVars
  <2>1. workers' = workers /\ req' = req /\ pc' = pc /\ status' = status /\ data' = data
    BY <1>2 DEF score_pairs, sparseVars, allVars
  <2>2. \A u \in SparseCallers : HandlerInv(u)'
    BY <2>1, OthersTerms DEF TermsInv
  <2> QED
    BY <2>1, <2>2 DEF TermsInv
<1> QED
  BY <1>1, <1>2 DEF SparseNext

\* encode_sparse, the loop of sparse_embeddings and its second filter: a 200 has for
\* every text, in order, the text's own heaviest terms above the threshold with their
\* weights, whatever ran on the thread and the session before, in either mode.
THEOREM TermsAreOwn == SparseSpec => []OwnTerms
<1>1. SparseInit => TermsInv
  BY DEF SparseInit, TermsInv, HandlerInv, Active
<1>2. TermsInv => OwnTerms
  BY DEF TermsInv, HandlerInv, OwnTerms, Answered
<1> QED
  BY <1>1, <1>2, TermsInductive, PTL DEF SparseSpec

------------------------------------------------------------------------------
(* The graphs of the sessions.                                              *)

\* The parts of the state of a process.
Fields == {"pc", "arena", "todo", "built", "plan", "bytes", "sessions", "why"}

\* The path of a version of a file in some cache directory.
Keyed(k, f, u) == \E d : k = <<d, f.name, f.batch, MtimeOf(f, u)>>

\* An entry holds the graph of the file its path is made from, of that version or of
\* a later one: the file may be replaced between the decision and the read.
GoodEntry(k, e) ==
    /\ DOMAIN e = {"file", "version", "writing", "torn"}
    /\ e.file \in Files /\ e.version \in 1..MaxVersion
    /\ \E u \in 1..MaxVersion : u <= e.version /\ Keyed(k, e.file, u)

\* The cache directory.
GoodCache(c) == \A k \in DOMAIN c : GoodEntry(k, c[k])

\* What decide has found holds as long as the process goes by it.
Planned(file, plan, src, keys) ==
    /\ file \in Files
    /\ plan.seen \in 1..MaxVersion /\ plan.seen <= src[file]
    /\ plan.load # "source" => Keyed(plan.key, file, plan.seen)
    /\ plan.load = "hit" => plan.key \in keys

\* What was read is a graph of the model, as new as the file was at the decision.
HasBytes(file, plan, bytes) ==
    /\ bytes.file = file
    /\ bytes.version \in 1..MaxVersion /\ plan.seen <= bytes.version

\* What FreshGraph asks of one session, and of all the sessions of a process.
FreshSession(s) == /\ {"own", "file", "version", "seen"} \subseteq DOMAIN s
                   /\ s.file = s.own /\ s.version >= s.seen

FreshList(l) == /\ \E S : l \in Seq(S)
                /\ \A i \in 1..Len(l) : FreshSession(l[i])

\* A process in the middle of a build has a plan that still holds, from the read on
\* the bytes of its model, and no more sessions of the pool than it has sessions.
GoodProcess(r, src, keys) ==
    /\ DOMAIN r = Fields
    /\ FreshList(r.sessions)
    /\ r.pc \in {"arena", "config"} => r.built = 0
    /\ r.pc \in {"load", "read", "commit", "write"} => r.built \in 0..Len(r.sessions)
    /\ r.pc \in {"read", "commit", "write"} => Planned(Head(r.todo).file, r.plan, src, keys)
    /\ r.pc \in {"commit", "write"} => HasBytes(Head(r.todo).file, r.plan, r.bytes)

\* The inductive invariant: FreshGraph alone says nothing of the cache a later process
\* reads, nor of what a process has decided and not yet read.
StartupInv ==
    /\ DOMAIN proc = Procs /\ source \in [Files -> 0..MaxVersion]
    /\ GoodCache(cached)
    /\ \A p \in Procs : GoodProcess(proc[p], source, DOMAIN cached)

\* A process without sessions.
LEMMA EmptyList == FreshList(<<>>) /\ Len(<<>>) = 0
<1>1. <<>> \in Seq({}) /\ Len(<<>>) = 0 /\ 1..0 = {}
  OBVIOUS
<1> QED
  BY <1>1 DEF FreshList

\* The sessions are a list.
LEMMA ListLength == ASSUME NEW l, FreshList(l) PROVE Len(l) \in Nat /\ DOMAIN l = 1..Len(l)
<1>1. PICK S : l \in Seq(S)
  BY DEF FreshList
<1> QED
  BY <1>1

\* One session more.
LEMMA LongerList ==
    ASSUME NEW l, FreshList(l), NEW s, FreshSession(s)
    PROVE  FreshList(Append(l, s)) /\ Len(Append(l, s)) = Len(l) + 1
<1>1. PICK S : l \in Seq(S)
  BY DEF FreshList
<1> DEFINE T == S \cup {s}
           m == Append(l, s)
<1>2. l \in Seq(T) /\ s \in T
  <2>1. S \subseteq T /\ s \in T
    OBVIOUS
  <2> QED
    BY <1>1, <2>1
<1> HIDE DEF T
<1>3. /\ m \in Seq(T) /\ Len(m) = Len(l) + 1 /\ Len(l) \in Nat
      /\ m[Len(l) + 1] = s /\ \A i \in 1..Len(l) : m[i] = l[i]
  BY <1>2
<1>4. \A i \in 1..Len(m) : i \in 1..Len(l) \/ i = Len(l) + 1
  BY <1>3
<1> HIDE DEF m
<1>5. FreshList(m)
  BY <1>3, <1>4 DEF FreshList
<1> QED
  BY <1>3, <1>5 DEF m

\* The sessions of a pool that failed are dropped.
LEMMA ShorterList ==
    ASSUME NEW l, FreshList(l), NEW n \in 0..Len(l)
    PROVE  FreshList(SubSeq(l, 1, n))
<1>1. PICK S : l \in Seq(S)
  BY DEF FreshList
<1> DEFINE m == SubSeq(l, 1, n)
<1>2. m \in Seq(S) /\ Len(m) = n /\ n \in Nat /\ \A i \in 1..n : m[i] = l[i] /\ i \in 1..Len(l)
  BY <1>1
<1> HIDE DEF m
<1>3. FreshList(m)
  BY <1>2 DEF FreshList
<1> QED
  BY <1>3 DEF m

\* The sessions after a warm-up of some of them.
Warmed(l, E, shapes) ==
    [i \in DOMAIN l |-> IF i \in E THEN [l[i] EXCEPT !.warm = shapes] ELSE l[i]]

\* A warm-up changes no graph.
LEMMA WarmList ==
    ASSUME NEW l, FreshList(l), NEW E, NEW shapes
    PROVE  FreshList(Warmed(l, E, shapes)) /\ Len(Warmed(l, E, shapes)) = Len(l)
<1> DEFINE W(i) == IF i \in E THEN [l[i] EXCEPT !.warm = shapes] ELSE l[i]
           n == Len(l)
           m == [i \in DOMAIN l |-> W(i)]
           T == {W(i) : i \in 1..n}
<1>1. n \in Nat /\ DOMAIN l = 1..n
  BY ListLength
<1>2. m \in [1..n -> T] /\ \A i \in 1..n : m[i] = W(i)
  BY <1>1
<1>3. ASSUME NEW i \in 1..n PROVE FreshSession(W(i))
  <2>1. FreshSession(l[i])
    BY DEF FreshList
  <2> QED
    BY <2>1 DEF FreshSession
<1> HIDE DEF T, n, W
<1>4. m \in Seq(T) /\ Len(m) = n
  BY <1>1, <1>2
<1> HIDE DEF m
<1>5. FreshList(m)
  BY <1>2, <1>3, <1>4 DEF FreshList
<1> QED
  BY <1>4, <1>5 DEF m, n, W, Warmed

\* Files only get newer and entries only more: what held still does.
LEMMA StaysGood ==
    ASSUME NEW r, NEW src \in [Files -> 0..MaxVersion], NEW keys, GoodProcess(r, src, keys),
           NEW src2 \in [Files -> 0..MaxVersion], \A f \in Files : src[f] <= src2[f],
           NEW keys2, keys \subseteq keys2
    PROVE  GoodProcess(r, src2, keys2)
<1>1. MaxVersion \in Nat
  BY StartupAssumption
<1>2. ASSUME NEW f, NEW plan, Planned(f, plan, src, keys) PROVE Planned(f, plan, src2, keys2)
  <2>1. f \in Files /\ plan.seen \in 1..MaxVersion /\ plan.seen <= src[f]
    BY <1>2 DEF Planned
  <2>2. src[f] \in Nat /\ src2[f] \in Nat /\ src[f] <= src2[f]
    BY <1>1, <2>1
  <2>3. plan.seen <= src2[f]
    BY <1>1, <2>1, <2>2
  <2> QED
    BY <1>2, <2>1, <2>3 DEF Planned
<1> QED
  BY <1>2 DEF GoodProcess

\* A step of one process.
LEMMA OneProcess ==
    ASSUME StartupInv, NEW p \in Procs, DOMAIN proc' = Procs,
           \A q \in Procs : q # p => proc'[q] = proc[q],
           source' = source, GoodCache(cached'), DOMAIN cached \subseteq DOMAIN cached',
           GoodProcess(proc'[p], source, DOMAIN cached')
    PROVE  StartupInv'
<1>1. \A f \in Files : source[f] <= source[f]
  <2>1. \A f \in Files : source[f] \in 0..MaxVersion /\ MaxVersion \in Nat
    BY StartupAssumption DEF StartupInv
  <2> QED
    BY <2>1
<1>2. \A q \in Procs : q # p => GoodProcess(proc'[q], source, DOMAIN cached')
  BY <1>1, StaysGood DEF StartupInv
<1> QED
  BY <1>2 DEF StartupInv

\* A process that has just been started, or has ended.
LEMMA NewProcess ==
    ASSUME NEW r, DOMAIN r = Fields, r.sessions = <<>>, r.built = 0,
           r.pc \in {"down", "dead", "arena", "config"}, NEW src, NEW keys
    PROVE  GoodProcess(r, src, keys)
BY EmptyList DEF GoodProcess

\* A writer that dies leaves entries that may be torn, of the graph they were of.
LEMMA AbandonedGood ==
    ASSUME NEW dead, GoodCache(cached)
    PROVE  GoodCache(Abandoned(dead)) /\ DOMAIN Abandoned(dead) = DOMAIN cached
<1>1. ASSUME NEW k \in DOMAIN cached PROVE GoodEntry(k, Abandoned(dead)[k])
  <2> DEFINE e == cached[k]
             g == Abandoned(dead)[k]
  <2>1. GoodEntry(k, e)
    BY DEF GoodCache
  <2>2. g = [e EXCEPT !.writing = @ \ dead, !.torn = @ \/ e.writing \cap dead # {}]
    BY DEF Abandoned
  <2>3. DOMAIN g = DOMAIN e /\ g.file = e.file /\ g.version = e.version
    BY <2>1, <2>2 DEF GoodEntry
  <2> HIDE DEF e, g
  <2>4. GoodEntry(k, g)
    BY <2>1, <2>3 DEF GoodEntry
  <2> QED
    BY <2>4 DEF g
<1>2. DOMAIN Abandoned(dead) = DOMAIN cached
  BY DEF Abandoned
<1> QED
  BY <1>1, <1>2 DEF GoodCache

\* A process that ends takes its sessions with it.
LEMMA EndsGood ==
    ASSUME StartupInv, NEW p \in Procs, NEW why, Ends(p, why)
    PROVE  StartupInv'
<1> DEFINE dead == IF p = 0 THEN Procs ELSE {p}
<1>1. /\ proc' = [q \in Procs |-> IF q = p THEN [Down EXCEPT !.pc = "dead", !.why = why]
                                  ELSE IF q \in dead THEN Down ELSE proc[q]]
      /\ cached' = Abandoned(dead) /\ source' = source
  BY DEF Ends
<1>2. GoodCache(cached') /\ DOMAIN cached' = DOMAIN cached
  BY <1>1, AbandonedGood DEF StartupInv
<1>3. ASSUME NEW q \in Procs PROVE GoodProcess(proc'[q], source, DOMAIN cached)
  <2>1. CASE q = p \/ q \in dead
    <3> DEFINE r == proc'[q]
    <3>1. r = Down \/ r = [Down EXCEPT !.pc = "dead", !.why = why]
      BY <1>1, <2>1
    <3> HIDE DEF r
    <3>2. DOMAIN r = Fields /\ r.sessions = <<>> /\ r.built = 0 /\ r.pc \in {"down", "dead"}
      <4>1. CASE r = Down
        BY <4>1 DEF Down, Fields
      <4>2. CASE r = [Down EXCEPT !.pc = "dead", !.why = why]
        BY <4>2 DEF Down, Fields
      <4> QED
        BY <3>1, <4>1, <4>2
    <3>3. GoodProcess(r, source, DOMAIN cached)
      BY <3>2, NewProcess
    <3> QED
      BY <3>3 DEF r
  <2>2. CASE q # p /\ q \notin dead
    BY <1>1, <2>2 DEF StartupInv
  <2> QED
    BY <2>1, <2>2
<1>4. DOMAIN proc' = Procs
  BY <1>1
<1> QED
  BY <1>1, <1>2, <1>3, <1>4 DEF StartupInv

\* The process goes on with its list, where it is not in the middle of a build.
LEMMA MovesOn ==
    ASSUME StartupInv, NEW p \in Procs, DOMAIN proc' = Procs,
           \A q \in Procs : q # p => proc'[q] = proc[q],
           source' = source, cached' = cached, DOMAIN proc'[p] = Fields,
           FreshList(proc'[p].sessions),
           proc'[p].pc \in {"arena", "config"} => proc'[p].built = 0,
           proc'[p].pc = "load" => proc'[p].built \in 0..Len(proc'[p].sessions),
           proc'[p].pc \notin {"read", "commit", "write"}
    PROVE  StartupInv'
<1>1. GoodProcess(proc'[p], source, DOMAIN cached')
  BY DEF GoodProcess
<1>2. GoodCache(cached') /\ DOMAIN cached \subseteq DOMAIN cached'
  BY DEF StartupInv
<1> QED
  BY <1>1, <1>2, OneProcess

\* What the invariant says of one process.
LEMMA ProcFacts ==
    ASSUME StartupInv, NEW p \in Procs
    PROVE  /\ DOMAIN proc = Procs /\ DOMAIN proc[p] = Fields
           /\ FreshList(proc[p].sessions) /\ Len(proc[p].sessions) \in Nat
           /\ proc[p].pc \in {"arena", "config"} => proc[p].built = 0
           /\ proc[p].pc \in {"load", "read", "commit", "write"} =>
                  proc[p].built \in 0..Len(proc[p].sessions)
           /\ proc[p].pc \in {"read", "commit", "write"} =>
                  Planned(Job(p).file, proc[p].plan, source, DOMAIN cached)
           /\ proc[p].pc \in {"commit", "write"} =>
                  HasBytes(Job(p).file, proc[p].plan, proc[p].bytes)
<1>1. GoodProcess(proc[p], source, DOMAIN cached) /\ DOMAIN proc = Procs
  BY DEF StartupInv
<1> QED
  BY <1>1, ListLength DEF GoodProcess, Job

\* main: the server is started.
LEMMA BootGood == ASSUME StartupInv, Boot PROVE StartupInv'
<1>1. 0 \in Procs
  BY StartupAssumption DEF Procs
<1>2. /\ proc' = [proc EXCEPT ![0] = [Down EXCEPT !.pc = "arena"]]
      /\ source' = source /\ cached' = cached
  BY DEF Boot
<1>3. /\ DOMAIN proc' = Procs /\ \A q \in Procs : q # 0 => proc'[q] = proc[q]
      /\ proc'[0] = [Down EXCEPT !.pc = "arena"]
  BY <1>1, <1>2 DEF StartupInv
<1>4. DOMAIN proc'[0] = Fields /\ proc'[0].sessions = <<>> /\ proc'[0].built = 0 /\ proc'[0].pc = "arena"
  BY <1>3 DEF Down, Fields
<1> QED
  BY <1>1, <1>2, <1>3, <1>4, EmptyList, MovesOn

\* register_arena, in the server and in a worker.
LEMMA ArenaGood == ASSUME StartupInv, NEW p \in Procs, RegisterArena(p) PROVE StartupInv'
<1>1. CASE Ends(p, "arena")
  BY <1>1, EndsGood
<1>2. CASE ~Ends(p, "arena")
  <2> DEFINE next == IF p = 0 THEN "config" ELSE "load"
  <2>1. /\ proc[p].pc = "arena" /\ source' = source /\ cached' = cached
        /\ \/ proc' = [proc EXCEPT ![p].arena = TRUE, ![p].pc = next]
           \/ proc' = [proc EXCEPT ![p].pc = next]
    BY <1>2 DEF RegisterArena
  <2>2. next \in {"config", "load"}
    OBVIOUS
  <2> HIDE DEF next
  <2>3. /\ DOMAIN proc' = Procs /\ (\A q \in Procs : q # p => proc'[q] = proc[q])
        /\ DOMAIN proc'[p] = Fields /\ proc'[p].sessions = proc[p].sessions
        /\ proc'[p].built = proc[p].built /\ proc'[p].pc = next
    BY <2>1, ProcFacts DEF Fields
  <2>4. proc[p].built = 0 /\ FreshList(proc[p].sessions) /\ 0 \in 0..Len(proc[p].sessions)
    BY <2>1, ProcFacts
  <2> QED
    BY <2>1, <2>2, <2>3, <2>4, MovesOn
<1> QED
  BY <1>1, <1>2

\* Config::from_env, in the server and in a worker.
LEMMA ConfigGood == ASSUME StartupInv, NEW p \in Procs, ReadConfig(p) PROVE StartupInv'
<1>1. CASE Ends(p, "config")
  BY <1>1, EndsGood
<1>2. CASE ~Ends(p, "config")
  <2>1. /\ proc[p].pc = "config" /\ source' = source /\ cached' = cached
        /\ \E t : \/ proc' = [proc EXCEPT ![p].pc = "arena", ![p].todo = t]
                  \/ p = 0 /\ proc' = [proc EXCEPT ![0].pc = "spawn"]
                  \/ p = 0 /\ proc' = [proc EXCEPT ![0].pc = "load", ![0].todo = t]
    BY <1>2 DEF ReadConfig
  <2>2. /\ DOMAIN proc' = Procs /\ (\A q \in Procs : q # p => proc'[q] = proc[q])
        /\ DOMAIN proc'[p] = Fields /\ proc'[p].sessions = proc[p].sessions
        /\ proc'[p].built = proc[p].built /\ proc'[p].pc \in {"arena", "spawn", "load"}
    BY <2>1, ProcFacts DEF Fields
  <2>3. proc[p].built = 0 /\ FreshList(proc[p].sessions) /\ 0 \in 0..Len(proc[p].sessions)
    BY <2>1, ProcFacts
  <2> QED
    BY <2>1, <2>2, <2>3, MovesOn
<1> QED
  BY <1>1, <1>2

\* decide: the path it returns is made from the file as it is now.
LEMMA DecideGood == ASSUME StartupInv, NEW p \in Procs, Decide(p) PROVE StartupInv'
<1>1. CASE Ends(p, "missing") \/ Ends(p, "panic")
  BY <1>1, EndsGood
<1>2. CASE ~(Ends(p, "missing") \/ Ends(p, "panic"))
  <2> DEFINE f == Job(p).file
             plan == PlanOf(Job(p))
  <2>1. /\ proc[p].pc = "load" /\ Present(f) /\ source' = source /\ cached' = cached
        /\ proc' = [proc EXCEPT ![p].plan = plan, ![p].pc = "read"]
    BY <1>2 DEF Decide
  <2>2. f \in Files /\ source[f] \in 1..MaxVersion /\ source[f] <= source[f]
    <3>1. f \in Files /\ source[f] # 0
      BY <2>1 DEF Present
    <3>2. source[f] \in 0..MaxVersion /\ MaxVersion \in Nat
      BY <3>1, StartupAssumption DEF StartupInv
    <3> QED
      BY <3>1, <3>2
  <2>3. Planned(f, plan, source, DOMAIN cached)
    <3>1. PICK dir : plan = decide(dir, f)
      BY DEF PlanOf
    <3>2. CASE dir = None
      <4>1. plan.seen = source[f] /\ plan.load = "source"
        BY <3>1, <3>2 DEF decide
      <4> HIDE DEF plan, f
      <4> QED
        BY <2>2, <4>1 DEF Planned
    <3>3. CASE dir # None
      <4>1. /\ plan.seen = source[f] /\ plan.key = cache_path(dir, f)
            /\ plan.load = "hit" => plan.key \in DOMAIN cached
        BY <3>1, <3>3 DEF decide
      <4>2. Keyed(plan.key, f, plan.seen)
        BY <4>1 DEF cache_path, Keyed
      <4> HIDE DEF plan, f
      <4> QED
        BY <2>2, <4>1, <4>2 DEF Planned
    <3> QED
      BY <3>2, <3>3
  <2> HIDE DEF plan
  <2>4. /\ DOMAIN proc' = Procs /\ (\A q \in Procs : q # p => proc'[q] = proc[q])
        /\ DOMAIN proc'[p] = Fields /\ proc'[p].sessions = proc[p].sessions
        /\ proc'[p].built = proc[p].built /\ proc'[p].todo = proc[p].todo
        /\ proc'[p].plan = plan /\ proc'[p].pc = "read"
    BY <2>1, ProcFacts DEF Fields
  <2>5. FreshList(proc[p].sessions) /\ proc[p].built \in 0..Len(proc[p].sessions)
    BY <2>1, ProcFacts
  <2>6. GoodProcess(proc'[p], source, DOMAIN cached')
    BY <2>1, <2>3, <2>4, <2>5 DEF GoodProcess, Job
  <2>7. GoodCache(cached') /\ DOMAIN cached \subseteq DOMAIN cached'
    BY <2>1 DEF StartupInv
  <2> QED
    BY <2>1, <2>4, <2>6, <2>7, OneProcess
<1> QED
  BY <1>1, <1>2

\* The read: an entry at the path of a version of a file is of that file, and of that
\* version or a later one, because no two files of a name share a modification time.
LEMMA ReadGood == ASSUME StartupInv, NEW p \in Procs, read_and_mlock(p) PROVE StartupInv'
<1> DEFINE f == Job(p).file
           plan == proc[p].plan
           blob == IF plan.load = "hit"
                   THEN [file |-> cached[plan.key].file, version |-> cached[plan.key].version,
                         whole |-> Whole(cached[plan.key])]
                   ELSE [file |-> Job(p).file, version |-> source[Job(p).file], whole |-> TRUE]
<1>1. /\ proc[p].pc = "read" /\ source' = source /\ cached' = cached
      /\ proc' = [proc EXCEPT ![p].bytes = blob, ![p].pc = "commit"]
  BY DEF read_and_mlock
<1>2. Planned(f, plan, source, DOMAIN cached)
  BY <1>1, ProcFacts
<1>3. HasBytes(f, plan, blob)
  <2>1. CASE plan.load = "hit"
    <3> DEFINE e == cached[plan.key]
    <3>1. GoodEntry(plan.key, e) /\ Keyed(plan.key, f, plan.seen) /\ f \in Files /\ plan.seen \in 1..MaxVersion
      BY <1>2, <2>1 DEF Planned, StartupInv, GoodCache
    <3>2. blob.file = e.file /\ blob.version = e.version
      BY <2>1
    <3> HIDE DEF e, blob, plan, f
    <3>3. PICK u \in 1..MaxVersion : u <= e.version /\ Keyed(plan.key, e.file, u)
      BY <3>1 DEF GoodEntry
    <3>4. e.file \in Files /\ e.version \in 1..MaxVersion
      BY <3>1 DEF GoodEntry
    <3>5. /\ f.name = e.file.name /\ f.batch = e.file.batch
          /\ MtimeOf(f, plan.seen) = MtimeOf(e.file, u)
      <4>1. PICK d : plan.key = <<d, f.name, f.batch, MtimeOf(f, plan.seen)>>
        BY <3>1 DEF Keyed
      <4>2. PICK d2 : plan.key = <<d2, e.file.name, e.file.batch, MtimeOf(e.file, u)>>
        BY <3>3 DEF Keyed
      <4> QED
        BY <4>1, <4>2
    <3>6. f = e.file /\ plan.seen = u
      BY <3>1, <3>4, <3>5, MtimesDiffer
    <3> QED
      BY <3>2, <3>3, <3>4, <3>6 DEF HasBytes
  <2>2. CASE plan.load # "hit"
    <3>1. f \in Files /\ plan.seen \in 1..MaxVersion /\ plan.seen <= source[f]
      BY <1>2 DEF Planned
    <3>2. blob.file = f /\ blob.version = source[f]
      BY <2>2
    <3>3. source[f] \in 0..MaxVersion /\ MaxVersion \in Nat
      BY <3>1, StartupAssumption DEF StartupInv
    <3> HIDE DEF blob, plan, f
    <3>4. source[f] \in 1..MaxVersion
      BY <3>1, <3>3
    <3> QED
      BY <3>1, <3>2, <3>4 DEF HasBytes
  <2> QED
    BY <2>1, <2>2
<1> HIDE DEF blob
<1>4. /\ DOMAIN proc' = Procs /\ (\A q \in Procs : q # p => proc'[q] = proc[q])
      /\ DOMAIN proc'[p] = Fields /\ proc'[p].sessions = proc[p].sessions
      /\ proc'[p].built = proc[p].built /\ proc'[p].todo = proc[p].todo
      /\ proc'[p].plan = plan /\ proc'[p].bytes = blob /\ proc'[p].pc = "commit"
  BY <1>1, ProcFacts DEF Fields
<1>5. FreshList(proc[p].sessions) /\ proc[p].built \in 0..Len(proc[p].sessions)
  BY <1>1, ProcFacts
<1>6. GoodProcess(proc'[p], source, DOMAIN cached')
  BY <1>1, <1>2, <1>3, <1>4, <1>5 DEF GoodProcess, Job
<1>7. GoodCache(cached') /\ DOMAIN cached \subseteq DOMAIN cached'
  BY <1>1 DEF StartupInv
<1> QED
  BY <1>1, <1>4, <1>6, <1>7, OneProcess

\* One session more, of the bytes that were read.
LEMMA BuiltGood ==
    ASSUME StartupInv, NEW p \in Procs, proc[p].pc \in {"commit", "write"},
           proc' = Built(p), source' = source, GoodCache(cached'), DOMAIN cached' = DOMAIN cached
    PROVE  StartupInv'
<1> DEFINE s == NewSession(p)
           l == proc[p].sessions
           n == proc'[p].built
<1>1. FreshSession(s)
  <2>1. /\ Planned(Job(p).file, proc[p].plan, source, DOMAIN cached)
        /\ HasBytes(Job(p).file, proc[p].plan, proc[p].bytes)
    BY ProcFacts
  <2>2. /\ proc[p].bytes.file = Job(p).file /\ proc[p].bytes.version >= proc[p].plan.seen
    <3>1. MaxVersion \in Nat
      BY StartupAssumption
    <3> QED
      BY <2>1, <3>1 DEF Planned, HasBytes
  <2> QED
    BY <2>2 DEF FreshSession, NewSession
<1>2. FreshList(l) /\ Len(l) \in Nat /\ proc[p].built \in 0..Len(l)
  BY ProcFacts
<1> HIDE DEF s, l
<1>3. FreshList(Append(l, s)) /\ Len(Append(l, s)) = Len(l) + 1
  BY <1>1, <1>2, LongerList
<1>4. /\ DOMAIN proc' = Procs /\ (\A q \in Procs : q # p => proc'[q] = proc[q])
      /\ DOMAIN proc'[p] = Fields /\ proc'[p].sessions = Append(l, s)
      /\ proc'[p].pc = "load" /\ (n = 0 \/ n = proc[p].built + 1)
  BY ProcFacts DEF Built, Fields, l, s
<1> HIDE DEF n
<1>5. n \in 0..Len(Append(l, s))
  BY <1>2, <1>3, <1>4
<1>6. GoodProcess(proc'[p], source, DOMAIN cached')
  BY <1>3, <1>4, <1>5 DEF GoodProcess, n
<1> QED
  BY <1>4, <1>6, OneProcess

\* A pool that cannot be built.
LEMMA PoolFailsGood ==
    ASSUME StartupInv, NEW p \in Procs, proc[p].pc \in {"commit", "write"},
           NEW why, PoolFails(p, why)
    PROVE  StartupInv'
<1>1. CASE Ends(p, why)
  BY <1>1, EndsGood
<1>2. CASE ~Ends(p, why)
  <2> DEFINE l == proc[p].sessions
             n == Len(l) - proc[p].built
  <2>1. /\ proc' = [Next1(p) EXCEPT ![p].plan = NoPlan, ![p].bytes = NoData,
                        ![p].sessions = SubSeq(@, 1, Len(@) - proc[p].built)]
        /\ cached' = Abandoned({p}) /\ source' = source
    BY <1>2 DEF PoolFails
  <2>2. FreshList(l) /\ Len(l) \in Nat /\ proc[p].built \in 0..Len(l) /\ n \in 0..Len(l)
    BY ProcFacts
  <2>3. FreshList(SubSeq(l, 1, n))
    BY <2>2, ShorterList
  <2>4. /\ DOMAIN proc' = Procs /\ (\A q \in Procs : q # p => proc'[q] = proc[q])
        /\ DOMAIN proc'[p] = Fields /\ proc'[p].sessions = SubSeq(l, 1, n)
        /\ proc'[p].pc = "load" /\ proc'[p].built = 0
    BY <2>1, ProcFacts DEF Next1, Fields
  <2> DEFINE m == SubSeq(l, 1, n)
  <2> HIDE DEF n, l, m
  <2>5. 0 \in 0..Len(m)
    <3>1. FreshList(m)
      BY <2>3 DEF m
    <3>2. Len(m) \in Nat
      BY <3>1, ListLength
    <3> QED
      BY <3>2
  <2>6. GoodCache(cached') /\ DOMAIN cached' = DOMAIN cached
    BY <2>1, AbandonedGood DEF StartupInv
  <2>7. GoodProcess(proc'[p], source, DOMAIN cached')
    BY <2>3, <2>4, <2>5 DEF GoodProcess, m
  <2> QED
    BY <2>1, <2>4, <2>6, <2>7, OneProcess
<1> QED
  BY <1>1, <1>2

\* commit_from_memory of a graph from the cache or of the source file.
LEMMA CommitGood == ASSUME StartupInv, NEW p \in Procs, Commit(p) PROVE StartupInv'
<1>1. proc[p].pc = "commit"
  BY DEF Commit
<1>2. CASE PoolFails(p, "cache")
  BY <1>1, <1>2, PoolFailsGood
<1>3. CASE ~PoolFails(p, "cache")
  <2>1. proc' = Built(p) /\ source' = source /\ cached' = cached
    BY <1>3 DEF Commit
  <2>2. GoodCache(cached') /\ DOMAIN cached' = DOMAIN cached
    BY <2>1 DEF StartupInv
  <2> QED
    BY <1>1, <2>1, <2>2, BuiltGood
<1> QED
  BY <1>2, <1>3

\* A miss without a cache file.
LEMMA NotWrittenGood == ASSUME StartupInv, NEW p \in Procs, NotWritten(p) PROVE StartupInv'
<1>1. proc[p].pc = "commit"
  BY DEF NotWritten
<1>2. CASE PoolFails(p, "write")
  BY <1>1, <1>2, PoolFailsGood
<1>3. CASE ~PoolFails(p, "write")
  <2>1. proc' = Built(p) /\ source' = source /\ cached' = cached
    BY <1>3 DEF NotWritten
  <2>2. GoodCache(cached') /\ DOMAIN cached' = DOMAIN cached
    BY <2>1 DEF StartupInv
  <2> QED
    BY <1>1, <2>1, <2>2, BuiltGood
<1> QED
  BY <1>2, <1>3

\* The optimized graph is on disk and the session built.
LEMMA FinishWriteGood == ASSUME StartupInv, NEW p \in Procs, FinishWrite(p) PROVE StartupInv'
<1>1. proc[p].pc = "write"
  BY DEF FinishWrite
<1>2. CASE PoolFails(p, "write")
  BY <1>1, <1>2, PoolFailsGood
<1>3. CASE ~PoolFails(p, "write")
  <2> DEFINE key == proc[p].plan.key
  <2>1. /\ proc' = Built(p) /\ source' = source
        /\ cached' = [cached EXCEPT ![key].writing = @ \ {p}]
    BY <1>3 DEF FinishWrite
  <2>2. DOMAIN cached' = DOMAIN cached
    BY <2>1
  <2>3. ASSUME NEW k \in DOMAIN cached PROVE GoodEntry(k, cached'[k])
    <3> DEFINE e == cached[k]
               g == cached'[k]
    <3>1. GoodEntry(k, e)
      BY DEF StartupInv, GoodCache
    <3>2. DOMAIN g = DOMAIN e /\ g.file = e.file /\ g.version = e.version
      <4>1. CASE k = key
        <5>1. g = [e EXCEPT !.writing = @ \ {p}]
          BY <2>1, <4>1
        <5> QED
          BY <3>1, <5>1 DEF GoodEntry
      <4>2. CASE k # key
        BY <2>1, <4>2
      <4> QED
        BY <4>1, <4>2
    <3> HIDE DEF e, g
    <3>3. GoodEntry(k, g)
      BY <3>1, <3>2 DEF GoodEntry
    <3> QED
      BY <3>3 DEF g
  <2>4. GoodCache(cached')
    BY <2>2, <2>3 DEF GoodCache
  <2> QED
    BY <1>1, <2>1, <2>2, <2>4, BuiltGood
<1> QED
  BY <1>2, <1>3

\* The new entry is at the path of the version that was seen and has the bytes that
\* were read, which may be newer.
LEMMA StartWriteGood == ASSUME StartupInv, NEW p \in Procs, StartWrite(p) PROVE StartupInv'
<1> DEFINE key  == proc[p].plan.key
           blob == proc[p].bytes
           plan == proc[p].plan
           f    == Job(p).file
<1>1. /\ proc[p].pc = "commit" /\ plan.load = "miss" /\ source' = source
      /\ proc' = [proc EXCEPT ![p].pc = "write"]
  BY DEF StartWrite
<1> DEFINE there == IF key \in DOMAIN cached THEN cached[key].writing ELSE {}
           writing == there \cup {p}
           With(torn) == [k \in DOMAIN cached \cup {key} |->
                             IF k = key THEN [file |-> blob.file, version |-> blob.version,
                                              writing |-> writing, torn |-> torn]
                             ELSE cached[k]]
<1>2. \E torn \in BOOLEAN : cached' = With(torn)
  BY Zenon DEF StartWrite
<1>3. PICK torn \in BOOLEAN : cached' = With(torn)
  BY <1>2
<1> HIDE DEF writing
<1>4. DOMAIN cached' = DOMAIN cached \cup {key}
  BY <1>3
<1>5. Planned(f, plan, source, DOMAIN cached) /\ HasBytes(f, plan, blob)
  BY <1>1, ProcFacts
<1>6. GoodEntry(key, cached'[key])
  <2> DEFINE e == cached'[key]
  <2>1. e = [file |-> blob.file, version |-> blob.version, writing |-> writing, torn |-> torn]
    BY <1>3
  <2>2. DOMAIN e = {"file", "version", "writing", "torn"} /\ e.file = blob.file /\ e.version = blob.version
    BY <2>1
  <2>3. /\ f \in Files /\ plan.seen \in 1..MaxVersion /\ Keyed(key, f, plan.seen)
        /\ blob.file = f /\ blob.version \in 1..MaxVersion /\ plan.seen <= blob.version
    BY <1>1, <1>5 DEF Planned, HasBytes
  <2> HIDE DEF e, key, blob, plan, f
  <2>4. GoodEntry(key, e)
    BY <2>2, <2>3 DEF GoodEntry
  <2> QED
    BY <2>4 DEF e
<1>7. \A k \in DOMAIN cached : k # key => cached'[k] = cached[k]
  BY <1>3
<1>8. GoodCache(cached')
  BY <1>4, <1>6, <1>7 DEF GoodCache, StartupInv
<1>9. /\ DOMAIN proc' = Procs /\ (\A q \in Procs : q # p => proc'[q] = proc[q])
      /\ DOMAIN proc'[p] = Fields /\ proc'[p].sessions = proc[p].sessions
      /\ proc'[p].built = proc[p].built /\ proc'[p].todo = proc[p].todo
      /\ proc'[p].plan = plan /\ proc'[p].bytes = blob /\ proc'[p].pc = "write"
  BY <1>1, ProcFacts DEF Fields
<1>10. FreshList(proc[p].sessions) /\ proc[p].built \in 0..Len(proc[p].sessions)
  BY <1>1, ProcFacts
<1>11. Planned(f, plan, source, DOMAIN cached')
  BY <1>4, <1>5 DEF Planned
<1>12. GoodProcess(proc'[p], source, DOMAIN cached')
  BY <1>5, <1>9, <1>10, <1>11 DEF GoodProcess, Job
<1> QED
  BY <1>1, <1>4, <1>8, <1>9, <1>12, OneProcess

\* warmup.
LEMMA WarmupGood == ASSUME StartupInv, NEW p \in Procs, Warmup(p) PROVE StartupInv'
<1> DEFINE l == proc[p].sessions
           E == EverySlot(p)
           shapes == Job(p).shapes
           m == Warmed(l, E, shapes)
<1>1. /\ proc' = [Next1(p) EXCEPT ![p].sessions =
                    [i \in DOMAIN proc[p].sessions |->
                        IF i \in EverySlot(p) THEN [@[i] EXCEPT !.warm = Job(p).shapes] ELSE @[i]]]
      /\ source' = source /\ cached' = cached /\ proc[p].pc = "load"
  BY DEF Warmup
<1>2. FreshList(l) /\ Len(l) \in Nat
  BY ProcFacts
<1> HIDE DEF E, shapes
<1>3. FreshList(m) /\ Len(m) = Len(l)
  BY <1>2, WarmList
<1>4. Next1(p)[p].sessions = l
  BY ProcFacts DEF Next1, Fields
<1>5. /\ DOMAIN proc' = Procs /\ (\A q \in Procs : q # p => proc'[q] = proc[q])
      /\ DOMAIN proc'[p] = Fields /\ proc'[p].sessions = m
      /\ proc'[p].pc = "load" /\ proc'[p].built = 0
  BY <1>1, <1>4, ProcFacts DEF Next1, Fields, E, shapes, Warmed
<1> HIDE DEF m, l
<1>6. 0 \in 0..Len(m)
  BY <1>2, <1>3
<1> QED
  BY <1>1, <1>3, <1>5, <1>6, MovesOn

\* The batchers.
LEMMA StartBatchersGood == ASSUME StartupInv, NEW p \in Procs, StartBatchers(p) PROVE StartupInv'
<1>1. CASE Ends(p, "panic")
  BY <1>1, EndsGood
<1>2. CASE ~Ends(p, "panic")
  <2>1. proc' = Next1(p) /\ source' = source /\ cached' = cached
    BY <1>2 DEF StartBatchers
  <2>2. /\ DOMAIN proc' = Procs /\ (\A q \in Procs : q # p => proc'[q] = proc[q])
        /\ DOMAIN proc'[p] = Fields /\ proc'[p].sessions = proc[p].sessions
        /\ proc'[p].pc = "load" /\ proc'[p].built = 0
    BY <2>1, ProcFacts DEF Next1, Fields
  <2>3. FreshList(proc[p].sessions) /\ 0 \in 0..Len(proc[p].sessions)
    BY ProcFacts
  <2> QED
    BY <2>1, <2>2, <2>3, MovesOn
<1> QED
  BY <1>1, <1>2

\* A step that only moves a process to one of the last places of its program.
LEMMA PlaceGood ==
    ASSUME StartupInv, NEW p \in Procs, NEW place \in {"bind", "up", "await"},
           proc' = [proc EXCEPT ![p].pc = place], source' = source, cached' = cached
    PROVE  StartupInv'
<1>1. /\ DOMAIN proc' = Procs /\ (\A q \in Procs : q # p => proc'[q] = proc[q])
      /\ DOMAIN proc'[p] = Fields /\ proc'[p].sessions = proc[p].sessions
      /\ proc'[p].pc = place
  BY ProcFacts DEF Fields
<1>2. FreshList(proc[p].sessions)
  BY ProcFacts
<1> QED
  BY <1>1, <1>2, MovesOn

\* All models are loaded.
LEMMA LoadedGood == ASSUME StartupInv, NEW p \in Procs, Loaded(p) PROVE StartupInv'
<1> DEFINE place == IF p = 0 THEN "bind" ELSE "up"
<1>1. /\ proc' = [proc EXCEPT ![p].pc = place]
      /\ source' = source /\ cached' = cached
  BY DEF Loaded
<1>2. place \in {"bind", "up", "await"}
  OBVIOUS
<1> HIDE DEF place
<1> QED
  BY <1>1, <1>2, PlaceGood

\* A worker is started again.
LEMMA FreshProcessGood ==
    ASSUME StartupInv, NEW w \in Procs, proc' = [proc EXCEPT ![w] = [Down EXCEPT !.pc = "config"]],
           source' = source, cached' = cached
    PROVE  StartupInv'
<1>1. /\ DOMAIN proc' = Procs /\ \A q \in Procs : q # w => proc'[q] = proc[q]
      /\ proc'[w] = [Down EXCEPT !.pc = "config"]
  BY DEF StartupInv
<1>2. DOMAIN proc'[w] = Fields /\ proc'[w].sessions = <<>> /\ proc'[w].built = 0 /\ proc'[w].pc = "config"
  BY <1>1 DEF Down, Fields
<1> QED
  BY <1>1, <1>2, EmptyList, MovesOn

\* WorkerSupervisor::launch is called for the next worker, or all are started.
LEMMA SpawnGood == ASSUME StartupInv, Spawn PROVE StartupInv'
<1>1. 0 \in Procs
  BY StartupAssumption DEF Procs
<1>2. CASE proc' = [proc EXCEPT ![0].pc = "await"]
  BY <1>1, <1>2, PlaceGood DEF Spawn
<1>3. CASE proc' # [proc EXCEPT ![0].pc = "await"]
  <2> DEFINE w == Started + 1
             r == [Down EXCEPT !.pc = "config"]
  <2>1. /\ proc' = [proc EXCEPT ![0].built = @ + 1, ![w] = r]
        /\ source' = source /\ cached' = cached /\ proc[0].pc = "spawn"
    BY <1>3 DEF Spawn
  <2>2. DOMAIN r = Fields /\ r.sessions = <<>> /\ r.built = 0 /\ r.pc = "config"
    BY DEF Down, Fields
  <2> HIDE DEF w, r
  <2>3. DOMAIN proc' = Procs
    BY <2>1, ProcFacts, <1>1
  <2>4. ASSUME NEW q \in Procs PROVE GoodProcess(proc'[q], source, DOMAIN cached)
    <3>1. CASE q = w
      <4>1. proc'[q] = r
        BY <2>1, <3>1, ProcFacts
      <4> QED
        BY <2>2, <4>1, NewProcess
    <3>2. CASE q # w /\ q = 0
      <4>1. proc'[q] = [proc[0] EXCEPT !.built = @ + 1]
        BY <1>1, <2>1, <3>2, ProcFacts
      <4>2. DOMAIN proc'[q] = Fields /\ proc'[q].sessions = proc[0].sessions /\ proc'[q].pc = "spawn"
        BY <1>1, <2>1, <4>1, ProcFacts DEF Fields
      <4>3. FreshList(proc[0].sessions)
        BY <1>1, ProcFacts
      <4> QED
        BY <4>2, <4>3 DEF GoodProcess
    <3>3. CASE q # w /\ q # 0
      <4>1. proc'[q] = proc[q]
        BY <2>1, <3>3, ProcFacts
      <4> QED
        BY <4>1 DEF StartupInv
    <3> QED
      BY <3>1, <3>2, <3>3
  <2> QED
    BY <2>1, <2>3, <2>4 DEF StartupInv
<1> QED
  BY <1>2, <1>3

\* The server binds its port or ends.
LEMMA BindGood == ASSUME StartupInv, Bind PROVE StartupInv'
<1>1. 0 \in Procs
  BY StartupAssumption DEF Procs
<1>2. CASE Ends(0, "port")
  BY <1>1, <1>2, EndsGood
<1>3. CASE ~Ends(0, "port")
  BY <1>1, <1>3, PlaceGood DEF Bind
<1> QED
  BY <1>2, <1>3

\* All workers are there.
LEMMA AwaitAllGood == ASSUME StartupInv, AwaitAll PROVE StartupInv'
<1>1. 0 \in Procs
  BY StartupAssumption DEF Procs
<1> QED
  BY <1>1, PlaceGood DEF AwaitAll

\* A model file is replaced.
LEMMA DeployGood == ASSUME StartupInv, NEW f \in Replaced, Deploy(f) PROVE StartupInv'
<1>1. /\ source[f] \in 1..(MaxVersion - 1) /\ source' = [source EXCEPT ![f] = @ + 1]
      /\ proc' = proc /\ cached' = cached
  BY DEF Deploy
<1>2. f \in Files /\ MaxVersion \in Nat /\ source \in [Files -> 0..MaxVersion]
  BY StartupAssumption DEF StartupInv
<1>3. source' \in [Files -> 0..MaxVersion] /\ \A g \in Files : source[g] <= source'[g]
  <2>1. ASSUME NEW g \in Files PROVE source[g] \in 0..MaxVersion /\ source'[g] \in 0..MaxVersion /\ source[g] <= source'[g]
    BY <1>1, <1>2
  <2> QED
    BY <1>1, <1>2, <2>1
<1>4. \A q \in Procs : GoodProcess(proc[q], source', DOMAIN cached)
  BY <1>2, <1>3, StaysGood DEF StartupInv
<1> QED
  BY <1>1, <1>3, <1>4 DEF StartupInv

\* StartupInv is inductive.
LEMMA StartupInductive == ASSUME StartupInv, [Next]_vars PROVE StartupInv'
<1>1. CASE UNCHANGED vars
  BY <1>1 DEF vars, StartupInv
<1>2. CASE Boot \/ Spawn \/ AwaitAll \/ Bind
  BY <1>2, BootGood, SpawnGood, AwaitAllGood, BindGood
<1>3. ASSUME NEW p \in Procs, Load(p) PROVE StartupInv'
  BY <1>3, ArenaGood, ConfigGood, DecideGood, ReadGood, CommitGood, StartWriteGood,
     NotWrittenGood, FinishWriteGood, WarmupGood, StartBatchersGood, LoadedGood DEF Load
<1>4. ASSUME NEW p \in Procs, Kill(p) PROVE StartupInv'
  BY <1>4, EndsGood DEF Kill
<1>5. ASSUME NEW w \in Workers, Launched(w) PROVE StartupInv'
  BY <1>5 DEF Launched, StartupInv
<1>6. ASSUME NEW w \in Workers, LaunchFails(w) PROVE StartupInv'
  <2>1. 0 \in Procs
    BY StartupAssumption DEF Procs
  <2> QED
    BY <1>6, <2>1, EndsGood DEF LaunchFails
<1>7. ASSUME NEW w \in Workers, Respawn(w) PROVE StartupInv'
  BY <1>7, FreshProcessGood DEF Respawn, Workers
<1>8. ASSUME NEW f \in Replaced, Deploy(f) PROVE StartupInv'
  BY <1>8, DeployGood
<1> QED
  BY <1>1, <1>2, <1>3, <1>4, <1>5, <1>6, <1>7, <1>8 DEF Next

\* It holds before anything is started.
LEMMA StartupInitially == ASSUME Init PROVE StartupInv
<1>1. /\ proc = [p \in Procs |-> Down] /\ cached = [k \in {} |-> None]
      /\ source \in [Files -> 0..MaxVersion]
  <2>1. PICK missing : source = [f \in Files |-> IF f \in missing THEN 0 ELSE 1]
    BY DEF Init
  <2>2. MaxVersion \in Nat /\ MaxVersion # 0
    BY StartupAssumption
  <2>3. 0 \in 0..MaxVersion /\ 1 \in 0..MaxVersion
    BY <2>2
  <2> QED
    BY <2>1, <2>3 DEF Init
<1>2. GoodCache(cached)
  BY <1>1 DEF GoodCache
<1>3. GoodProcess(Down, source, DOMAIN cached)
  <2>1. DOMAIN Down = Fields /\ Down.sessions = <<>> /\ Down.built = 0 /\ Down.pc = "down"
    BY DEF Down, Fields
  <2> QED
    BY <2>1, NewProcess
<1> QED
  BY <1>1, <1>2, <1>3 DEF StartupInv

\* It implies what the run checks.
LEMMA StartupFresh == ASSUME StartupInv PROVE FreshGraph
<1>1. ASSUME NEW p \in Procs, NEW i \in DOMAIN proc[p].sessions
      PROVE  FreshSession(proc[p].sessions[i])
  <2>1. FreshList(proc[p].sessions)
    BY ProcFacts
  <2> QED
    BY <2>1, ListLength DEF FreshList
<1> QED
  BY <1>1 DEF FreshGraph, FreshSession

\* onnx_cache.rs with the loads of the three kinds of model: for any number of workers,
\* files, versions and environments, and whatever is killed or replaced meanwhile, a
\* session runs the graph of its own model and not an older one than was on disk when
\* the session was started.
THEOREM GraphsAreFresh == Spec => []FreshGraph
<1>1. Init => StartupInv
  BY StartupInitially
<1>2. StartupInv /\ [Next]_vars => StartupInv'
  BY StartupInductive
<1>3. StartupInv => FreshGraph
  BY StartupFresh
<1> QED
  BY <1>1, <1>2, <1>3, PTL DEF Spec

------------------------------------------------------------------------------
(* What the configuration makes of the processes.                           *)

\* Entries leaves out the blanks: what is left is a list.
LEMMA EntriesList ==
    ASSUME NEW list, list # Unset => IsList(list)
    PROVE  IsList(Entries(list))
<1>0. IsList(<<>>)
  <2>1. <<>> \in Seq({})
    OBVIOUS
  <2> QED
    BY <2>1 DEF IsList
<1>1. CASE list = Unset
  BY <1>0, <1>1 DEF Entries
<1>2. CASE list # Unset
  <2>0. PICK T : list \in Seq(T)
    BY <1>2 DEF IsList
  <2> DEFINE n == Len(list)
             S == Seq(T)
             empty == <<>>
             Longer(s, i) == IF list[i] = Blank THEN s ELSE Append(s, list[i])
             longer == [p \in Nat \X S |-> IF p[1] \in 1..n THEN Longer(p[2], p[1]) ELSE <<>>]
             kept[i \in 0..Len(list)] == IF i = 0 THEN <<>>
                                         ELSE IF list[i] = Blank THEN kept[i - 1]
                                         ELSE Append(kept[i - 1], list[i])
  <2>1. Entries(list) = kept[n]
    BY <1>2 DEF Entries
  <2>2. n \in Nat /\ empty \in S /\ \A i \in 1..n : list[i] \in T
    BY <2>0
  <2>3. \A i \in 1..n, s \in S : Longer(s, i) \in S
    BY <2>2
  <2>4. /\ longer \in [Nat \X S -> S]
        /\ \A i \in 1..n, s \in S : longer[<<i, s>>] = Longer(s, i)
    <3> HIDE DEF Longer, S, n
    <3>1. ASSUME NEW p \in Nat \X S
          PROVE  (IF p[1] \in 1..n THEN Longer(p[2], p[1]) ELSE <<>>) \in S
      BY <2>2, <2>3 DEF empty
    <3>2. \A i \in 1..n : i \in Nat
      BY <2>2
    <3> QED
      BY <3>1, <3>2
  <2>5. PICK g : Run(g, n, S, empty, longer)
    <3> HIDE DEF n, S, empty, longer
    <3> QED
      BY <2>2, <2>4, Iterates
  <2> HIDE DEF longer, S
  <2>6. ASSUME NEW i \in 1..n PROVE g[i - 1] \in S /\ g[i] = Longer(g[i - 1], i)
    <3>1. i - 1 \in 0..n
      BY <2>2
    <3> QED
      BY <3>1, <2>4, <2>5 DEF Run
  <2>7. g = [i \in 0..Len(list) |-> IF i = 0 THEN <<>>
                                    ELSE IF list[i] = Blank THEN g[i - 1]
                                    ELSE Append(g[i - 1], list[i])]
    <3>1. ASSUME NEW i \in 0..n PROVE g[i] = IF i = 0 THEN <<>> ELSE Longer(g[i - 1], i)
      <4>1. i # 0 => i \in 1..n
        BY <2>2
      <4> QED
        BY <2>5, <2>6, <4>1 DEF Run
    <3> QED
      BY <3>1, <2>5 DEF Run
  <2>8. kept = [i \in 0..Len(list) |-> IF i = 0 THEN <<>>
                                       ELSE IF list[i] = Blank THEN kept[i - 1]
                                       ELSE Append(kept[i - 1], list[i])]
    BY <2>7
  <2> HIDE DEF kept
  <2>9. kept[0] = <<>> /\ \A i \in 1..n : kept[i] = Longer(kept[i - 1], i)
    <3>1. 0 \in 0..n /\ \A i \in 1..n : i \in 0..n /\ i # 0
      BY <2>2
    <3> QED
      BY <2>8, <3>1
  <2> DEFINE P == {m \in 0..n : kept[m] \in S}
  <2>10. 0 \in P
    BY <2>2, <2>9
  <2>11. ASSUME NEW m \in 1..n, m - 1 \in P PROVE m \in P
    BY <2>11, <2>2, <2>3, <2>9
  <2>12. n \in P
    <3> HIDE DEF P, n
    <3>1. 0..n \subseteq P
      BY <2>2, <2>10, <2>11, UpTo
    <3> QED
      BY <2>2, <3>1
  <2> QED
    BY <2>1, <2>12 DEF IsList, S
<1> QED
  BY <1>1, <1>2

\* The static graphs of a reranker are sorted: a list of graphs.
LEMMA SortedGraphs ==
    ASSUME NEW graphs, IsFiniteSet(graphs), \A f \in graphs : f.batch \in Nat,
           \A f, g \in graphs : f # g => f.batch # g.batch
    PROVE  /\ IsList(SmallestBatchFirst(graphs))
           /\ \A i \in 1..Len(SmallestBatchFirst(graphs)) : SmallestBatchFirst(graphs)[i] \in graphs
<1> DEFINE n == Cardinality(graphs)
<1>1. n \in Nat /\ ExistsBijection(1..n, graphs)
  BY FS_CardinalityType
<1>2. PICK b : b \in Bijection(1..n, graphs)
  BY <1>1 DEF ExistsBijection
<1>3. b \in [1..n -> graphs] /\ \A i, j \in 1..n : b[i] = b[j] => i = j
  BY <1>2 DEF Bijection, Injection, IsInjective
<1> DEFINE k == [i \in 1..n |-> -b[i].batch]
           s == [i \in 1..n |-> b[At(k, i)]]
<1>4. k \in [1..n -> Int]
  <2>1. \A i \in 1..n : b[i].batch \in Nat
    BY <1>3
  <2> QED
    BY <2>1
<1> HIDE DEF n
<1>5. /\ \A i \in 1..n : At(k, i) \in 1..n
      /\ \A i, j \in 1..n : i < j => Before(k, At(k, i), At(k, j))
  <2> HIDE DEF k
  <2> QED
    BY <1>1, <1>4, SortedPlaces
<1>6. s \in [1..n -> graphs]
  <2> HIDE DEF k
  <2> QED
    BY <1>3, <1>5
<1>7. ASSUME NEW i \in 1..n, NEW j \in 1..n, i < j PROVE s[i].batch < s[j].batch
  <2> DEFINE x == At(k, i)
             y == At(k, j)
  <2>1. x \in 1..n /\ y \in 1..n /\ Before(k, x, y)
    BY <1>5, <1>7
  <2> HIDE DEF x, y
  <2>2. x # y
    <3> HIDE DEF k
    <3>1. ~ Before(k, x, x)
      BY <2>1, <1>1, <1>4, BeforeTotal
    <3> QED
      BY <2>1, <3>1
  <2>3. b[x] # b[y] /\ b[x] \in graphs /\ b[y] \in graphs
    BY <2>1, <2>2, <1>3
  <2>4. b[x].batch # b[y].batch /\ b[x].batch \in Nat /\ b[y].batch \in Nat
    BY <2>3
  <2>5. k[x] >= k[y] /\ k[x] = -b[x].batch /\ k[y] = -b[y].batch
    <3>1. k[x] = -b[x].batch /\ k[y] = -b[y].batch /\ k[x] \in Int /\ k[y] \in Int
      BY <2>1, <1>4
    <3> HIDE DEF k
    <3> QED
      BY <2>1, <3>1 DEF Before
  <2>6. b[x].batch < b[y].batch
    BY <2>4, <2>5
  <2>7. s[i] = b[x] /\ s[j] = b[y]
    BY DEF x, y
  <2> QED
    BY <2>6, <2>7
<1> DEFINE t == SmallestBatchFirst(graphs)
<1>8. t \in [1..n -> graphs]
  <2>1. DOMAIN s = 1..n
    OBVIOUS
  <2> HIDE DEF s
  <2>2. \A i, j \in DOMAIN s : i < j => s[i].batch < s[j].batch
    BY <1>7, <2>1
  <2> QED
    BY <1>6, <2>2 DEF SmallestBatchFirst, n
<1> HIDE DEF t
<1>9. t = [i \in 1..n |-> t[i]]
  BY <1>8
<1>10. IsList(t) /\ Len(t) = n
  BY <1>1, <1>9, FamilyList
<1>11. \A i \in 1..Len(t) : t[i] \in graphs
  BY <1>8, <1>10
<1> QED
  BY <1>10, <1>11 DEF t

\* The static graphs found are files for batches of one or more, one for each size.
LEMMA GraphFacts ==
    ASSUME NEW dir
    PROVE  /\ IsFiniteSet(StaticGraphs(dir))
           /\ \A f \in StaticGraphs(dir) : f.batch \in Nat /\ f.batch # 0
           /\ \A f, g \in StaticGraphs(dir) : f # g => f.batch # g.batch
<1> DEFINE G == StaticGraphs(dir)
           E == {f \in Files : f.dir = dir /\ f.name = "model_quantized_static_b" /\ f.batch > 0}
           R == [dir : {f.dir : f \in Files}, name : {f.name : f \in Files}, batch : Nat]
<1>1. \A f \in G : /\ f \in Files /\ f.dir = dir
                   /\ \/ f \in E
                      \/ f.name = "model_quantized_static" /\ \A e \in E : e.batch # 1
  BY DEF StaticGraphs
<1>2. \A f \in Files : f \in R
  BY StartupAssumption
<1>3. IsFiniteSet(G)
  <2>1. G \subseteq Files
    BY <1>1
  <2> QED
    BY <2>1, FilesAssumption, FS_Subset
<1>4. \A f \in E : f \in Files /\ f.name = "model_quantized_static_b" /\ f.batch > 0
  OBVIOUS
<1> HIDE DEF G, E
<1>5. ASSUME NEW f \in G PROVE f.batch \in Nat /\ f.batch # 0
  <2>1. f.batch \in Nat
    BY <1>1, <1>2
  <2>2. CASE f \in E
    BY <2>1, <2>2, <1>4
  <2>3. CASE f.name = "model_quantized_static"
    BY <2>1, <2>3, <1>1, FilesAssumption
  <2> QED
    BY <2>1, <2>2, <2>3, <1>1
<1>6. ASSUME NEW f \in G, NEW g \in G, f.batch = g.batch PROVE f = g
  <2>1. f \in R /\ g \in R /\ f.dir = g.dir
    BY <1>1, <1>2
  <2>2. f.name = g.name
    <3>1. CASE f \in E /\ g \in E
      BY <3>1, <1>4
    <3>2. CASE f \notin E /\ g \notin E
      BY <3>2, <1>1
    <3>3. CASE f \in E /\ g \notin E
      BY <3>3, <1>1, <1>6, FilesAssumption
    <3>4. CASE f \notin E /\ g \in E
      BY <3>4, <1>1, <1>6, FilesAssumption
    <3> QED
      BY <3>1, <3>2, <3>3, <3>4
  <2> QED
    BY <2>1, <2>2, <1>6
<1> QED
  BY <1>3, <1>5, <1>6 DEF G

\* discover_static_shape_files gives a list of static graphs.
LEMMA Discovered ==
    ASSUME NEW dir
    PROVE  /\ IsList(discover_static_shape_files(dir))
           /\ \A i \in 1..Len(discover_static_shape_files(dir)) :
                  discover_static_shape_files(dir)[i].batch # 0
<1> DEFINE G == StaticGraphs(dir)
<1>1. IsFiniteSet(G) /\ (\A f \in G : f.batch \in Nat /\ f.batch # 0)
      /\ \A f, g \in G : f # g => f.batch # g.batch
  BY GraphFacts
<1> HIDE DEF G
<1>2. /\ IsList(SmallestBatchFirst(G))
      /\ \A i \in 1..Len(SmallestBatchFirst(G)) : SmallestBatchFirst(G)[i] \in G
  BY <1>1, SortedGraphs
<1> QED
  BY <1>1, <1>2 DEF discover_static_shape_files, G

\* What a load leaves to do: one dynamic pool of the size asked for, then static ones.
GoodLoad(l, kind, name, size) ==
    /\ IsList(l) /\ Len(l) >= 1
    /\ \A k \in 1..Len(l) : /\ l[k].do = "pool" /\ l[k].kind = kind /\ l[k].name = name
                            /\ l[k].file.batch = 0 <=> k = 1
    /\ l[1].size = size

\* The same pools, but for their sizes.
SamePools(l, m) ==
    /\ Len(l) = Len(m)
    /\ \A k \in 1..Len(l) : /\ l[k].do = m[k].do /\ l[k].kind = m[k].kind /\ l[k].name = m[k].name
                            /\ l[k].file = m[k].file /\ l[k].options = m[k].options

\* The parts of a job.
LEMMA PoolParts ==
    ASSUME NEW kind, NEW name, NEW file, NEW size, NEW options, NEW j,
           j = Pool(kind, name, file, size, options)
    PROVE  /\ j.do = "pool" /\ j.kind = kind /\ j.name = name /\ j.file = file
           /\ j.options = options /\ (size # 0 => j.size = size)
BY DEF Pool

\* A load of one pool.
LEMMA OnePool ==
    ASSUME NEW kind, NEW name, NEW file, file.batch = 0, NEW n, NEW m, NEW options
    PROVE  /\ n # 0 => GoodLoad(<<Pool(kind, name, file, n, options)>>, kind, name, n)
           /\ SamePools(<<Pool(kind, name, file, n, options)>>, <<Pool(kind, name, file, m, options)>>)
<1> DEFINE j == Pool(kind, name, file, n, options)
           l == Pool(kind, name, file, m, options)
<1>1. /\ j.do = "pool" /\ j.kind = kind /\ j.name = name /\ j.file = file /\ j.options = options
      /\ n # 0 => j.size = n
      /\ l.do = "pool" /\ l.kind = kind /\ l.name = name /\ l.file = file /\ l.options = options
  BY PoolParts
<1> HIDE DEF j, l
<1>2. /\ IsList(<<j>>) /\ Len(<<j>>) = 1 /\ <<j>>[1] = j
      /\ Len(<<l>>) = 1 /\ <<l>>[1] = l
  BY OneEntry
<1>3. \A k \in 1..1 : k = 1
  OBVIOUS
<1>4. n # 0 => GoodLoad(<<j>>, kind, name, n)
  BY <1>1, <1>2, <1>3 DEF GoodLoad
<1>5. SamePools(<<j>>, <<l>>)
  BY <1>1, <1>2, <1>3 DEF SamePools
<1> QED
  BY <1>4, <1>5 DEF j, l

\* EmbedModel::load.
LEMMA EmbedLoads ==
    ASSUME NEW e, NEW def, NEW t, NEW a, NEW n, NEW m, NEW secs
    PROVE  /\ n # 0 => GoodLoad(EmbedModel_load(e, def, t, a, n, secs), "embed", def.name, n)
           /\ SamePools(EmbedModel_load(e, def, t, a, n, secs), EmbedModel_load(e, def, t, a, m, secs))
<1> DEFINE file == [dir |-> def.dir, name |-> def.onnx_filename, batch |-> 0]
           options == [Common(e, t, def.memory_pattern, a, def.max_len) EXCEPT
               !.idle_evict_secs = secs,
               !.shrink = arena_shrink_enabled_for_model(e, def.name, def.memory_pattern),
               !.ratio  = resolve_subbatch_ratio(e, def.name)]
<1>1. file.batch = 0
  OBVIOUS
<1>2. /\ EmbedModel_load(e, def, t, a, n, secs) = <<Pool("embed", def.name, file, n, options)>>
      /\ EmbedModel_load(e, def, t, a, m, secs) = <<Pool("embed", def.name, file, m, options)>>
  BY DEF EmbedModel_load
<1> HIDE DEF file, options
<1> QED
  BY <1>1, <1>2, OnePool

\* SpladeModel::load.
LEMMA SpladeLoads ==
    ASSUME NEW e, NEW def, NEW t, NEW n, NEW m
    PROVE  /\ n # 0 => GoodLoad(SpladeModel_load(e, def, t, n), "splade", def.name, n)
           /\ SamePools(SpladeModel_load(e, def, t, n), SpladeModel_load(e, def, t, m))
<1> DEFINE file == [dir |-> def.dir, name |-> "model.onnx", batch |-> 0]
           options == Common(e, t, parse_memory_pattern(VarFor(e, "EMBED_MEMORY_PATTERN", EnvKey(def.name))),
                             TRUE, def.max_len)
<1>1. file.batch = 0
  OBVIOUS
<1>2. /\ SpladeModel_load(e, def, t, n) = <<Pool("splade", def.name, file, n, options)>>
      /\ SpladeModel_load(e, def, t, m) = <<Pool("splade", def.name, file, m, options)>>
  BY DEF SpladeModel_load
<1> HIDE DEF file, options
<1> QED
  BY <1>1, <1>2, OnePool

\* RerankerModel::load, with its static pools.
LEMMA RerankLoads ==
    ASSUME NEW e, NEW def, NEW t, NEW n, NEW m
    PROVE  /\ n # 0 => GoodLoad(RerankerModel_load(e, def, t, n), "rerank", def.name, n)
           /\ SamePools(RerankerModel_load(e, def, t, n), RerankerModel_load(e, def, t, m))
<1> DEFINE file == [dir |-> def.dir, name |-> "model_quantized.onnx", batch |-> 0]
           options == [Common(e, t, parse_memory_pattern(VarFor(e, "EMBED_MEMORY_PATTERN", EnvKey(def.name))),
                              TRUE, def.max_len) EXCEPT !.padded_model = def.padded_model]
           static == discover_static_shape_files(def.dir)
           j == Pool("rerank", def.name, file, n, options)
           l == Pool("rerank", def.name, file, m, options)
           rest == StaticPools(def.name, static, options)
<1>1. file.batch = 0
  OBVIOUS
<1>2. RerankerModel_load(e, def, t, n) = <<j>> \o rest /\ RerankerModel_load(e, def, t, m) = <<l>> \o rest
  BY DEF RerankerModel_load
<1>3. IsList(static) /\ \A i \in 1..Len(static) : static[i].batch # 0
  BY Discovered
<1> HIDE DEF file, options, static
<1>4. /\ j.do = "pool" /\ j.kind = "rerank" /\ j.name = def.name /\ j.file = file /\ j.options = options
      /\ n # 0 => j.size = n
      /\ l.do = "pool" /\ l.kind = "rerank" /\ l.name = def.name /\ l.file = file /\ l.options = options
  BY PoolParts
<1> HIDE DEF j, l
<1>5. Len(static) \in Nat /\ DOMAIN static = 1..Len(static)
  BY <1>3, ListPlaces
<1>6. \A i \in 1..Len(static) :
          rest[i] = Pool("rerank", def.name, static[i], StaticPoolSizePerShape, options)
  BY <1>5 DEF StaticPools
<1>7. rest = [i \in 1..Len(static) |-> rest[i]]
  BY <1>5 DEF StaticPools
<1> HIDE DEF rest
<1>8. IsList(rest) /\ Len(rest) = Len(static)
  BY <1>5, <1>7, FamilyList
<1>9. \A i \in 1..Len(rest) : /\ rest[i].do = "pool" /\ rest[i].kind = "rerank"
                              /\ rest[i].name = def.name /\ rest[i].file.batch # 0
  BY <1>3, <1>6, <1>8, PoolParts
<1>10. /\ IsList(<<j>>) /\ Len(<<j>>) = 1 /\ <<j>>[1] = j
       /\ IsList(<<l>>) /\ Len(<<l>>) = 1 /\ <<l>>[1] = l
  BY OneEntry
<1> DEFINE u == <<j>> \o rest
           v == <<l>> \o rest
<1>11. /\ IsList(u) /\ Len(u) = 1 + Len(rest) /\ u[1] = j
       /\ \A i \in 1..Len(rest) : u[1 + i] = rest[i]
       /\ Len(v) = 1 + Len(rest) /\ v[1] = l
       /\ \A i \in 1..Len(rest) : v[1 + i] = rest[i]
  <2>1. 1 \in 1..1
    OBVIOUS
  <2> QED
    BY <1>8, <1>10, <2>1, JoinedLists
<1> HIDE DEF u, v
<1>12. \A k \in 1..Len(u) : k = 1 \/ (k # 1 /\ k - 1 \in 1..Len(rest) /\ k = 1 + (k - 1))
  BY <1>5, <1>8, <1>11
<1>13. /\ u[1].do = "pool" /\ u[1].kind = "rerank" /\ u[1].name = def.name /\ u[1].file.batch = 0
       /\ n # 0 => u[1].size = n
       /\ v[1].do = u[1].do /\ v[1].kind = u[1].kind /\ v[1].name = u[1].name
       /\ v[1].file = u[1].file /\ v[1].options = u[1].options
  BY <1>1, <1>4, <1>11
<1>14. ASSUME NEW k \in 1..Len(u), k # 1
       PROVE  /\ u[k] = v[k] /\ u[k].do = "pool" /\ u[k].kind = "rerank" /\ u[k].name = def.name
              /\ u[k].file.batch # 0
  <2> DEFINE i == k - 1
  <2>1. i \in 1..Len(rest) /\ k = 1 + i
    BY <1>12, <1>14
  <2> HIDE DEF i
  <2>2. u[k] = rest[i] /\ v[k] = rest[i]
    BY <2>1, <1>11
  <2> QED
    BY <2>1, <2>2, <1>9
<1>15. n # 0 => GoodLoad(u, "rerank", def.name, n)
  <2>1. Len(u) >= 1
    BY <1>5, <1>8, <1>11
  <2> QED
    BY <2>1, <1>11, <1>13, <1>14 DEF GoodLoad
<1>16. SamePools(u, v)
  BY <1>11, <1>13, <1>14 DEF SamePools
<1> QED
  BY <1>2, <1>15, <1>16 DEF u, v

\* What is collected from a list, if it is accepted, is a list.
LEMMA CollectedList ==
    ASSUME NEW e, IsList(e), NEW f, f = [i \in DOMAIN e |-> f[i]], Collected(f) # Err
    PROVE  IsList(Collected(f))
<1>1. Collected(f) = f
  BY DEF Collected
<1>2. Len(e) \in Nat /\ DOMAIN e = 1..Len(e)
  BY ListPlaces
<1> QED
  BY <1>1, <1>2, FamilyList

\* A configuration that from_env accepts.
LEMMA Accepted ==
    ASSUME NEW e \in Environments, from_env(e) # Err
    PROVE  /\ IsList(from_env(e).models) /\ IsList(from_env(e).rerankers) /\ IsList(from_env(e).splades)
           /\ Named(from_env(e).models, from_env(e).default_model)
           /\ from_env(e).pools = PoolSizes(e)
<1> DEFINE cfg == from_env(e)
           ms == Entries(e.models)
           rs == Entries(e.rerankers)
           ss == Entries(e.splades)
           F == [i \in DOMAIN ms |-> parse_one_model(e, ms[i], GlobalWarmup(e))]
           G == [i \in DOMAIN rs |-> parse_one_reranker(rs[i])]
           H == [i \in DOMAIN ss |-> parse_one_splade(ss[i])]
<1>1. ~Rejected(e, parse_models_with_globals(e), parse_rerankers(e), parse_splades(e))
  BY DEF from_env
<1>2. /\ cfg.models = parse_models_with_globals(e) /\ cfg.rerankers = parse_rerankers(e)
      /\ cfg.splades = parse_splades(e) /\ cfg.default_model = DefaultModel(e, parse_models_with_globals(e))
      /\ cfg.pools = PoolSizes(e)
  BY <1>1 DEF from_env
<1>3. /\ parse_models_with_globals(e) # Err /\ parse_rerankers(e) # Err /\ parse_splades(e) # Err
      /\ Named(parse_models_with_globals(e), DefaultModel(e, parse_models_with_globals(e)))
  BY <1>1 DEF Rejected
<1>4. /\ parse_models_with_globals(e) = Collected(F) /\ parse_rerankers(e) = Collected(G)
      /\ parse_splades(e) = Collected(H)
  BY DEF parse_models_with_globals, parse_rerankers, parse_splades
<1>5. ASSUME NEW list \in {e.models, e.rerankers, e.splades} PROVE IsList(Entries(list))
  <2>1. list # Unset => list \in Seq(Range(list))
    BY EnvironmentsAssumption
  <2>2. list # Unset => IsList(list)
    BY <2>1 DEF IsList
  <2> QED
    BY <2>2, EntriesList
<1>6. IsList(ms) /\ IsList(rs) /\ IsList(ss)
  BY <1>5
<1>7. F = [i \in DOMAIN ms |-> F[i]] /\ G = [i \in DOMAIN rs |-> G[i]] /\ H = [i \in DOMAIN ss |-> H[i]]
  OBVIOUS
<1> HIDE DEF F, G, H, ms, rs, ss, cfg
<1>8. IsList(Collected(F)) /\ IsList(Collected(G)) /\ IsList(Collected(H))
  BY <1>3, <1>4, <1>6, <1>7, CollectedList
<1> QED
  BY <1>2, <1>3, <1>4, <1>8 DEF cfg

\* PositiveOr never gives zero.
LEMMA Positive ==
    ASSUME NEW raw, NEW d \in Nat \ {0}
    PROVE  PositiveOr(raw, d) \in Nat \ {0}
<1>1. CASE TrimmedOr(raw, 0) = 0
  BY <1>1 DEF PositiveOr
<1>2. CASE TrimmedOr(raw, 0) # 0
  <2>1. TrimmedOr(raw, 0) = raw.text /\ Trimmed(raw, Usize) # Err
    BY <1>2 DEF TrimmedOr
  <2>2. raw.text \in Nat
    BY <2>1 DEF Trimmed, Number
  <2> QED
    BY <1>2, <2>1, <2>2 DEF PositiveOr
<1> QED
  BY <1>1, <1>2

\* The first model of a name.
LEMMA Found ==
    ASSUME NEW defs, IsList(defs), NEW name, Named(defs, name)
    PROVE  \E k \in 1..Len(defs) : Find(defs, name) = defs[k] /\ defs[k].name = name
<1> DEFINE T == {i \in DOMAIN defs : defs[i].name = name}
<1>1. Len(defs) \in Nat /\ DOMAIN defs = 1..Len(defs)
  BY ListPlaces
<1>2. T # {} /\ T \subseteq Nat
  BY <1>1 DEF Named
<1>3. PICK i \in T : \A j \in T : i <= j
  <2> HIDE DEF T
  <2> QED
    BY <1>2, Least
<1>4. \A j \in 1..(i - 1) : j \in DOMAIN defs /\ j \notin T
  BY <1>1, <1>3
<1>5. i \in DOMAIN defs /\ defs[i].name = name /\ \A j \in 1..(i - 1) : defs[j].name # name
  BY <1>3, <1>4
<1> DEFINE k == CHOOSE x \in DOMAIN defs : defs[x].name = name /\ \A j \in 1..(x - 1) : defs[j].name # name
<1>6. k \in DOMAIN defs /\ defs[k].name = name
  BY <1>5
<1>7. Find(defs, name) = defs[k]
  BY DEF Find
<1> HIDE DEF k
<1> QED
  BY <1>1, <1>6, <1>7

\* No step makes a model file come or go.
SameFiles == \A f \in Files : source'[f] > 0 <=> source[f] > 0

\* discover_static_shape_files finds the same graphs as long as no file comes or goes.
LEMMA GraphsStay ==
    ASSUME SameFiles
    PROVE  \A dir : discover_static_shape_files(dir)' = discover_static_shape_files(dir)
<1> SUFFICES ASSUME NEW CONSTANT dir
             PROVE discover_static_shape_files(dir)' = discover_static_shape_files(dir)
  OBVIOUS
<1> DEFINE explicit == {f \in Files : f.dir = dir /\ f.name = "model_quantized_static_b" /\ f.batch > 0}
           legacy == {f \in Files : /\ f.dir = dir /\ f.name = "model_quantized_static"
                                    /\ \A e \in explicit : e.batch # 1}
           all == explicit \cup legacy
<1>1. all \subseteq Files
  OBVIOUS
<1>2. StaticGraphs(dir) = {f \in all : source[f] > 0} /\ StaticGraphs(dir)' = {f \in all : source'[f] > 0}
  BY DEF StaticGraphs
<1> HIDE DEF all
<1>3. StaticGraphs(dir)' = StaticGraphs(dir)
  BY <1>1, <1>2 DEF SameFiles
<1> QED
  BY <1>3 DEF discover_static_shape_files

\* WorkerPlan depends on the state only through the environment and the files there are.
LEMMA PlanStays ==
    ASSUME SameFiles, env' = env, NEW CONSTANT w
    PROVE  WorkerPlan(env, from_env(env), SpawnSpecs(env, from_env(env))[w])'
         = WorkerPlan(env, from_env(env), SpawnSpecs(env, from_env(env))[w])
<1> DEFINE cfg == from_env(env)
           spec == SpawnSpecs(env, from_env(env))[w]
<1>1. cfg' = cfg /\ spec' = spec
  OBVIOUS
<1>2. \A d : discover_static_shape_files(d)' = discover_static_shape_files(d)
  BY GraphsStay
<1> QED
  BY <1>1, <1>2 DEF WorkerPlan, StandaloneEmbedder_load, StandaloneReranker_load, StandaloneSplade_load, RerankerModel_load

\* A worker is asked for a model of the configuration.
SpecIn(spec, cfg) ==
    /\ spec.pool_size \in Nat \ {0}
    /\ \/ /\ spec.kind = "embed" /\ Named(cfg.models, spec.model)
          /\ spec.intra_threads = cfg.pools.intra_threads
       \/ /\ spec.kind = "rerank" /\ Named(cfg.rerankers, spec.model)
          /\ spec.intra_threads = cfg.pools.reranker_intra_threads
       \/ /\ spec.kind = "splade" /\ Named(cfg.splades, spec.model)
          /\ spec.intra_threads = cfg.pools.splade_intra_threads

\* The workers of a configuration.
LEMMA SpecsAre ==
    ASSUME NEW e \in Environments, from_env(e) # Err
    PROVE  /\ AllOf(from_env(e)) \in Nat
           /\ DOMAIN SpawnSpecs(e, from_env(e)) = 1..AllOf(from_env(e))
           /\ \A i \in 1..AllOf(from_env(e)) : SpecIn(SpawnSpecs(e, from_env(e))[i], from_env(e))
           /\ \E i \in 1..AllOf(from_env(e)) :
                  /\ SpawnSpecs(e, from_env(e))[i].kind = "embed"
                  /\ SpawnSpecs(e, from_env(e))[i].model = from_env(e).default_model
<1> DEFINE cfg == from_env(e)
           A == [i \in DOMAIN cfg.models |->
                  [kind |-> "embed", model |-> cfg.models[i].name,
                   pool_size |-> resolve_embed_pool_size_for_model(e, cfg.models[i].name),
                   intra_threads |-> cfg.pools.intra_threads]]
           B == [i \in DOMAIN cfg.rerankers |->
                  [kind |-> "rerank", model |-> cfg.rerankers[i].name,
                   pool_size |-> cfg.pools.reranker_pool_size,
                   intra_threads |-> cfg.pools.reranker_intra_threads]]
           C == [i \in DOMAIN cfg.splades |->
                  [kind |-> "splade", model |-> cfg.splades[i].name,
                   pool_size |-> cfg.pools.splade_pool_size,
                   intra_threads |-> cfg.pools.splade_intra_threads]]
<1>1. /\ IsList(cfg.models) /\ IsList(cfg.rerankers) /\ IsList(cfg.splades)
      /\ Named(cfg.models, cfg.default_model) /\ cfg.pools = PoolSizes(e)
  BY Accepted
<1>2. SpawnSpecs(e, cfg) = A \o B \o C
  BY DEF SpawnSpecs
<1>3. cfg.pools.reranker_pool_size \in Nat \ {0} /\ cfg.pools.splade_pool_size \in Nat \ {0}
  BY <1>1, Positive DEF PoolSizes, parse_reranker_pool_size, parse_splade_pool_size
<1>4. \A name : resolve_embed_pool_size_for_model(e, name) \in Nat \ {0}
  BY Positive DEF resolve_embed_pool_size_for_model, parse_embed_pool_size
<1> HIDE DEF cfg
<1>5. /\ Len(cfg.models) \in Nat /\ DOMAIN cfg.models = 1..Len(cfg.models)
      /\ Len(cfg.rerankers) \in Nat /\ DOMAIN cfg.rerankers = 1..Len(cfg.rerankers)
      /\ Len(cfg.splades) \in Nat /\ DOMAIN cfg.splades = 1..Len(cfg.splades)
  BY <1>1, ListPlaces
<1>6. /\ \A i \in 1..Len(cfg.models) : /\ A[i].kind = "embed" /\ A[i].model = cfg.models[i].name
                                       /\ A[i].pool_size = resolve_embed_pool_size_for_model(e, cfg.models[i].name)
                                       /\ A[i].intra_threads = cfg.pools.intra_threads
      /\ \A i \in 1..Len(cfg.rerankers) : /\ B[i].kind = "rerank" /\ B[i].model = cfg.rerankers[i].name
                                          /\ B[i].pool_size = cfg.pools.reranker_pool_size
                                          /\ B[i].intra_threads = cfg.pools.reranker_intra_threads
      /\ \A i \in 1..Len(cfg.splades) : /\ C[i].kind = "splade" /\ C[i].model = cfg.splades[i].name
                                        /\ C[i].pool_size = cfg.pools.splade_pool_size
                                        /\ C[i].intra_threads = cfg.pools.splade_intra_threads
  BY <1>5
<1>7. /\ A = [i \in 1..Len(cfg.models) |-> A[i]] /\ B = [i \in 1..Len(cfg.rerankers) |-> B[i]]
      /\ C = [i \in 1..Len(cfg.splades) |-> C[i]]
  BY <1>5
<1> HIDE DEF A, B, C
<1>8. /\ IsList(A) /\ Len(A) = Len(cfg.models) /\ IsList(B) /\ Len(B) = Len(cfg.rerankers)
      /\ IsList(C) /\ Len(C) = Len(cfg.splades)
  BY <1>5, <1>7, FamilyList
<1> DEFINE s == A \o B \o C
<1>9. /\ IsList(s) /\ Len(s) = Len(A) + Len(B) + Len(C)
      /\ \A i \in 1..Len(A) : s[i] = A[i]
      /\ \A i \in 1..Len(s) : \/ \E k \in 1..Len(A) : s[i] = A[k]
                              \/ \E k \in 1..Len(B) : s[i] = B[k]
                              \/ \E k \in 1..Len(C) : s[i] = C[k]
  <2>1. IsList(A) /\ IsList(B) /\ IsList(C)
    BY <1>8
  <2> QED
    BY <2>1, ThreeLists
<1> HIDE DEF s
<1>10. AllOf(cfg) \in Nat /\ Len(s) = AllOf(cfg) /\ DOMAIN s = 1..AllOf(cfg)
  BY <1>5, <1>8, <1>9, ListPlaces DEF AllOf
<1>11. ASSUME NEW i \in 1..Len(s) PROVE SpecIn(s[i], cfg)
  <2>1. CASE \E k \in 1..Len(A) : s[i] = A[k]
    <3>1. PICK k \in 1..Len(cfg.models) : s[i] = A[k]
      BY <2>1, <1>8
    <3>2. k \in DOMAIN cfg.models
      BY <1>5
    <3>3. s[i].pool_size \in Nat \ {0}
      BY <3>1, <1>4, <1>6
    <3>4. /\ s[i].kind = "embed" /\ s[i].model = cfg.models[k].name
          /\ s[i].intra_threads = cfg.pools.intra_threads
      BY <3>1, <1>6
    <3> QED
      BY <3>2, <3>3, <3>4 DEF SpecIn, Named
  <2>2. CASE \E k \in 1..Len(B) : s[i] = B[k]
    BY <2>2, <1>3, <1>5, <1>6, <1>8 DEF SpecIn, Named
  <2>3. CASE \E k \in 1..Len(C) : s[i] = C[k]
    BY <2>3, <1>3, <1>5, <1>6, <1>8 DEF SpecIn, Named
  <2> QED
    BY <2>1, <2>2, <2>3, <1>9
<1>12. \E i \in 1..Len(s) : s[i].kind = "embed" /\ s[i].model = cfg.default_model
  <2>1. PICK i \in 1..Len(cfg.models) : cfg.models[i].name = cfg.default_model
    BY <1>1, <1>5 DEF Named
  <2>2. i \in 1..Len(s)
    <3> DEFINE x == Len(cfg.models)
               y == Len(cfg.rerankers)
               z == Len(cfg.splades)
    <3>1. x \in Nat /\ y \in Nat /\ z \in Nat /\ Len(s) = x + y + z /\ i \in 1..x
      BY <1>5, <1>8, <1>9
    <3> HIDE DEF x, y, z
    <3> QED
      BY <3>1
  <2>3. i \in 1..Len(A) /\ A[i].kind = "embed" /\ A[i].model = cfg.models[i].name
    BY <1>6, <1>8
  <2>4. s[i] = A[i]
    BY <2>3, <1>9
  <2> QED
    BY <2>1, <2>2, <2>3, <2>4
<1> QED
  BY <1>2, <1>10, <1>11, <1>12 DEF cfg, s

\* Every entry of the one list is an entry of the other.
Within(l, m) == \A k \in 1..Len(l) : \E j \in 1..Len(m) : m[j] = l[k]

\* What the server loads for a list of models, one after the other.
LEMMA Flattened ==
    ASSUME NEW f, NEW defs, IsList(defs), f = [i \in DOMAIN defs |-> f[i]],
           NEW g, NEW h, \A i \in 1..Len(defs) : IsList(g[i]) /\ IsList(h[i]) /\ f[i] = g[i] \o h[i]
    PROVE  /\ IsList(FlattenSeq(f))
           /\ \A i \in 1..Len(defs) : Within(g[i], FlattenSeq(f))
<1>1. Len(defs) \in Nat /\ DOMAIN defs = 1..Len(defs)
  BY ListPlaces
<1>2. IsList(f) /\ Len(f) = Len(defs)
  BY <1>1, FamilyList
<1>3. \A i \in 1..Len(f) : IsList(f[i])
  <2>1. ASSUME NEW i \in 1..Len(defs) PROVE IsList(f[i])
    <3>1. IsList(g[i]) /\ IsList(h[i]) /\ f[i] = g[i] \o h[i]
      OBVIOUS
    <3>2. IsList(g[i] \o h[i])
      BY <3>1, JoinedLists
    <3> QED
      BY <3>1, <3>2
  <2> QED
    BY <1>2, <2>1
<1>4. /\ IsList(FlattenSeq(f))
      /\ \A i \in 1..Len(f) : \A k \in 1..Len(f[i]) : \E j \in 1..Len(FlattenSeq(f)) : FlattenSeq(f)[j] = f[i][k]
  BY <1>2, <1>3, FlatList
<1>5. ASSUME NEW i \in 1..Len(defs) PROVE Within(g[i], FlattenSeq(f))
  <2>1. /\ Len(g[i]) \in Nat /\ Len(h[i]) \in Nat /\ Len(f[i]) = Len(g[i]) + Len(h[i])
        /\ \A k \in 1..Len(g[i]) : f[i][k] = g[i][k]
    <3> DEFINE a == g[i]
               b == h[i]
    <3>1. IsList(a) /\ IsList(b) /\ f[i] = a \o b
      OBVIOUS
    <3> HIDE DEF a, b
    <3>2. /\ Len(a) \in Nat /\ Len(b) \in Nat /\ Len(a \o b) = Len(a) + Len(b)
          /\ \A k \in 1..Len(a) : (a \o b)[k] = a[k]
      BY <3>1, JoinedLists, ListPlaces
    <3> QED
      BY <3>1, <3>2 DEF a, b
  <2>2. \A k \in 1..Len(g[i]) : k \in 1..Len(f[i])
    <3> DEFINE x == Len(g[i])
               y == Len(h[i])
               z == Len(f[i])
    <3>1. x \in Nat /\ y \in Nat /\ z = x + y
      BY <2>1
    <3> HIDE DEF x, y, z
    <3>2. \A k \in 1..x : k \in 1..z
      BY <3>1
    <3> QED
      BY <3>2 DEF x, y, z
  <2> QED
    BY <1>2, <1>4, <2>1, <2>2 DEF Within
<1> QED
  BY <1>4, <1>5

\* What is in one of two lists is in both together.
LEMMA WithinJoined ==
    ASSUME NEW a, NEW b, IsList(a), IsList(b), NEW l, Within(l, a) \/ Within(l, b)
    PROVE  Within(l, a \o b)
<1> DEFINE s == a \o b
           n == Len(a)
           m == Len(b)
<1>1. n \in Nat /\ m \in Nat
  BY ListPlaces
<1>2. /\ Len(s) = n + m
      /\ \A i \in 1..n : s[i] = a[i]
      /\ \A i \in 1..m : s[n + i] = b[i]
  BY JoinedLists
<1> HIDE DEF s, n, m
<1>3. /\ \A i \in 1..n : i \in 1..Len(s)
      /\ \A i \in 1..m : n + i \in 1..Len(s)
  BY <1>1, <1>2
<1>4. ASSUME NEW k \in 1..Len(l) PROVE \E j \in 1..Len(s) : s[j] = l[k]
  <2>1. CASE \E i \in 1..n : a[i] = l[k]
    BY <2>1, <1>2, <1>3
  <2>2. CASE \E i \in 1..m : b[i] = l[k]
    BY <2>2, <1>2, <1>3
  <2> QED
    BY <2>1, <2>2 DEF Within, n, m
<1> QED
  BY <1>4 DEF Within, s

\* What the server does in one process has every load of every model in it.
LEMMA ServerHas ==
    ASSUME NEW e \in Environments, from_env(e) # Err, NEW cfg, cfg = from_env(e)
    PROVE  /\ IsList(ServerPlan(e, cfg))
           /\ \A i \in 1..Len(cfg.models) :
                  Within(EmbedModel_load(e, cfg.models[i], cfg.pools.intra_threads,
                             cfg.batching.auto_truncate, cfg.pools.embed_pool_size,
                             cfg.idle_evict_secs), ServerPlan(e, cfg))
           /\ \A i \in 1..Len(cfg.rerankers) :
                  Within(RerankerModel_load(e, cfg.rerankers[i], cfg.pools.reranker_intra_threads,
                             cfg.pools.reranker_pool_size), ServerPlan(e, cfg))
           /\ \A i \in 1..Len(cfg.splades) :
                  Within(SpladeModel_load(e, cfg.splades[i], cfg.pools.splade_intra_threads,
                             cfg.pools.splade_pool_size), ServerPlan(e, cfg))
<1> DEFINE LA(i) == EmbedModel_load(e, cfg.models[i], cfg.pools.intra_threads,
                             cfg.batching.auto_truncate, cfg.pools.embed_pool_size,
                             cfg.idle_evict_secs)
           WA(i) == Warm("embed", cfg.models[i].name, ShapesAt(cfg.warmups.embed_warmup_batch_sizes,
                             cfg.models[i].warmup_seq_len, cfg.models[i].max_len))
           LB(i) == RerankerModel_load(e, cfg.rerankers[i], cfg.pools.reranker_intra_threads,
                             cfg.pools.reranker_pool_size)
           WB(i) == Warm("rerank", cfg.rerankers[i].name, ShapesAt(cfg.warmups.rerank_warmup_batch_sizes,
                             cfg.warmups.embed_warmup_seq_len, cfg.rerankers[i].max_len))
           LC(i) == SpladeModel_load(e, cfg.splades[i], cfg.pools.splade_intra_threads,
                             cfg.pools.splade_pool_size)
           WC(i) == Warm("splade", cfg.splades[i].name, SpladeShapes(cfg.warmups.splade_warmup_batch_sizes))
           A == [i \in DOMAIN cfg.models |-> LA(i) \o WA(i)]
           B == [i \in DOMAIN cfg.rerankers |-> LB(i) \o WB(i)]
           C == [i \in DOMAIN cfg.splades |-> LC(i) \o WC(i)]
           b == <<[do |-> "batchers"]>>
<1>1. /\ IsList(cfg.models) /\ IsList(cfg.rerankers) /\ IsList(cfg.splades)
      /\ cfg.pools = PoolSizes(e)
  BY Accepted
<1>2. ServerPlan(e, cfg) = FlattenSeq(A) \o b \o FlattenSeq(B) \o FlattenSeq(C)
  BY DEF ServerPlan
<1>3. /\ cfg.pools.embed_pool_size # 0 /\ cfg.pools.reranker_pool_size # 0 /\ cfg.pools.splade_pool_size # 0
  BY <1>1, Positive DEF PoolSizes, parse_reranker_pool_size, parse_splade_pool_size, parse_embed_pool_size
<1>4. \A i : IsList(LA(i)) /\ IsList(LB(i)) /\ IsList(LC(i))
  BY <1>3, EmbedLoads, RerankLoads, SpladeLoads DEF GoodLoad
<1>5. \A i : IsList(WA(i)) /\ IsList(WB(i)) /\ IsList(WC(i))
  BY OneEntry DEF Warm
<1>6. IsList(b)
  BY OneEntry
<1> HIDE DEF LA, LB, LC, WA, WB, WC, b
<1>7. /\ Len(cfg.models) \in Nat /\ DOMAIN cfg.models = 1..Len(cfg.models)
      /\ Len(cfg.rerankers) \in Nat /\ DOMAIN cfg.rerankers = 1..Len(cfg.rerankers)
      /\ Len(cfg.splades) \in Nat /\ DOMAIN cfg.splades = 1..Len(cfg.splades)
  BY <1>1, ListPlaces
<1> DEFINE gA == [i \in DOMAIN cfg.models |-> LA(i)]
           hA == [i \in DOMAIN cfg.models |-> WA(i)]
           gB == [i \in DOMAIN cfg.rerankers |-> LB(i)]
           hB == [i \in DOMAIN cfg.rerankers |-> WB(i)]
           gC == [i \in DOMAIN cfg.splades |-> LC(i)]
           hC == [i \in DOMAIN cfg.splades |-> WC(i)]
<1>8. IsList(FlattenSeq(A)) /\ \A i \in 1..Len(cfg.models) : Within(LA(i), FlattenSeq(A))
  <2>1. A = [i \in DOMAIN cfg.models |-> A[i]]
    OBVIOUS
  <2>2. \A i \in 1..Len(cfg.models) : gA[i] = LA(i)
    BY <1>7
  <2>3. \A i \in 1..Len(cfg.models) : IsList(gA[i]) /\ IsList(hA[i]) /\ A[i] = gA[i] \o hA[i]
    BY <1>4, <1>5, <1>7
  <2> HIDE DEF A, gA, hA
  <2>4. IsList(FlattenSeq(A)) /\ \A i \in 1..Len(cfg.models) : Within(gA[i], FlattenSeq(A))
    BY <1>1, <2>1, <2>3, Flattened
  <2> QED
    BY <2>2, <2>4
<1>9. IsList(FlattenSeq(B)) /\ \A i \in 1..Len(cfg.rerankers) : Within(LB(i), FlattenSeq(B))
  <2>1. B = [i \in DOMAIN cfg.rerankers |-> B[i]]
    OBVIOUS
  <2>2. \A i \in 1..Len(cfg.rerankers) : gB[i] = LB(i)
    BY <1>7
  <2>3. \A i \in 1..Len(cfg.rerankers) : IsList(gB[i]) /\ IsList(hB[i]) /\ B[i] = gB[i] \o hB[i]
    BY <1>4, <1>5, <1>7
  <2> HIDE DEF B, gB, hB
  <2>4. IsList(FlattenSeq(B)) /\ \A i \in 1..Len(cfg.rerankers) : Within(gB[i], FlattenSeq(B))
    BY <1>1, <2>1, <2>3, Flattened
  <2> QED
    BY <2>2, <2>4
<1>10. IsList(FlattenSeq(C)) /\ \A i \in 1..Len(cfg.splades) : Within(LC(i), FlattenSeq(C))
  <2>1. C = [i \in DOMAIN cfg.splades |-> C[i]]
    OBVIOUS
  <2>2. \A i \in 1..Len(cfg.splades) : gC[i] = LC(i)
    BY <1>7
  <2>3. \A i \in 1..Len(cfg.splades) : IsList(gC[i]) /\ IsList(hC[i]) /\ C[i] = gC[i] \o hC[i]
    BY <1>4, <1>5, <1>7
  <2> HIDE DEF C, gC, hC
  <2>4. IsList(FlattenSeq(C)) /\ \A i \in 1..Len(cfg.splades) : Within(gC[i], FlattenSeq(C))
    BY <1>1, <2>1, <2>3, Flattened
  <2> QED
    BY <2>2, <2>4
<1> DEFINE fA == FlattenSeq(A)
           fB == FlattenSeq(B)
           fC == FlattenSeq(C)
<1>11. /\ IsList(fA) /\ IsList(fB) /\ IsList(fC)
       /\ \A i \in 1..Len(cfg.models) : Within(LA(i), fA)
       /\ \A i \in 1..Len(cfg.rerankers) : Within(LB(i), fB)
       /\ \A i \in 1..Len(cfg.splades) : Within(LC(i), fC)
  BY <1>8, <1>9, <1>10
<1>12. ServerPlan(e, cfg) = fA \o b \o fB \o fC
  BY <1>2
<1> HIDE DEF fA, fB, fC
<1> DEFINE x == fA \o b
           y == x \o fB
           z == y \o fC
<1>13. IsList(x) /\ \A i \in 1..Len(cfg.models) : Within(LA(i), x)
  BY <1>6, <1>11, JoinedLists, WithinJoined
<1> HIDE DEF x
<1>14. /\ IsList(y) /\ \A i \in 1..Len(cfg.models) : Within(LA(i), y)
       /\ \A i \in 1..Len(cfg.rerankers) : Within(LB(i), y)
  BY <1>11, <1>13, JoinedLists, WithinJoined
<1> HIDE DEF y
<1>15. /\ IsList(z) /\ \A i \in 1..Len(cfg.models) : Within(LA(i), z)
       /\ \A i \in 1..Len(cfg.rerankers) : Within(LB(i), z)
       /\ \A i \in 1..Len(cfg.splades) : Within(LC(i), z)
  BY <1>11, <1>14, JoinedLists, WithinJoined
<1>16. z = ServerPlan(e, cfg)
  BY <1>12 DEF x, y
<1> HIDE DEF z
<1> QED
  BY <1>15, <1>16 DEF LA, LB, LC

\* The server would make each of these pools, but for the size.
Served(plan, all) ==
    \A k \in 1..Len(plan) : \E j \in 1..Len(all) :
        /\ all[j].do = "pool" /\ all[j].kind = plan[k].kind /\ all[j].name = plan[k].name
        /\ all[j].file = plan[k].file /\ all[j].options = plan[k].options

\* Pools that differ from some of the server's in their sizes only.
LEMMA ServedPools ==
    ASSUME NEW l, NEW m, NEW all, NEW kind, NEW name, NEW n,
           GoodLoad(l, kind, name, n), SamePools(l, m), Within(m, all)
    PROVE  Served(l, all)
<1>1. ASSUME NEW k \in 1..Len(l)
      PROVE  \E j \in 1..Len(all) :
                 /\ all[j].do = "pool" /\ all[j].kind = l[k].kind /\ all[j].name = l[k].name
                 /\ all[j].file = l[k].file /\ all[j].options = l[k].options
  <2>1. /\ k \in 1..Len(m) /\ l[k].do = "pool"
        /\ l[k].do = m[k].do /\ l[k].kind = m[k].kind /\ l[k].name = m[k].name
        /\ l[k].file = m[k].file /\ l[k].options = m[k].options
    BY DEF SamePools, GoodLoad
  <2>2. PICK j \in 1..Len(all) : all[j] = m[k]
    BY <2>1 DEF Within
  <2> QED
    BY <2>1, <2>2
<1> QED
  BY <1>1 DEF Served

\* A worker makes one dynamic pool, of its model and its size, and the pools it makes
\* are pools the server would make.
LEMMA WorkerLoadsPools ==
    ASSUME NEW e \in Environments, from_env(e) # Err, NEW cfg, cfg = from_env(e),
           NEW spec, SpecIn(spec, cfg)
    PROVE  /\ GoodLoad(WorkerPlan(e, cfg, spec), spec.kind, spec.model, spec.pool_size)
           /\ Served(WorkerPlan(e, cfg, spec), ServerPlan(e, cfg))
<1>1. IsList(cfg.models) /\ IsList(cfg.rerankers) /\ IsList(cfg.splades)
  BY Accepted
<1>2. spec.pool_size # 0
  BY DEF SpecIn
<1> DEFINE n == spec.pool_size
           plan == WorkerPlan(e, cfg, spec)
           all == ServerPlan(e, cfg)
<1>3. CASE spec.kind = "embed"
  <2>1. Named(cfg.models, spec.model) /\ spec.intra_threads = cfg.pools.intra_threads
    BY <1>3 DEF SpecIn
  <2>2. PICK k \in 1..Len(cfg.models) : Find(cfg.models, spec.model) = cfg.models[k] /\ cfg.models[k].name = spec.model
    BY <1>1, <2>1, Found
  <2> DEFINE l == EmbedModel_load(e, cfg.models[k], cfg.pools.intra_threads, cfg.batching.auto_truncate,
                                  n, cfg.idle_evict_secs)
             m == EmbedModel_load(e, cfg.models[k], cfg.pools.intra_threads, cfg.batching.auto_truncate,
                                  cfg.pools.embed_pool_size, cfg.idle_evict_secs)
  <2>3. plan = l
    BY <1>3, <2>1, <2>2 DEF WorkerPlan, StandaloneEmbedder_load
  <2>4. GoodLoad(l, "embed", spec.model, n) /\ SamePools(l, m)
    BY <1>2, <2>2, EmbedLoads
  <2>5. Within(m, all)
    BY ServerHas
  <2> HIDE DEF l, m, plan, all, n
  <2>6. Served(l, all)
    BY <2>4, <2>5, ServedPools
  <2> QED
    BY <1>3, <2>3, <2>4, <2>6 DEF plan, all, n
<1>4. CASE spec.kind = "rerank"
  <2>1. Named(cfg.rerankers, spec.model) /\ spec.intra_threads = cfg.pools.reranker_intra_threads
    BY <1>4 DEF SpecIn
  <2>2. PICK k \in 1..Len(cfg.rerankers) : Find(cfg.rerankers, spec.model) = cfg.rerankers[k] /\ cfg.rerankers[k].name = spec.model
    BY <1>1, <2>1, Found
  <2> DEFINE l == RerankerModel_load(e, cfg.rerankers[k], cfg.pools.reranker_intra_threads, n)
             m == RerankerModel_load(e, cfg.rerankers[k], cfg.pools.reranker_intra_threads,
                                     cfg.pools.reranker_pool_size)
  <2>3. plan = l
    BY <1>4, <2>1, <2>2 DEF WorkerPlan, StandaloneReranker_load
  <2>4. GoodLoad(l, "rerank", spec.model, n) /\ SamePools(l, m)
    BY <1>2, <2>2, RerankLoads
  <2>5. Within(m, all)
    BY ServerHas
  <2> HIDE DEF l, m, plan, all, n
  <2>6. Served(l, all)
    BY <2>4, <2>5, ServedPools
  <2> QED
    BY <1>4, <2>3, <2>4, <2>6 DEF plan, all, n
<1>5. CASE spec.kind = "splade"
  <2>1. Named(cfg.splades, spec.model) /\ spec.intra_threads = cfg.pools.splade_intra_threads
    BY <1>5 DEF SpecIn
  <2>2. PICK k \in 1..Len(cfg.splades) : Find(cfg.splades, spec.model) = cfg.splades[k] /\ cfg.splades[k].name = spec.model
    BY <1>1, <2>1, Found
  <2> DEFINE l == SpladeModel_load(e, cfg.splades[k], cfg.pools.splade_intra_threads, n)
             m == SpladeModel_load(e, cfg.splades[k], cfg.pools.splade_intra_threads,
                                   cfg.pools.splade_pool_size)
  <2>3. plan = l
    BY <1>5, <2>1, <2>2 DEF WorkerPlan, StandaloneSplade_load
  <2>4. GoodLoad(l, "splade", spec.model, n) /\ SamePools(l, m)
    BY <1>2, <2>2, SpladeLoads
  <2>5. Within(m, all)
    BY ServerHas
  <2> HIDE DEF l, m, plan, all, n
  <2>6. Served(l, all)
    BY <2>4, <2>5, ServedPools
  <2> QED
    BY <1>5, <2>3, <2>4, <2>6 DEF plan, all, n
<1> QED
  BY <1>3, <1>4, <1>5 DEF SpecIn

------------------------------------------------------------------------------
(* The loads.                                                               *)

\* A session of the dynamic pool of the model a worker is for, and the job that makes one.
OfSpec(s, spec) == s.kind = spec.kind /\ s.name = spec.model /\ s.own.batch = 0
JobOf(j, spec)  == j.do = "pool" /\ j.kind = spec.kind /\ j.name = spec.model /\ j.file.batch = 0

\* The model has a session in a complete pool, or its pool is still to be made: t, b and
\* s are the list of a process, how far its first job is, and its sessions.
Covers(t, b, s, spec) ==
    \/ \E i \in 1..(Len(s) - b) : OfSpec(s[i], spec)
    \/ \E j \in 1..Len(t) : JobOf(t[j], spec)

\* A pool that is in the plan.
FromPlan(plan, kind, name, file, options) ==
    \E k \in 1..Len(plan) : /\ plan[k].kind = kind /\ plan[k].name = name
                            /\ plan[k].file = file /\ plan[k].options = options

\* A worker that is making its dynamic pool, and one that has made it.
InFirst(t, b, s, spec) ==
    /\ Len(t) >= 1 /\ JobOf(t[1], spec) /\ t[1].size = spec.pool_size
    /\ \A k \in 2..Len(t) : t[k].file.batch # 0
    /\ Len(s) = b /\ b < spec.pool_size
    /\ \A i \in 1..Len(s) : OfSpec(s[i], spec)

PastFirst(t, b, s, spec) ==
    /\ \A k \in 1..Len(t) : t[k].file.batch # 0
    /\ spec.pool_size <= Len(s) - b
    /\ \A i \in 1..Len(s) : i <= spec.pool_size <=> OfSpec(s[i], spec)

\* What a worker has and what it has to do are what its plan says.
Filled(t, b, s, spec, plan) ==
    /\ \A k \in 1..Len(t) :
           t[k].do = "pool" /\ FromPlan(plan, t[k].kind, t[k].name, t[k].file, t[k].options)
    /\ \A i \in 1..Len(s) : FromPlan(plan, s[i].kind, s[i].name, s[i].own, s[i].options)
    /\ InFirst(t, b, s, spec) \/ PastFirst(t, b, s, spec)

\* A step from one list to another that keeps both.
Carries(t, b, s, t2, b2, s2) ==
    /\ \A spec : Covers(t, b, s, spec) => Covers(t2, b2, s2, spec)
    /\ \A spec, plan : spec.pool_size \in Nat /\ Filled(t, b, s, spec, plan) =>
           Filled(t2, b2, s2, spec, plan)

\* One session more, and the pool goes on.
LEMMA AddCarries ==
    ASSUME NEW t, IsList(t), t # <<>>, NEW s, IsList(s), NEW b \in 0..Len(s), NEW x,
           Head(t).do = "pool", x.kind = Head(t).kind, x.name = Head(t).name, x.own = Head(t).file,
           x.options = Head(t).options, b + 1 # Head(t).size
    PROVE  Carries(t, b, s, t, b + 1, Append(s, x))
<1> DEFINE s2 == Append(s, x)
           n == Len(s)
<1>1. n \in Nat /\ Len(s2) = n + 1 /\ (\A i \in 1..n : s2[i] = s[i]) /\ s2[n + 1] = x
  BY OneMore
<1>2. Len(t) \in Nat /\ Len(t) >= 1 /\ Head(t) = t[1]
  BY RestOfList
<1>b. b \in Nat /\ b <= n
  BY <1>1
<1>i. \A i \in 1..Len(s2) : i \in 1..n \/ i = n + 1
  BY <1>1
<1> HIDE DEF s2, n
<1>3. ASSUME NEW spec, Covers(t, b, s, spec) PROVE Covers(t, b + 1, s2, spec)
  <2>1. Len(s2) - (b + 1) = n - b /\ \A i \in 1..(n - b) : i \in 1..n
    BY <1>1, <1>b
  <2>2. CASE \E j \in 1..Len(t) : JobOf(t[j], spec)
    BY <2>2 DEF Covers
  <2>3. CASE \E i \in 1..(n - b) : OfSpec(s[i], spec)
    BY <2>1, <2>3, <1>1 DEF Covers
  <2> QED
    BY <1>3, <2>2, <2>3 DEF Covers, n
<1>4. ASSUME NEW spec, NEW plan, spec.pool_size \in Nat, Filled(t, b, s, spec, plan)
      PROVE  Filled(t, b + 1, s2, spec, plan)
  <2> DEFINE m == spec.pool_size
  <2>1. /\ \A k \in 1..Len(t) :
               t[k].do = "pool" /\ FromPlan(plan, t[k].kind, t[k].name, t[k].file, t[k].options)
        /\ \A i \in 1..n : FromPlan(plan, s[i].kind, s[i].name, s[i].own, s[i].options)
    BY <1>4 DEF Filled, n
  <2>2. FromPlan(plan, x.kind, x.name, x.own, x.options)
    BY <1>2, <2>1
  <2>3. \A i \in 1..Len(s2) : FromPlan(plan, s2[i].kind, s2[i].name, s2[i].own, s2[i].options)
    <3>1. ASSUME NEW i \in 1..Len(s2) PROVE FromPlan(plan, s2[i].kind, s2[i].name, s2[i].own, s2[i].options)
      <4>1. CASE i \in 1..n
        <5>1. s2[i] = s[i]
          BY <4>1, <1>1
        <5> QED
          BY <4>1, <5>1, <2>1
      <4>2. CASE i = n + 1
        <5>1. s2[i] = x
          BY <4>2, <1>1
        <5> QED
          BY <5>1, <2>2
      <4> QED
        BY <4>1, <4>2, <1>i
    <3> QED
      BY <3>1
  <2>4. CASE InFirst(t, b, s, spec)
    <3>1. OfSpec(x, spec)
      BY <2>4, <1>2 DEF InFirst, JobOf, OfSpec
    <3>2. \A i \in 1..Len(s2) : OfSpec(s2[i], spec)
      BY <3>1, <2>4, <1>1, <1>i DEF InFirst, n
    <3>3. Len(s2) = b + 1 /\ b + 1 < m
      BY <2>4, <1>1, <1>2, <1>b, <1>4 DEF InFirst, n
    <3> QED
      BY <2>1, <2>3, <2>4, <3>2, <3>3 DEF Filled, InFirst
  <2>5. CASE PastFirst(t, b, s, spec)
    <3>0. m \in Nat /\ m <= n - b
      BY <2>5, <1>4 DEF PastFirst, n
    <3>1. ~OfSpec(x, spec)
      BY <2>5, <1>2 DEF PastFirst, OfSpec
    <3>2. ASSUME NEW i \in 1..Len(s2) PROVE i <= m <=> OfSpec(s2[i], spec)
      <4>1. CASE i \in 1..n
        <5>1. s2[i] = s[i]
          BY <4>1, <1>1
        <5> QED
          BY <4>1, <5>1, <2>5 DEF PastFirst, n
      <4>2. CASE i = n + 1
        <5>1. ~(i <= m) /\ s2[i] = x
          BY <4>2, <3>0, <1>1, <1>b
        <5> QED
          BY <5>1, <3>1
      <4> QED
        BY <4>1, <4>2, <1>i
    <3>3. m <= Len(s2) - (b + 1)
      BY <3>0, <1>1, <1>b
    <3> QED
      BY <2>1, <2>3, <2>5, <3>2, <3>3 DEF Filled, PastFirst
  <2> QED
    BY <2>4, <2>5, <1>4 DEF Filled
<1> QED
  BY <1>3, <1>4 DEF Carries, s2

\* The last session of a pool, and the next job.
LEMMA LastCarries ==
    ASSUME NEW t, IsList(t), t # <<>>, NEW s, IsList(s), NEW b \in 0..Len(s), NEW x,
           Head(t).do = "pool", x.kind = Head(t).kind, x.name = Head(t).name, x.own = Head(t).file,
           x.options = Head(t).options, b + 1 = Head(t).size
    PROVE  Carries(t, b, s, Tail(t), 0, Append(s, x))
<1> DEFINE s2 == Append(s, x)
           n == Len(s)
           t2 == Tail(t)
           l == Len(t)
<1>1. n \in Nat /\ Len(s2) = n + 1 /\ (\A i \in 1..n : s2[i] = s[i]) /\ s2[n + 1] = x
  BY OneMore
<1>2. l \in Nat /\ l >= 1 /\ Head(t) = t[1] /\ Len(t2) = l - 1 /\ \A k \in 1..(l - 1) : t2[k] = t[k + 1]
  BY RestOfList
<1>b. b \in Nat /\ b <= n
  BY <1>1
<1>i. \A i \in 1..Len(s2) : i \in 1..n \/ i = n + 1
  BY <1>1
<1>t. \A k \in 1..Len(t2) : k + 1 \in 1..l /\ k + 1 \in 2..l /\ t2[k] = t[k + 1]
  BY <1>2
<1>j. \A j \in 1..l : j = 1 \/ (j - 1 \in 1..Len(t2) /\ t2[j - 1] = t[j])
  <2>1. ASSUME NEW j \in 1..l, j # 1 PROVE j - 1 \in 1..Len(t2) /\ t2[j - 1] = t[j]
    <3>1. j - 1 \in 1..(l - 1) /\ (j - 1) + 1 = j
      BY <1>2, <2>1
    <3> QED
      BY <3>1, <1>2
  <2> QED
    BY <2>1
<1> HIDE DEF s2, n, t2, l
<1>3. ASSUME NEW spec, Covers(t, b, s, spec) PROVE Covers(t2, 0, s2, spec)
  <2>1. Len(s2) - 0 = n + 1 /\ (\A i \in 1..(n - b) : i \in 1..n /\ i \in 1..(n + 1)) /\ n + 1 \in 1..(n + 1)
    BY <1>1, <1>b
  <2>2. CASE \E j \in 1..l : JobOf(t[j], spec)
    <3>1. PICK j \in 1..l : JobOf(t[j], spec)
      BY <2>2
    <3>2. CASE j = 1
      <4>1. OfSpec(s2[n + 1], spec)
        BY <3>1, <3>2, <1>1, <1>2 DEF OfSpec, JobOf
      <4> QED
        BY <2>1, <4>1 DEF Covers
    <3>3. CASE j # 1
      BY <3>1, <3>3, <1>j DEF Covers
    <3> QED
      BY <3>2, <3>3
  <2>3. CASE \E i \in 1..(n - b) : OfSpec(s[i], spec)
    BY <2>1, <2>3, <1>1 DEF Covers
  <2> QED
    BY <1>3, <2>2, <2>3 DEF Covers, n, l
<1>4. ASSUME NEW spec, NEW plan, spec.pool_size \in Nat, Filled(t, b, s, spec, plan)
      PROVE  Filled(t2, 0, s2, spec, plan)
  <2> DEFINE m == spec.pool_size
  <2>1. /\ \A k \in 1..l :
               t[k].do = "pool" /\ FromPlan(plan, t[k].kind, t[k].name, t[k].file, t[k].options)
        /\ \A i \in 1..n : FromPlan(plan, s[i].kind, s[i].name, s[i].own, s[i].options)
    BY <1>4 DEF Filled, n, l
  <2>2. FromPlan(plan, x.kind, x.name, x.own, x.options)
    BY <1>2, <2>1
  <2>3. \A i \in 1..Len(s2) : FromPlan(plan, s2[i].kind, s2[i].name, s2[i].own, s2[i].options)
    <3>1. ASSUME NEW i \in 1..Len(s2) PROVE FromPlan(plan, s2[i].kind, s2[i].name, s2[i].own, s2[i].options)
      <4>1. CASE i \in 1..n
        <5>1. s2[i] = s[i]
          BY <4>1, <1>1
        <5> QED
          BY <4>1, <5>1, <2>1
      <4>2. CASE i = n + 1
        <5>1. s2[i] = x
          BY <4>2, <1>1
        <5> QED
          BY <5>1, <2>2
      <4> QED
        BY <4>1, <4>2, <1>i
    <3> QED
      BY <3>1
  <2>4. \A k \in 1..Len(t2) :
            t2[k].do = "pool" /\ FromPlan(plan, t2[k].kind, t2[k].name, t2[k].file, t2[k].options)
    BY <2>1, <1>t
  <2>5. CASE InFirst(t, b, s, spec)
    <3>1. OfSpec(x, spec)
      BY <2>5, <1>2 DEF InFirst, JobOf, OfSpec
    <3>2. \A i \in 1..Len(s2) : OfSpec(s2[i], spec)
      BY <3>1, <2>5, <1>1, <1>i DEF InFirst, n
    <3>3. Len(s2) = m /\ m \in Nat
      BY <2>5, <1>1, <1>2, <1>b, <1>4 DEF InFirst, n
    <3>4. m <= Len(s2) - 0 /\ \A i \in 1..Len(s2) : i <= m <=> OfSpec(s2[i], spec)
      BY <3>2, <3>3
    <3>5. \A k \in 1..Len(t2) : t2[k].file.batch # 0
      BY <2>5, <1>t DEF InFirst, l
    <3> QED
      BY <2>3, <2>4, <3>4, <3>5 DEF Filled, PastFirst
  <2>6. CASE PastFirst(t, b, s, spec)
    <3>0. m \in Nat /\ m <= n - b
      BY <2>6, <1>4 DEF PastFirst, n
    <3>1. ~OfSpec(x, spec)
      BY <2>6, <1>2 DEF PastFirst, OfSpec, l
    <3>2. ASSUME NEW i \in 1..Len(s2) PROVE i <= m <=> OfSpec(s2[i], spec)
      <4>1. CASE i \in 1..n
        <5>1. s2[i] = s[i]
          BY <4>1, <1>1
        <5> QED
          BY <4>1, <5>1, <2>6 DEF PastFirst, n
      <4>2. CASE i = n + 1
        <5>1. ~(i <= m) /\ s2[i] = x
          BY <4>2, <3>0, <1>1, <1>b
        <5> QED
          BY <5>1, <3>1
      <4> QED
        BY <4>1, <4>2, <1>i
    <3>3. m <= Len(s2) - 0
      BY <3>0, <1>1, <1>b
    <3>4. \A k \in 1..Len(t2) : t2[k].file.batch # 0
      BY <2>6, <1>t DEF PastFirst, l
    <3> QED
      BY <2>3, <2>4, <3>2, <3>3, <3>4 DEF Filled, PastFirst
  <2> QED
    BY <2>5, <2>6, <1>4 DEF Filled
<1> QED
  BY <1>3, <1>4 DEF Carries, s2, t2

\* A static pool that fails is dropped.
LEMMA DropCarries ==
    ASSUME NEW t, IsList(t), t # <<>>, NEW s, IsList(s), NEW b \in 0..Len(s),
           Head(t).file.batch # 0
    PROVE  Carries(t, b, s, Tail(t), 0, SubSeq(s, 1, Len(s) - b))
<1> DEFINE n == Len(s)
           s2 == SubSeq(s, 1, n - b)
           t2 == Tail(t)
           l == Len(t)
<1>0. n \in Nat /\ b \in Nat /\ b <= n /\ n - b \in 0..n
  BY ListPlaces
<1>1. Len(s2) = n - b /\ \A i \in 1..(n - b) : s2[i] = s[i]
  BY <1>0, FirstOnes
<1>2. l \in Nat /\ l >= 1 /\ Head(t) = t[1] /\ Len(t2) = l - 1 /\ \A k \in 1..(l - 1) : t2[k] = t[k + 1]
  BY RestOfList
<1>i. \A i \in 1..Len(s2) : i \in 1..n /\ i \in 1..(n - b)
  BY <1>0, <1>1
<1>t. \A k \in 1..Len(t2) : k + 1 \in 1..l /\ k + 1 \in 2..l /\ t2[k] = t[k + 1]
  BY <1>2
<1>j. \A j \in 1..l : j = 1 \/ (j - 1 \in 1..Len(t2) /\ t2[j - 1] = t[j])
  <2>1. ASSUME NEW j \in 1..l, j # 1 PROVE j - 1 \in 1..Len(t2) /\ t2[j - 1] = t[j]
    <3>1. j - 1 \in 1..(l - 1) /\ (j - 1) + 1 = j
      BY <1>2, <2>1
    <3> QED
      BY <3>1, <1>2
  <2> QED
    BY <2>1
<1> HIDE DEF s2, n, t2, l
<1>3. ASSUME NEW spec, Covers(t, b, s, spec) PROVE Covers(t2, 0, s2, spec)
  <2>1. Len(s2) - 0 = n - b
    BY <1>0, <1>1
  <2>2. CASE \E j \in 1..l : JobOf(t[j], spec)
    <3>1. PICK j \in 1..l : JobOf(t[j], spec)
      BY <2>2
    <3>2. j # 1
      BY <3>1, <1>2 DEF JobOf
    <3> QED
      BY <3>1, <3>2, <1>j DEF Covers
  <2>3. CASE \E i \in 1..(n - b) : OfSpec(s[i], spec)
    BY <2>1, <2>3, <1>1 DEF Covers
  <2> QED
    BY <1>3, <2>2, <2>3 DEF Covers, n, l
<1>4. ASSUME NEW spec, NEW plan, spec.pool_size \in Nat, Filled(t, b, s, spec, plan)
      PROVE  Filled(t2, 0, s2, spec, plan)
  <2> DEFINE m == spec.pool_size
  <2>1. /\ \A k \in 1..l :
               t[k].do = "pool" /\ FromPlan(plan, t[k].kind, t[k].name, t[k].file, t[k].options)
        /\ \A i \in 1..n : FromPlan(plan, s[i].kind, s[i].name, s[i].own, s[i].options)
    BY <1>4 DEF Filled, n, l
  <2>2. ~InFirst(t, b, s, spec)
    BY <1>2 DEF InFirst, JobOf
  <2>3. PastFirst(t, b, s, spec)
    BY <2>2, <1>4 DEF Filled
  <2>4. \A i \in 1..Len(s2) : FromPlan(plan, s2[i].kind, s2[i].name, s2[i].own, s2[i].options)
    BY <2>1, <1>i, <1>1
  <2>5. \A k \in 1..Len(t2) :
            t2[k].do = "pool" /\ FromPlan(plan, t2[k].kind, t2[k].name, t2[k].file, t2[k].options)
    BY <2>1, <1>t
  <2>6. \A i \in 1..Len(s2) : i <= m <=> OfSpec(s2[i], spec)
    BY <2>3, <1>i, <1>1 DEF PastFirst, n
  <2>7. m <= Len(s2) - 0
    BY <2>3, <1>0, <1>1, <1>4 DEF PastFirst, n
  <2>8. \A k \in 1..Len(t2) : t2[k].file.batch # 0
    BY <2>3, <1>t DEF PastFirst, l
  <2> QED
    BY <2>4, <2>5, <2>6, <2>7, <2>8 DEF Filled, PastFirst
<1> QED
  BY <1>3, <1>4 DEF Carries, s2, t2, n

\* A job that makes no pool is done; the sessions may be warmed by it.
LEMMA PassCarries ==
    ASSUME NEW t, IsList(t), t # <<>>, NEW s, IsList(s), NEW b \in 0..Len(s), Head(t).do # "pool",
           NEW s2, Len(s2) = Len(s),
           \A i \in 1..Len(s) : s2[i].kind = s[i].kind /\ s2[i].name = s[i].name /\ s2[i].own = s[i].own
    PROVE  Carries(t, b, s, Tail(t), 0, s2)
<1> DEFINE n == Len(s)
           t2 == Tail(t)
           l == Len(t)
<1>0. n \in Nat /\ b \in Nat /\ b <= n
  BY ListPlaces
<1>2. l \in Nat /\ l >= 1 /\ Head(t) = t[1] /\ Len(t2) = l - 1 /\ \A k \in 1..(l - 1) : t2[k] = t[k + 1]
  BY RestOfList
<1>j. \A j \in 1..l : j = 1 \/ (j - 1 \in 1..Len(t2) /\ t2[j - 1] = t[j])
  <2>1. ASSUME NEW j \in 1..l, j # 1 PROVE j - 1 \in 1..Len(t2) /\ t2[j - 1] = t[j]
    <3>1. j - 1 \in 1..(l - 1) /\ (j - 1) + 1 = j
      BY <1>2, <2>1
    <3> QED
      BY <3>1, <1>2
  <2> QED
    BY <2>1
<1> HIDE DEF t2
<1>3. ASSUME NEW spec, Covers(t, b, s, spec) PROVE Covers(t2, 0, s2, spec)
  <2>1. Len(s2) - 0 = n /\ \A i \in 1..(n - b) : i \in 1..n
    BY <1>0
  <2>2. CASE \E j \in 1..l : JobOf(t[j], spec)
    <3>1. PICK j \in 1..l : JobOf(t[j], spec)
      BY <2>2
    <3>2. j # 1
      BY <3>1, <1>2 DEF JobOf
    <3> QED
      BY <3>1, <3>2, <1>j DEF Covers
  <2>3. CASE \E i \in 1..(n - b) : OfSpec(s[i], spec)
    <3>1. PICK i \in 1..(n - b) : OfSpec(s[i], spec)
      BY <2>3
    <3>2. i \in 1..n /\ OfSpec(s2[i], spec)
      BY <3>1, <2>1 DEF OfSpec
    <3> QED
      BY <3>2, <2>1 DEF Covers
  <2> QED
    BY <1>3, <2>2, <2>3 DEF Covers
<1>4. ASSUME NEW spec, NEW plan, Filled(t, b, s, spec, plan) PROVE FALSE
  BY <1>2, <1>4 DEF Filled
<1> QED
  BY <1>3, <1>4 DEF Carries, t2

\* The configuration, the workers it asks for and the plan of each.
Settings == from_env(env)
Specs    == SpawnSpecs(env, Settings)
PlanFor(w) == WorkerPlan(env, Settings, Specs[w])

\* The places of a process in a build, and those where a pool is being made.
AtPool   == {"read", "commit", "write"}
Building == {"load"} \cup AtPool

\* What the server has read, started and loaded, where it is.
ServerFits(r, cfg, specs) ==
    /\ r.pc \in {"spawn", "await", "bind", "up"} \cup Building => cfg # Err
    /\ r.pc \in {"spawn", "await"} => cfg.multi_process /\ r.built \in 0..AllOf(cfg)
    /\ r.pc = "await" => r.built = AllOf(cfg)
    /\ r.pc \in Building => ~cfg.multi_process
    /\ r.pc \in {"bind", "up"} /\ cfg.multi_process => AllOf(cfg) <= MaxWorkers
    /\ r.pc \in {"bind", "up"} \cup Building /\ ~cfg.multi_process =>
           \A i \in 1..AllOf(cfg) : Covers(r.todo, r.built, r.sessions, specs[i])
    /\ r.pc \in {"bind", "up"} /\ ~cfg.multi_process => r.todo = <<>> /\ r.built \in Nat

\* What a worker has loaded, where it is.
WorkerFits(r, cfg, specs, w, plan) ==
    /\ cfg # Err /\ w \in 1..AllOf(cfg)
    /\ r.pc = "config" => r.sessions = <<>> /\ r.built = 0
    /\ r.pc \in {"arena", "up"} \cup Building => Filled(r.todo, r.built, r.sessions, specs[w], plan)
    /\ r.pc = "up" => r.todo = <<>> /\ r.built \in Nat

\* The state r of process p is what its configuration makes of it.
Fits(p, r) ==
    /\ IsList(r.todo)
    /\ r.pc \in AtPool => r.todo # <<>> /\ Head(r.todo).do = "pool"
    /\ p = 0 => ServerFits(r, Settings, Specs)
    /\ p # 0 /\ r.pc # "down" => WorkerFits(r, Settings, Specs, p, PlanFor(p))

\* The inductive invariant of what is loaded.
LoadInv ==
    /\ env \in Environments
    /\ launched \subseteq Workers
    /\ \A p \in Procs : Fits(p, proc[p])

\* The configuration does not change, nor which files there are.
LEMMA FitsKept ==
    ASSUME LoadInv, env' = env, SameFiles, launched' \subseteq Workers,
           \A p \in Procs : Fits(p, proc'[p])
    PROVE  LoadInv'
<1>1. Settings' = Settings /\ Specs' = Specs
  BY DEF Settings, Specs
<1>2. \A w : PlanFor(w)' = PlanFor(w)
  BY PlanStays DEF PlanFor, Settings, Specs
<1>3. Workers' = Workers
  OBVIOUS
<1>4. ASSUME NEW p \in Procs PROVE Fits(p, proc[p])'
  BY <1>1, <1>2 DEF Fits
<1> QED
  BY <1>4 DEF LoadInv

\* A step of one process.
LEMMA OneFits ==
    ASSUME LoadInv, NEW p \in Procs, env' = env, source' = source, launched' = launched,
           \A q \in Procs : q # p => proc'[q] = proc[q], Fits(p, proc'[p])
    PROVE  LoadInv'
<1>1. SameFiles /\ launched' \subseteq Workers
  BY DEF SameFiles, LoadInv
<1>2. \A q \in Procs : Fits(q, proc'[q])
  BY DEF LoadInv
<1> QED
  BY <1>1, <1>2, FitsKept

\* A process that has not been started, or has ended.
LEMMA OverFits ==
    ASSUME NEW p \in Procs, NEW r, r.todo = <<>>,
           \/ r.pc = "down"
           \/ r.pc = "dead" /\ (p # 0 => Settings # Err /\ p \in 1..AllOf(Settings))
    PROVE  Fits(p, r)
<1>1. IsList(<<>>)
  <2>1. <<>> \in Seq({})
    OBVIOUS
  <2> QED
    BY <2>1 DEF IsList
<1> QED
  BY <1>1 DEF Fits, ServerFits, WorkerFits, AtPool, Building

\* A process ends, and with the server all of them.
LEMMA EndsFits ==
    ASSUME LoadInv, NEW p \in Procs, proc[p].pc # "down", NEW why, Ends(p, why)
    PROVE  LoadInv'
<1> DEFINE dead == IF p = 0 THEN Procs ELSE {p}
<1>1. /\ proc' = [q \in Procs |-> IF q = p THEN [Down EXCEPT !.pc = "dead", !.why = why]
                                  ELSE IF q \in dead THEN Down ELSE proc[q]]
      /\ env' = env /\ source' = source /\ launched' \subseteq launched
  BY DEF Ends
<1>2. p # 0 => Settings # Err /\ p \in 1..AllOf(Settings)
  BY DEF LoadInv, Fits, WorkerFits
<1>3. Down.todo = <<>> /\ Down.pc = "down"
  BY DEF Down
<1>4. [Down EXCEPT !.pc = "dead", !.why = why].todo = <<>> /\ [Down EXCEPT !.pc = "dead", !.why = why].pc = "dead"
  BY DEF Down
<1>5. ASSUME NEW q \in Procs PROVE Fits(q, proc'[q])
  <2>1. CASE q = p
    <3>1. proc'[q] = [Down EXCEPT !.pc = "dead", !.why = why]
      BY <1>1, <2>1
    <3> QED
      BY <2>1, <3>1, <1>2, <1>4, OverFits
  <2>2. CASE q # p /\ q \in dead
    <3>1. proc'[q] = Down
      BY <1>1, <2>2
    <3> QED
      BY <3>1, <1>3, OverFits
  <2>3. CASE q # p /\ q \notin dead
    <3>1. proc'[q] = proc[q]
      BY <1>1, <2>3
    <3> QED
      BY <3>1 DEF LoadInv
  <2> QED
    BY <2>1, <2>2, <2>3
<1>6. SameFiles /\ launched' \subseteq Workers
  BY <1>1 DEF SameFiles, LoadInv
<1> QED
  BY <1>1, <1>5, <1>6, FitsKept

\* The size of the pool of a worker is a number.
LEMMA PoolSizeFacts ==
    ASSUME LoadInv, Settings # Err
    PROVE  /\ AllOf(Settings) \in Nat /\ DOMAIN Specs = 1..AllOf(Settings)
           /\ \A i \in 1..AllOf(Settings) : SpecIn(Specs[i], Settings) /\ Specs[i].pool_size \in Nat \ {0}
BY SpecsAre DEF LoadInv, Settings, Specs, SpecIn

\* A step in the middle of a build.
LEMMA BuildFits ==
    ASSUME LoadInv, NEW p \in Procs, NEW r, proc[p].pc \in Building, r.pc \in Building,
           IsList(r.todo), r.pc \in AtPool => r.todo # <<>> /\ Head(r.todo).do = "pool",
           Carries(proc[p].todo, proc[p].built, proc[p].sessions, r.todo, r.built, r.sessions)
    PROVE  Fits(p, r)
<1> DEFINE old == proc[p]
<1>1. Fits(p, old)
  BY DEF LoadInv
<1>2. /\ r.pc \notin {"spawn", "await", "bind", "up", "config", "arena", "down"}
      /\ old.pc \notin {"spawn", "await", "bind", "up", "config", "arena", "down"}
  BY DEF Building, AtPool
<1>3. CASE p = 0
  <2>1. ServerFits(old, Settings, Specs)
    BY <1>1, <1>3 DEF Fits
  <2>2. Settings # Err /\ ~Settings.multi_process
    BY <2>1 DEF ServerFits
  <2>3. \A i \in 1..AllOf(Settings) : Covers(old.todo, old.built, old.sessions, Specs[i])
    BY <2>1, <2>2 DEF ServerFits
  <2>4. \A i \in 1..AllOf(Settings) : Covers(r.todo, r.built, r.sessions, Specs[i])
    BY <2>3 DEF Carries
  <2>5. ServerFits(r, Settings, Specs)
    BY <1>2, <2>2, <2>4 DEF ServerFits
  <2> QED
    BY <1>3, <2>5 DEF Fits
<1>4. CASE p # 0
  <2>1. WorkerFits(old, Settings, Specs, p, PlanFor(p))
    BY <1>1, <1>2, <1>4 DEF Fits
  <2>2. Settings # Err /\ p \in 1..AllOf(Settings) /\ Filled(old.todo, old.built, old.sessions, Specs[p], PlanFor(p))
    BY <2>1 DEF WorkerFits
  <2>3. Specs[p].pool_size \in Nat
    BY <2>2, PoolSizeFacts
  <2>4. Filled(r.todo, r.built, r.sessions, Specs[p], PlanFor(p))
    BY <2>2, <2>3 DEF Carries
  <2>5. WorkerFits(r, Settings, Specs, p, PlanFor(p))
    BY <1>2, <2>2, <2>4 DEF WorkerFits
  <2> QED
    BY <1>4, <2>5 DEF Fits
<1> QED
  BY <1>3, <1>4

\* Nothing is built or dropped.
LEMMA SameCarries == ASSUME NEW t, NEW b, NEW s PROVE Carries(t, b, s, t, b, s)
BY DEF Carries

\* The list of jobs of a process.
LEMMA TodoFacts ==
    ASSUME StartupInv, LoadInv, NEW p \in Procs
    PROVE  /\ IsList(proc[p].todo) /\ IsList(proc[p].sessions)
           /\ proc[p].pc \in AtPool => proc[p].todo # <<>> /\ Job(p).do = "pool"
           /\ proc[p].pc \in Building => proc[p].built \in 0..Len(proc[p].sessions)
BY ProcFacts DEF LoadInv, Fits, FreshList, IsList, Job, Building, AtPool

\* The server is one of the processes.
LEMMA ServerIsOne == 0 \in Procs
BY StartupAssumption DEF Procs

\* main: the server is started.
LEMMA BootFits == ASSUME StartupInv, LoadInv, Boot PROVE LoadInv'
<1>1. /\ proc' = [proc EXCEPT ![0] = [Down EXCEPT !.pc = "arena"]]
      /\ env' = env /\ source' = source /\ launched' = launched
  BY DEF Boot
<1>2. (\A q \in Procs : q # 0 => proc'[q] = proc[q]) /\ proc'[0] = [Down EXCEPT !.pc = "arena"]
  BY <1>1, ServerIsOne DEF StartupInv
<1>3. proc'[0].todo = <<>> /\ proc'[0].pc = "arena"
  BY <1>2 DEF Down
<1>4. IsList(proc'[0].todo)
  BY <1>3, EmptyList DEF FreshList, IsList
<1>5. Fits(0, proc'[0])
  BY <1>3, <1>4 DEF Fits, ServerFits, AtPool, Building
<1> QED
  BY <1>1, <1>2, <1>5, ServerIsOne, OneFits

\* register_arena.
LEMMA ArenaFits == ASSUME StartupInv, LoadInv, NEW p \in Procs, RegisterArena(p) PROVE LoadInv'
<1>0. proc[p].pc = "arena"
  BY DEF RegisterArena
<1>1. CASE Ends(p, "arena")
  BY <1>0, <1>1, EndsFits
<1>2. CASE ~Ends(p, "arena")
  <2> DEFINE next == IF p = 0 THEN "config" ELSE "load"
             r == proc'[p]
             old == proc[p]
  <2>1. /\ source' = source /\ env' = env /\ launched' = launched
        /\ \/ proc' = [proc EXCEPT ![p].arena = TRUE, ![p].pc = next]
           \/ proc' = [proc EXCEPT ![p].pc = next]
    BY <1>2 DEF RegisterArena
  <2> HIDE DEF next
  <2>2. /\ \A q \in Procs : q # p => proc'[q] = proc[q]
        /\ r.sessions = old.sessions /\ r.built = old.built /\ r.todo = old.todo /\ r.pc = next
    BY <2>1, ProcFacts DEF Fields
  <2>3. Fits(p, old) /\ old.pc = "arena"
    BY <1>0 DEF LoadInv
  <2> HIDE DEF r, old
  <2>4. CASE p = 0
    <3>1. next = "config"
      BY <2>4 DEF next
    <3> QED
      <4>1. Fits(p, r)
        BY <2>2, <2>3, <2>4, <3>1 DEF Fits, ServerFits, AtPool, Building
      <4> QED
        BY <2>1, <2>2, <4>1, OneFits DEF r
  <2>5. CASE p # 0
    <3>1. next = "load"
      BY <2>5 DEF next
    <3>2. WorkerFits(old, Settings, Specs, p, PlanFor(p)) /\ IsList(old.todo)
      BY <2>3, <2>5 DEF Fits
    <3>3. WorkerFits(r, Settings, Specs, p, PlanFor(p))
      BY <2>2, <2>3, <3>1, <3>2 DEF WorkerFits, AtPool, Building
    <3>4. Fits(p, r)
      BY <2>2, <2>5, <3>1, <3>2, <3>3 DEF Fits, AtPool
    <3> QED
      BY <2>1, <2>2, <3>4, OneFits DEF r
  <2> QED
    BY <2>4, <2>5
<1> QED
  BY <1>1, <1>2

\* The plan of a worker is there before it builds anything.
LEMMA PlanFills ==
    ASSUME NEW plan, NEW spec, GoodLoad(plan, spec.kind, spec.model, spec.pool_size),
           spec.pool_size \in Nat \ {0}
    PROVE  Filled(plan, 0, <<>>, spec, plan)
<1>1. /\ Len(plan) \in Nat /\ Len(plan) >= 1
      /\ \A k \in 1..Len(plan) : /\ plan[k].do = "pool" /\ plan[k].kind = spec.kind
                                 /\ plan[k].name = spec.model
                                 /\ plan[k].file.batch = 0 <=> k = 1
      /\ plan[1].size = spec.pool_size
  BY ListPlaces DEF GoodLoad
<1>2. Len(<<>>) = 0 /\ 1..0 = {}
  OBVIOUS
<1>3. \A k \in 1..Len(plan) : FromPlan(plan, plan[k].kind, plan[k].name, plan[k].file, plan[k].options)
  BY DEF FromPlan
<1>4. 1 \in 1..Len(plan) /\ \A k \in 2..Len(plan) : k \in 1..Len(plan) /\ k # 1
  BY <1>1
<1>5. JobOf(plan[1], spec) /\ \A k \in 2..Len(plan) : plan[k].file.batch # 0
  BY <1>1, <1>4 DEF JobOf
<1>6. InFirst(plan, 0, <<>>, spec)
  BY <1>1, <1>2, <1>5 DEF InFirst
<1> QED
  BY <1>1, <1>2, <1>3, <1>6 DEF Filled

\* The plan of the server has every model in it.
LEMMA PlanCovers ==
    ASSUME LoadInv, Settings # Err, NEW i \in 1..AllOf(Settings), NEW b, NEW s
    PROVE  Covers(ServerPlan(env, Settings), b, s, Specs[i])
<1> DEFINE plan == PlanFor(i)
           all == ServerPlan(env, Settings)
           spec == Specs[i]
<1>1. SpecIn(spec, Settings)
  BY PoolSizeFacts
<1>2. GoodLoad(plan, spec.kind, spec.model, spec.pool_size) /\ Served(plan, all)
  BY <1>1, WorkerLoadsPools DEF LoadInv, Settings, PlanFor
<1> HIDE DEF plan, all, spec
<1>3. 1 \in 1..Len(plan)
  BY <1>2, ListPlaces DEF GoodLoad
<1>4. PICK j \in 1..Len(all) : /\ all[j].do = "pool" /\ all[j].kind = plan[1].kind
                               /\ all[j].name = plan[1].name /\ all[j].file = plan[1].file
  BY <1>2, <1>3 DEF Served
<1>5. JobOf(all[j], spec)
  BY <1>2, <1>3, <1>4 DEF GoodLoad, JobOf
<1> QED
  BY <1>5 DEF Covers, all, spec

\* Config::from_env.
LEMMA ConfigFits == ASSUME StartupInv, LoadInv, NEW p \in Procs, ReadConfig(p) PROVE LoadInv'
<1>0. proc[p].pc = "config"
  BY DEF ReadConfig
<1>1. CASE Ends(p, "config")
  BY <1>0, <1>1, EndsFits
<1>2. CASE ~Ends(p, "config")
  <2> DEFINE r == proc'[p]
             old == proc[p]
  <2>1. /\ source' = source /\ env' = env /\ launched' = launched /\ Settings # Err
        /\ proc' = IF p # 0 THEN [proc EXCEPT ![p].pc = "arena", ![p].todo = PlanFor(p)]
                   ELSE IF Settings.multi_process THEN [proc EXCEPT ![0].pc = "spawn"]
                   ELSE [proc EXCEPT ![0].pc = "load", ![0].todo = ServerPlan(env, Settings)]
    BY <1>2 DEF ReadConfig, Settings, PlanFor, Specs, SpecOf
  <2>2. DOMAIN proc = Procs /\ DOMAIN old = Fields /\ old.built = 0
    BY <1>0, ProcFacts
  <2>3. Fits(p, old) /\ old.pc = "config" /\ IsList(old.todo)
    BY <1>0 DEF LoadInv, Fits
  <2>4. CASE p # 0
    <3>1. proc' = [proc EXCEPT ![p].pc = "arena", ![p].todo = PlanFor(p)]
      BY <2>1, <2>4
    <3>2. /\ \A q \in Procs : q # p => proc'[q] = proc[q]
          /\ r.sessions = old.sessions /\ r.built = old.built /\ r.todo = PlanFor(p) /\ r.pc = "arena"
      BY <2>2, <3>1 DEF Fields
    <3>3. WorkerFits(old, Settings, Specs, p, PlanFor(p))
      BY <2>3, <2>4 DEF Fits
    <3>4. old.sessions = <<>> /\ p \in 1..AllOf(Settings)
      BY <2>3, <3>3 DEF WorkerFits
    <3>5. SpecIn(Specs[p], Settings) /\ Specs[p].pool_size \in Nat \ {0}
      BY <2>1, <3>4, PoolSizeFacts
    <3>6. GoodLoad(PlanFor(p), Specs[p].kind, Specs[p].model, Specs[p].pool_size)
      BY <2>1, <3>5, WorkerLoadsPools DEF LoadInv, Settings, PlanFor
    <3>7. Filled(PlanFor(p), 0, <<>>, Specs[p], PlanFor(p))
      BY <3>5, <3>6, PlanFills
    <3>8. IsList(PlanFor(p))
      BY <3>6 DEF GoodLoad
    <3> HIDE DEF r, old
    <3>9. WorkerFits(r, Settings, Specs, p, PlanFor(p))
      BY <2>1, <2>2, <3>2, <3>4, <3>7 DEF WorkerFits
    <3>10. Fits(p, r)
      BY <2>4, <3>2, <3>8, <3>9 DEF Fits, AtPool
    <3> QED
      BY <2>1, <3>2, <3>10, OneFits DEF r
  <2>5. CASE p = 0 /\ Settings.multi_process
    <3>1. proc' = [proc EXCEPT ![p].pc = "spawn"]
      BY <2>1, <2>5
    <3>2. /\ \A q \in Procs : q # p => proc'[q] = proc[q]
          /\ r.built = 0 /\ r.todo = old.todo /\ r.pc = "spawn"
      BY <2>2, <3>1 DEF Fields
    <3>3. 0 \in 0..AllOf(Settings)
      BY <2>1, PoolSizeFacts
    <3> HIDE DEF r, old
    <3>4. ServerFits(r, Settings, Specs)
      BY <2>1, <2>5, <3>2, <3>3 DEF ServerFits, AtPool, Building
    <3>5. Fits(p, r)
      BY <2>3, <2>5, <3>2, <3>4 DEF Fits, AtPool
    <3> QED
      BY <2>1, <3>2, <3>5, OneFits DEF r
  <2>6. CASE p = 0 /\ ~Settings.multi_process
    <3>1. proc' = [proc EXCEPT ![p].pc = "load", ![p].todo = ServerPlan(env, Settings)]
      BY <2>1, <2>6
    <3>2. /\ \A q \in Procs : q # p => proc'[q] = proc[q]
          /\ r.todo = ServerPlan(env, Settings) /\ r.pc = "load"
      BY <2>2, <3>1 DEF Fields
    <3> HIDE DEF r, old
    <3>3. \A i \in 1..AllOf(Settings) : Covers(r.todo, r.built, r.sessions, Specs[i])
      BY <2>1, <3>2, PlanCovers
    <3>4. IsList(ServerPlan(env, Settings))
      BY <2>1, ServerHas DEF LoadInv, Settings
    <3>5. ServerFits(r, Settings, Specs)
      BY <2>1, <2>6, <3>2, <3>3 DEF ServerFits, AtPool, Building
    <3>6. Fits(p, r)
      BY <2>6, <3>2, <3>4, <3>5 DEF Fits, AtPool
    <3> QED
      BY <2>1, <3>2, <3>6, OneFits DEF r
  <2> QED
    BY <2>4, <2>5, <2>6
<1> QED
  BY <1>1, <1>2

\* A step that builds nothing: the process stays at its job.
LEMMA StaysFits ==
    ASSUME StartupInv, LoadInv, NEW p \in Procs, env' = env, source' = source, launched' = launched,
           \A q \in Procs : q # p => proc'[q] = proc[q],
           proc[p].pc \in Building, proc'[p].pc \in Building,
           proc[p].todo # <<>>, Job(p).do = "pool",
           proc'[p].todo = proc[p].todo, proc'[p].built = proc[p].built,
           proc'[p].sessions = proc[p].sessions
    PROVE  LoadInv'
<1> DEFINE r == proc'[p]
<1>1. IsList(r.todo) /\ (r.pc \in AtPool => r.todo # <<>> /\ Head(r.todo).do = "pool")
  BY TodoFacts DEF Job
<1>2. Carries(proc[p].todo, proc[p].built, proc[p].sessions, r.todo, r.built, r.sessions)
  BY SameCarries
<1>3. r.pc \in Building
  OBVIOUS
<1> HIDE DEF r
<1>4. Fits(p, r)
  BY <1>1, <1>2, <1>3, BuildFits
<1> QED
  BY <1>4, OneFits DEF r

\* decide.
LEMMA DecideFits == ASSUME StartupInv, LoadInv, NEW p \in Procs, Decide(p) PROVE LoadInv'
<1>0. proc[p].pc = "load" /\ proc[p].todo # <<>> /\ Job(p).do = "pool"
  BY DEF Decide
<1>1. CASE Ends(p, "missing") \/ Ends(p, "panic")
  BY <1>0, <1>1, EndsFits
<1>2. CASE ~(Ends(p, "missing") \/ Ends(p, "panic"))
  <2>1. /\ source' = source /\ env' = env /\ launched' = launched
        /\ proc' = [proc EXCEPT ![p].plan = PlanOf(Job(p)), ![p].pc = "read"]
    BY <1>2 DEF Decide
  <2>2. /\ \A q \in Procs : q # p => proc'[q] = proc[q]
        /\ proc'[p].sessions = proc[p].sessions /\ proc'[p].built = proc[p].built
        /\ proc'[p].todo = proc[p].todo /\ proc'[p].pc = "read"
    BY <2>1, ProcFacts DEF Fields
  <2>3. "load" \in Building /\ "read" \in Building
    BY DEF Building, AtPool
  <2> QED
    BY <1>0, <2>1, <2>2, <2>3, StaysFits
<1> QED
  BY <1>1, <1>2

\* read_and_mlock.
LEMMA ReadFits == ASSUME StartupInv, LoadInv, NEW p \in Procs, read_and_mlock(p) PROVE LoadInv'
<1>1. PICK read : /\ source' = source /\ env' = env /\ launched' = launched /\ proc[p].pc = "read"
                  /\ proc' = [proc EXCEPT ![p].bytes = read, ![p].pc = "commit"]
  BY DEF read_and_mlock
<1>2. /\ \A q \in Procs : q # p => proc'[q] = proc[q]
      /\ proc'[p].sessions = proc[p].sessions /\ proc'[p].built = proc[p].built
      /\ proc'[p].todo = proc[p].todo /\ proc'[p].pc = "commit"
  BY <1>1, ProcFacts DEF Fields
<1>3. "read" \in AtPool /\ "read" \in Building /\ "commit" \in Building
  BY DEF Building, AtPool
<1>4. proc[p].todo # <<>> /\ Job(p).do = "pool"
  BY <1>1, <1>3, TodoFacts
<1> QED
  BY <1>1, <1>2, <1>3, <1>4, StaysFits

\* The write of the optimized graph begins.
LEMMA StartWriteFits == ASSUME StartupInv, LoadInv, NEW p \in Procs, StartWrite(p) PROVE LoadInv'
<1>1. /\ source' = source /\ env' = env /\ launched' = launched /\ proc[p].pc = "commit"
      /\ proc' = [proc EXCEPT ![p].pc = "write"]
  BY DEF StartWrite
<1>2. /\ \A q \in Procs : q # p => proc'[q] = proc[q]
      /\ proc'[p].sessions = proc[p].sessions /\ proc'[p].built = proc[p].built
      /\ proc'[p].todo = proc[p].todo /\ proc'[p].pc = "write"
  BY <1>1, ProcFacts DEF Fields
<1>3. "commit" \in AtPool /\ "commit" \in Building /\ "write" \in Building
  BY DEF Building, AtPool
<1>4. proc[p].todo # <<>> /\ Job(p).do = "pool"
  BY <1>1, <1>3, TodoFacts
<1> QED
  BY <1>1, <1>2, <1>3, <1>4, StaysFits

\* A step back to the head of the loop, with a list that carries on the old one.
LEMMA LoopFits ==
    ASSUME LoadInv, NEW p \in Procs, env' = env, source' = source, launched' = launched,
           \A q \in Procs : q # p => proc'[q] = proc[q],
           proc[p].pc \in Building, proc'[p].pc = "load", IsList(proc'[p].todo),
           Carries(proc[p].todo, proc[p].built, proc[p].sessions,
                   proc'[p].todo, proc'[p].built, proc'[p].sessions)
    PROVE  LoadInv'
<1> DEFINE r == proc'[p]
<1>1. r.pc \in Building /\ r.pc \notin AtPool
  BY DEF Building, AtPool
<1>2. /\ IsList(r.todo)
      /\ Carries(proc[p].todo, proc[p].built, proc[p].sessions, r.todo, r.built, r.sessions)
  OBVIOUS
<1> HIDE DEF r
<1>3. Fits(p, r)
  BY <1>1, <1>2, BuildFits
<1> QED
  BY <1>3, OneFits DEF r

\* One session more.
LEMMA BuiltFits ==
    ASSUME StartupInv, LoadInv, NEW p \in Procs, proc[p].pc \in AtPool,
           proc' = Built(p), env' = env, source' = source, launched' = launched
    PROVE  LoadInv'
<1> DEFINE x == NewSession(p)
           t == proc[p].todo
           s == proc[p].sessions
           b == proc[p].built
           all == b + 1 = Job(p).size
           r == proc'[p]
<1>1. proc[p].pc \in Building
  BY DEF Building
<1>2. IsList(t) /\ t # <<>> /\ IsList(s) /\ b \in 0..Len(s) /\ Head(t).do = "pool"
  BY <1>1, TodoFacts DEF Job
<1>3. /\ x.kind = Head(t).kind /\ x.name = Head(t).name /\ x.own = Head(t).file
      /\ x.options = Head(t).options
  BY DEF NewSession, Job
<1>4. /\ \A q \in Procs : q # p => proc'[q] = proc[q]
      /\ r.sessions = Append(s, x) /\ r.pc = "load"
      /\ r.built = (IF all THEN 0 ELSE b + 1) /\ r.todo = (IF all THEN Tail(t) ELSE t)
  BY ProcFacts DEF Built, Fields
<1>5. all <=> b + 1 = Head(t).size
  BY DEF Job
<1>6. IsList(Tail(t))
  BY <1>2, RestOfList
<1> HIDE DEF x, t, s, b, all, r
<1>7. CASE all
  <2>1. Carries(t, b, s, Tail(t), 0, Append(s, x))
    BY <1>2, <1>3, <1>5, <1>7, LastCarries
  <2>2. Carries(t, b, s, r.todo, r.built, r.sessions) /\ IsList(r.todo)
    BY <2>1, <1>4, <1>6, <1>7
  <2> QED
    BY <1>1, <1>4, <2>2, LoopFits DEF t, b, s, r
<1>8. CASE ~all
  <2>1. Carries(t, b, s, t, b + 1, Append(s, x))
    BY <1>2, <1>3, <1>5, <1>8, AddCarries
  <2>2. Carries(t, b, s, r.todo, r.built, r.sessions) /\ IsList(r.todo)
    BY <2>1, <1>2, <1>4, <1>8
  <2> QED
    BY <1>1, <1>4, <2>2, LoopFits DEF t, b, s, r
<1> QED
  BY <1>7, <1>8

\* A pool that cannot be built.
LEMMA PoolFailsFits ==
    ASSUME StartupInv, LoadInv, NEW p \in Procs, proc[p].pc \in AtPool, NEW why, PoolFails(p, why)
    PROVE  LoadInv'
<1> DEFINE t == proc[p].todo
           s == proc[p].sessions
           b == proc[p].built
           r == proc'[p]
<1>1. proc[p].pc \in Building /\ proc[p].pc # "down"
  BY DEF Building, AtPool
<1>2. CASE Ends(p, why)
  BY <1>1, <1>2, EndsFits
<1>3. CASE ~Ends(p, why)
  <2>1. /\ proc' = [Next1(p) EXCEPT ![p].plan = NoPlan, ![p].bytes = NoData,
                        ![p].sessions = SubSeq(@, 1, Len(@) - proc[p].built)]
        /\ env' = env /\ source' = source /\ launched' = launched /\ Head(t).file.batch # 0
    BY <1>3 DEF PoolFails, Job
  <2>2. IsList(t) /\ t # <<>> /\ IsList(s) /\ b \in 0..Len(s)
    BY <1>1, TodoFacts
  <2>3. /\ \A q \in Procs : q # p => proc'[q] = proc[q]
        /\ r.sessions = SubSeq(s, 1, Len(s) - b) /\ r.pc = "load" /\ r.built = 0 /\ r.todo = Tail(t)
    BY <2>1, ProcFacts DEF Next1, Fields
  <2>4. IsList(Tail(t))
    BY <2>2, RestOfList
  <2> HIDE DEF t, s, b, r
  <2>5. Carries(t, b, s, Tail(t), 0, SubSeq(s, 1, Len(s) - b))
    BY <2>1, <2>2, DropCarries
  <2>6. Carries(t, b, s, r.todo, r.built, r.sessions) /\ IsList(r.todo)
    BY <2>3, <2>4, <2>5
  <2> QED
    BY <1>1, <2>1, <2>3, <2>6, LoopFits DEF t, b, s, r
<1> QED
  BY <1>2, <1>3

\* commit_from_memory.
LEMMA CommitFits == ASSUME StartupInv, LoadInv, NEW p \in Procs, Commit(p) PROVE LoadInv'
<1>1. proc[p].pc \in AtPool
  BY DEF Commit, AtPool
<1>2. CASE PoolFails(p, "cache")
  BY <1>1, <1>2, PoolFailsFits
<1>3. CASE ~PoolFails(p, "cache")
  <2>1. proc' = Built(p) /\ env' = env /\ source' = source /\ launched' = launched
    BY <1>3 DEF Commit
  <2> QED
    BY <1>1, <2>1, BuiltFits
<1> QED
  BY <1>2, <1>3

\* A miss without a cache file.
LEMMA NotWrittenFits == ASSUME StartupInv, LoadInv, NEW p \in Procs, NotWritten(p) PROVE LoadInv'
<1>1. proc[p].pc \in AtPool
  BY DEF NotWritten, AtPool
<1>2. CASE PoolFails(p, "write")
  BY <1>1, <1>2, PoolFailsFits
<1>3. CASE ~PoolFails(p, "write")
  <2>1. proc' = Built(p) /\ env' = env /\ source' = source /\ launched' = launched
    BY <1>3 DEF NotWritten
  <2> QED
    BY <1>1, <2>1, BuiltFits
<1> QED
  BY <1>2, <1>3

\* The optimized graph is on disk and the session built.
LEMMA FinishWriteFits == ASSUME StartupInv, LoadInv, NEW p \in Procs, FinishWrite(p) PROVE LoadInv'
<1>1. proc[p].pc \in AtPool
  BY DEF FinishWrite, AtPool
<1>2. CASE PoolFails(p, "write")
  BY <1>1, <1>2, PoolFailsFits
<1>3. CASE ~PoolFails(p, "write")
  <2>1. proc' = Built(p) /\ env' = env /\ source' = source /\ launched' = launched
    BY <1>3 DEF FinishWrite
  <2> QED
    BY <1>1, <2>1, BuiltFits
<1> QED
  BY <1>2, <1>3

\* A job that makes no pool.
LEMMA PassFits ==
    ASSUME StartupInv, LoadInv, NEW p \in Procs, env' = env, source' = source, launched' = launched,
           \A q \in Procs : q # p => proc'[q] = proc[q],
           proc[p].pc = "load", proc[p].todo # <<>>, Job(p).do # "pool",
           proc'[p].pc = "load", proc'[p].todo = Tail(proc[p].todo), proc'[p].built = 0,
           Len(proc'[p].sessions) = Len(proc[p].sessions),
           \A i \in 1..Len(proc[p].sessions) :
               /\ proc'[p].sessions[i].kind = proc[p].sessions[i].kind
               /\ proc'[p].sessions[i].name = proc[p].sessions[i].name
               /\ proc'[p].sessions[i].own = proc[p].sessions[i].own
    PROVE  LoadInv'
<1> DEFINE t == proc[p].todo
           s == proc[p].sessions
           b == proc[p].built
           s2 == proc'[p].sessions
<1>1. proc[p].pc \in Building
  BY DEF Building
<1>2. IsList(t) /\ t # <<>> /\ IsList(s) /\ b \in 0..Len(s) /\ Head(t).do # "pool"
  BY <1>1, TodoFacts DEF Job
<1>3. IsList(Tail(t))
  BY <1>2, RestOfList
<1>4. /\ Len(s2) = Len(s)
      /\ \A i \in 1..Len(s) : s2[i].kind = s[i].kind /\ s2[i].name = s[i].name /\ s2[i].own = s[i].own
  OBVIOUS
<1> HIDE DEF t, s, b, s2
<1>5. Carries(t, b, s, Tail(t), 0, s2)
  BY <1>2, <1>4, PassCarries
<1> QED
  BY <1>1, <1>3, <1>5, LoopFits DEF t, s, b, s2

\* warmup.
LEMMA WarmupFits == ASSUME StartupInv, LoadInv, NEW p \in Procs, Warmup(p) PROVE LoadInv'
<1> DEFINE l == proc[p].sessions
           E == EverySlot(p)
           shapes == Job(p).shapes
           m == Warmed(l, E, shapes)
<1>1. /\ proc' = [Next1(p) EXCEPT ![p].sessions =
                    [i \in DOMAIN proc[p].sessions |->
                        IF i \in EverySlot(p) THEN [@[i] EXCEPT !.warm = Job(p).shapes] ELSE @[i]]]
      /\ env' = env /\ source' = source /\ launched' = launched
      /\ proc[p].pc = "load" /\ proc[p].todo # <<>> /\ Job(p).do # "pool"
  BY DEF Warmup
<1>2. FreshList(l) /\ Len(l) \in Nat /\ DOMAIN l = 1..Len(l)
  BY ProcFacts, ListLength
<1> HIDE DEF E, shapes
<1>3. Len(m) = Len(l)
  BY <1>2, WarmList
<1>4. Next1(p)[p].sessions = l
  BY ProcFacts DEF Next1, Fields
<1>5. /\ \A q \in Procs : q # p => proc'[q] = proc[q]
      /\ proc'[p].sessions = m /\ proc'[p].todo = Tail(proc[p].todo)
      /\ proc'[p].pc = "load" /\ proc'[p].built = 0
  BY <1>1, <1>4, ProcFacts DEF Next1, Fields, E, shapes, Warmed
<1>6. ASSUME NEW i \in 1..Len(l) PROVE m[i].kind = l[i].kind /\ m[i].name = l[i].name /\ m[i].own = l[i].own
  <2>1. m[i] = IF i \in E THEN [l[i] EXCEPT !.warm = shapes] ELSE l[i]
    BY <1>2 DEF Warmed
  <2>2. FreshSession(l[i])
    BY <1>2 DEF FreshList
  <2> QED
    BY <2>1
<1> HIDE DEF m
<1> QED
  BY <1>1, <1>3, <1>5, <1>6, PassFits

\* The batchers.
LEMMA StartBatchersFits == ASSUME StartupInv, LoadInv, NEW p \in Procs, StartBatchers(p) PROVE LoadInv'
<1>0. proc[p].pc = "load" /\ proc[p].todo # <<>> /\ Job(p).do # "pool"
  BY DEF StartBatchers
<1>1. CASE Ends(p, "panic")
  BY <1>0, <1>1, EndsFits
<1>2. CASE ~Ends(p, "panic")
  <2>1. proc' = Next1(p) /\ env' = env /\ source' = source /\ launched' = launched
    BY <1>2 DEF StartBatchers
  <2>2. /\ \A q \in Procs : q # p => proc'[q] = proc[q]
        /\ proc'[p].sessions = proc[p].sessions /\ proc'[p].todo = Tail(proc[p].todo)
        /\ proc'[p].pc = "load" /\ proc'[p].built = 0
    BY <2>1, ProcFacts DEF Next1, Fields
  <2> QED
    BY <1>0, <2>1, <2>2, PassFits
<1> QED
  BY <1>1, <1>2

\* All models are loaded.
LEMMA LoadedFits == ASSUME StartupInv, LoadInv, NEW p \in Procs, Loaded(p) PROVE LoadInv'
<1> DEFINE place == IF p = 0 THEN "bind" ELSE "up"
           r == proc'[p]
           old == proc[p]
<1>1. /\ proc' = [proc EXCEPT ![p].pc = place] /\ env' = env /\ source' = source
      /\ launched' = launched /\ old.pc = "load" /\ old.todo = <<>>
  BY DEF Loaded
<1> HIDE DEF place
<1>2. /\ \A q \in Procs : q # p => proc'[q] = proc[q]
      /\ r.sessions = old.sessions /\ r.todo = old.todo /\ r.built = old.built /\ r.pc = place
  BY <1>1, ProcFacts DEF Fields
<1>3. Fits(p, old) /\ old.built \in Nat
  <2>1. old.built \in 0..Len(old.sessions)
    BY <1>1, TodoFacts DEF Building
  <2> QED
    BY <2>1 DEF LoadInv
<1> HIDE DEF r, old
<1>4. CASE p = 0
  <2>1. place = "bind"
    BY <1>4 DEF place
  <2>2. ServerFits(old, Settings, Specs) /\ IsList(old.todo)
    BY <1>3, <1>4 DEF Fits
  <2>3. Settings # Err /\ ~Settings.multi_process
    BY <1>1, <2>2 DEF ServerFits, Building
  <2>4. \A i \in 1..AllOf(Settings) : Covers(r.todo, r.built, r.sessions, Specs[i])
    BY <1>1, <1>2, <2>2, <2>3 DEF ServerFits, Building
  <2>5. ServerFits(r, Settings, Specs)
    BY <1>1, <1>2, <1>3, <2>1, <2>3, <2>4 DEF ServerFits, Building, AtPool
  <2>6. Fits(p, r)
    BY <1>2, <1>4, <2>1, <2>2, <2>5 DEF Fits, AtPool
  <2> QED
    BY <1>1, <1>2, <2>6, OneFits DEF r
<1>5. CASE p # 0
  <2>1. place = "up"
    BY <1>5 DEF place
  <2>2. WorkerFits(old, Settings, Specs, p, PlanFor(p)) /\ IsList(old.todo)
    BY <1>1, <1>3, <1>5 DEF Fits
  <2>3. WorkerFits(r, Settings, Specs, p, PlanFor(p))
    BY <1>1, <1>2, <1>3, <2>1, <2>2 DEF WorkerFits, Building
  <2>4. Fits(p, r)
    BY <1>2, <1>5, <2>1, <2>2, <2>3 DEF Fits, AtPool
  <2> QED
    BY <1>1, <1>2, <2>4, OneFits DEF r
<1> QED
  BY <1>4, <1>5

\* A worker is started: it has to be one the configuration asks for.
LEMMA FreshFits ==
    ASSUME LoadInv, NEW w \in Workers, Settings # Err, w \in 1..AllOf(Settings),
           NEW r, r = [Down EXCEPT !.pc = "config"]
    PROVE  Fits(w, r)
<1>1. r.pc = "config" /\ r.todo = <<>> /\ r.sessions = <<>> /\ r.built = 0
  BY DEF Down
<1>2. IsList(r.todo)
  BY <1>1, EmptyList DEF FreshList, IsList
<1>3. WorkerFits(r, Settings, Specs, w, PlanFor(w))
  BY <1>1 DEF WorkerFits, Building, AtPool
<1>4. w # 0
  BY DEF Workers
<1> QED
  BY <1>1, <1>2, <1>3, <1>4 DEF Fits, AtPool

\* WorkerSupervisor::launch.
LEMMA SpawnFits == ASSUME StartupInv, LoadInv, Spawn PROVE LoadInv'
<1> DEFINE old == proc[0]
           n == old.built
<1>1. 0 \in Procs /\ old.pc = "spawn" /\ env' = env /\ source' = source /\ launched' = launched
  BY ServerIsOne DEF Spawn
<1>2. Fits(0, old) /\ ServerFits(old, Settings, Specs) /\ IsList(old.todo)
  BY <1>1 DEF LoadInv, Fits
<1>3. Settings # Err /\ Settings.multi_process /\ n \in 0..AllOf(Settings)
  BY <1>1, <1>2 DEF ServerFits
<1>4. AllOf(Settings) \in Nat
  BY <1>3, PoolSizeFacts
<1>5. CASE n = AllOf(Settings)
  <2> DEFINE r == proc'[0]
  <2>1. proc' = [proc EXCEPT ![0].pc = "await"]
    BY <1>5 DEF Spawn, Started, Settings
  <2>2. /\ \A q \in Procs : q # 0 => proc'[q] = proc[q]
        /\ r.todo = old.todo /\ r.built = n /\ r.pc = "await"
    BY <1>1, <2>1, ProcFacts DEF Fields
  <2> HIDE DEF r, old, n
  <2>3. ServerFits(r, Settings, Specs)
    BY <1>3, <1>5, <2>2 DEF ServerFits, Building, AtPool
  <2>4. Fits(0, r)
    BY <1>2, <2>2, <2>3 DEF Fits, AtPool
  <2> QED
    BY <1>1, <2>2, <2>4, OneFits DEF r
<1>6. CASE n # AllOf(Settings)
  <2> DEFINE w == n + 1
             c == [Down EXCEPT !.pc = "config"]
  <2>1. proc' = [proc EXCEPT ![0].built = @ + 1, ![w] = c]
    BY <1>6 DEF Spawn, Started, Settings
  <2>2. w \in 1..AllOf(Settings) /\ w # 0
    BY <1>3, <1>4, <1>6
  <2>3. n + 1 \in 0..AllOf(Settings)
    BY <1>3, <1>4, <1>6
  <2> HIDE DEF w, c
  <2>4. ASSUME NEW q \in Procs PROVE Fits(q, proc'[q])
    <3>1. CASE q = w
      <4>1. proc'[q] = c /\ q \in Workers
        BY <2>1, <2>2, <3>1, ProcFacts DEF Workers
      <4> QED
        BY <1>3, <2>2, <3>1, <4>1, FreshFits DEF c
    <3>2. CASE q = 0
      <4> DEFINE r == proc'[q]
      <4>1. r = [old EXCEPT !.built = @ + 1]
        BY <1>1, <2>1, <2>2, <3>2, ProcFacts
      <4>2. r.todo = old.todo /\ r.pc = "spawn" /\ r.built = n + 1
        BY <1>1, <4>1, ProcFacts DEF Fields
      <4> HIDE DEF r, old, n
      <4>3. ServerFits(r, Settings, Specs)
        BY <1>3, <2>3, <4>2 DEF ServerFits, Building, AtPool
      <4>4. Fits(0, r)
        BY <1>2, <4>2, <4>3 DEF Fits, AtPool
      <4> QED
        BY <3>2, <4>4 DEF r
    <3>3. CASE q # w /\ q # 0
      <4>1. proc'[q] = proc[q]
        BY <2>1, <3>3, ProcFacts
      <4> QED
        BY <4>1 DEF LoadInv
    <3> QED
      BY <3>1, <3>2, <3>3
  <2>5. SameFiles /\ launched' \subseteq Workers
    BY <1>1 DEF SameFiles, LoadInv
  <2> QED
    BY <1>1, <2>4, <2>5, FitsKept
<1> QED
  BY <1>5, <1>6

\* All workers are there.
LEMMA AwaitAllFits == ASSUME StartupInv, LoadInv, AwaitAll PROVE LoadInv'
<1> DEFINE old == proc[0]
           r == proc'[0]
<1>1. /\ 0 \in Procs /\ old.pc = "await" /\ launched = 1..old.built
      /\ proc' = [proc EXCEPT ![0].pc = "bind"] /\ env' = env /\ source' = source /\ launched' = launched
  BY ServerIsOne DEF AwaitAll, Started
<1>2. Fits(0, old) /\ ServerFits(old, Settings, Specs) /\ IsList(old.todo)
  BY <1>1 DEF LoadInv, Fits
<1>3. Settings # Err /\ Settings.multi_process /\ old.built = AllOf(Settings)
  BY <1>1, <1>2 DEF ServerFits
<1>4. AllOf(Settings) \in Nat /\ MaxWorkers \in Nat
  BY <1>3, PoolSizeFacts, StartupAssumption
<1>5. 1..AllOf(Settings) \subseteq 0..MaxWorkers
  BY <1>1, <1>3 DEF LoadInv, Workers, Procs
<1>6. AllOf(Settings) <= MaxWorkers
  BY <1>4, <1>5
<1>7. /\ \A q \in Procs : q # 0 => proc'[q] = proc[q]
      /\ r.todo = old.todo /\ r.pc = "bind"
  BY <1>1, ProcFacts DEF Fields
<1> HIDE DEF r, old
<1>8. ServerFits(r, Settings, Specs)
  BY <1>3, <1>6, <1>7 DEF ServerFits, Building, AtPool
<1>9. Fits(0, r)
  BY <1>2, <1>7, <1>8 DEF Fits, AtPool
<1> QED
  BY <1>1, <1>7, <1>9, OneFits DEF r

\* The server binds its port or ends.
LEMMA BindFits == ASSUME StartupInv, LoadInv, Bind PROVE LoadInv'
<1> DEFINE old == proc[0]
           r == proc'[0]
<1>1. 0 \in Procs /\ old.pc = "bind"
  BY ServerIsOne DEF Bind
<1>2. CASE Ends(0, "port")
  BY <1>1, <1>2, EndsFits
<1>3. CASE ~Ends(0, "port")
  <2>1. proc' = [proc EXCEPT ![0].pc = "up"] /\ env' = env /\ source' = source /\ launched' = launched
    BY <1>3 DEF Bind
  <2>2. Fits(0, old) /\ ServerFits(old, Settings, Specs) /\ IsList(old.todo)
    BY <1>1 DEF LoadInv, Fits
  <2>3. /\ \A q \in Procs : q # 0 => proc'[q] = proc[q]
        /\ r.todo = old.todo /\ r.sessions = old.sessions /\ r.built = old.built /\ r.pc = "up"
    BY <1>1, <2>1, ProcFacts DEF Fields
  <2> HIDE DEF r, old
  <2>4. ServerFits(r, Settings, Specs)
    BY <1>1, <2>2, <2>3 DEF ServerFits, Building, AtPool
  <2>5. Fits(0, r)
    BY <2>2, <2>3, <2>4 DEF Fits, AtPool
  <2> QED
    BY <1>1, <2>1, <2>3, <2>5, OneFits DEF r
<1> QED
  BY <1>2, <1>3

\* The supervisor starts a worker again.
LEMMA RespawnFits == ASSUME StartupInv, LoadInv, NEW w \in Workers, Respawn(w) PROVE LoadInv'
<1>1. /\ proc[w].pc = "dead" /\ proc' = [proc EXCEPT ![w] = [Down EXCEPT !.pc = "config"]]
      /\ env' = env /\ source' = source /\ launched' = launched
  BY DEF Respawn
<1>2. w \in Procs /\ w # 0
  BY DEF Workers
<1>3. WorkerFits(proc[w], Settings, Specs, w, PlanFor(w))
  BY <1>1, <1>2 DEF LoadInv, Fits
<1>4. Settings # Err /\ w \in 1..AllOf(Settings)
  BY <1>3 DEF WorkerFits
<1>5. (\A q \in Procs : q # w => proc'[q] = proc[q]) /\ proc'[w] = [Down EXCEPT !.pc = "config"]
  BY <1>1, <1>2, ProcFacts
<1>6. Fits(w, proc'[w])
  BY <1>4, <1>5, FreshFits
<1> QED
  BY <1>1, <1>2, <1>5, <1>6, OneFits

\* A model file is replaced: it was there and still is.
LEMMA DeployFits == ASSUME StartupInv, LoadInv, NEW f \in Replaced, Deploy(f) PROVE LoadInv'
<1>1. /\ source[f] \in 1..(MaxVersion - 1) /\ source' = [source EXCEPT ![f] = @ + 1]
      /\ proc' = proc /\ env' = env /\ launched' = launched
  BY DEF Deploy
<1>2. f \in Files /\ MaxVersion \in Nat /\ source \in [Files -> 0..MaxVersion]
  BY StartupAssumption DEF StartupInv
<1>3. SameFiles
  <2>1. ASSUME NEW g \in Files PROVE source'[g] > 0 <=> source[g] > 0
    <3>1. CASE g = f
      <4>1. source'[g] = source[f] + 1 /\ source[f] > 0 /\ source[f] \in Nat
        BY <1>1, <1>2, <3>1
      <4> QED
        BY <3>1, <4>1
    <3>2. CASE g # f
      BY <1>1, <1>2, <3>2
    <3> QED
      BY <3>1, <3>2
  <2> QED
    BY <2>1 DEF SameFiles
<1>4. launched' \subseteq Workers /\ \A p \in Procs : Fits(p, proc'[p])
  BY <1>1 DEF LoadInv
<1> QED
  BY <1>1, <1>3, <1>4, FitsKept

\* LoadInv is inductive, with StartupInv.
LEMMA LoadInductive == ASSUME StartupInv, LoadInv, [Next]_vars PROVE LoadInv'
<1>1. CASE UNCHANGED vars
  <2>1. env' = env /\ source' = source /\ launched' = launched /\ proc' = proc
    BY <1>1 DEF vars
  <2>2. 0 \in Procs /\ Fits(0, proc'[0])
    BY <2>1, ServerIsOne DEF LoadInv
  <2> QED
    BY <2>1, <2>2, OneFits
<1>2. CASE Boot \/ Spawn \/ AwaitAll \/ Bind
  BY <1>2, BootFits, SpawnFits, AwaitAllFits, BindFits
<1>3. ASSUME NEW p \in Procs, Load(p) PROVE LoadInv'
  BY <1>3, ArenaFits, ConfigFits, DecideFits, ReadFits, CommitFits, StartWriteFits,
     NotWrittenFits, FinishWriteFits, WarmupFits, StartBatchersFits, LoadedFits DEF Load
<1>4. ASSUME NEW p \in Procs, Kill(p) PROVE LoadInv'
  BY <1>4, EndsFits DEF Kill
<1>5. ASSUME NEW w \in Workers, Launched(w) PROVE LoadInv'
  <2>1. /\ env' = env /\ source' = source /\ proc' = proc /\ launched' = launched \cup {w}
    BY <1>5 DEF Launched
  <2>2. SameFiles /\ launched' \subseteq Workers /\ \A p \in Procs : Fits(p, proc'[p])
    BY <2>1 DEF SameFiles, LoadInv
  <2> QED
    BY <2>1, <2>2, FitsKept
<1>6. ASSUME NEW w \in Workers, LaunchFails(w) PROVE LoadInv'
  <2>1. Ends(0, "worker") /\ proc[0].pc # "down"
    BY <1>6 DEF LaunchFails
  <2> QED
    BY <2>1, ServerIsOne, EndsFits
<1>7. ASSUME NEW w \in Workers, Respawn(w) PROVE LoadInv'
  BY <1>7, RespawnFits
<1>8. ASSUME NEW f \in Replaced, Deploy(f) PROVE LoadInv'
  BY <1>8, DeployFits
<1> QED
  BY <1>1, <1>2, <1>3, <1>4, <1>5, <1>6, <1>7, <1>8 DEF Next

\* It holds before anything is started.
LEMMA LoadInitially == ASSUME Init PROVE LoadInv
<1>1. env \in Environments /\ launched = {} /\ proc = [p \in Procs |-> Down]
  BY DEF Init
<1>2. Down.todo = <<>> /\ Down.pc = "down"
  BY DEF Down
<1>3. \A p \in Procs : proc[p] = Down
  BY <1>1
<1>4. \A p \in Procs : Fits(p, proc[p])
  BY <1>2, <1>3, OverFits
<1> QED
  BY <1>1, <1>4 DEF LoadInv

\* The sessions of a worker that listens: as many of its model as it lets requests in.
LEMMA WorkerUp ==
    ASSUME StartupInv, LoadInv, NEW w \in Workers, proc[w].pc = "up"
    PROVE  /\ Settings # Err /\ w \in 1..AllOf(Settings)
           /\ Cardinality(Dynamic(w, Specs[w].kind, Specs[w].model)) = Specs[w].pool_size
           /\ \A i \in 1..Len(proc[w].sessions) :
                  FromPlan(PlanFor(w), proc[w].sessions[i].kind, proc[w].sessions[i].name,
                           proc[w].sessions[i].own, proc[w].sessions[i].options)
<1> DEFINE r == proc[w]
           spec == Specs[w]
           n == spec.pool_size
           s == r.sessions
<1>1. w \in Procs /\ w # 0
  BY DEF Workers
<1>2. WorkerFits(r, Settings, Specs, w, PlanFor(w))
  BY <1>1 DEF LoadInv, Fits
<1>3. /\ Settings # Err /\ w \in 1..AllOf(Settings) /\ r.todo = <<>> /\ r.built \in Nat
      /\ Filled(r.todo, r.built, s, spec, PlanFor(w))
  BY <1>2 DEF WorkerFits
<1>4. n \in Nat
  BY <1>3, PoolSizeFacts
<1>5. Len(s) \in Nat /\ DOMAIN s = 1..Len(s)
  BY <1>1, TodoFacts, ListPlaces
<1>6. ~InFirst(r.todo, r.built, s, spec)
  BY <1>3 DEF InFirst
<1>7. PastFirst(r.todo, r.built, s, spec)
  BY <1>3, <1>6 DEF Filled
<1>8. n <= Len(s) /\ \A i \in 1..Len(s) : i <= n <=> OfSpec(s[i], spec)
  BY <1>3, <1>4, <1>5, <1>7 DEF PastFirst
<1>9. Dynamic(w, spec.kind, spec.model) = {i \in 1..Len(s) : OfSpec(s[i], spec)}
  BY <1>5 DEF Dynamic, OfSpec
<1>10. {i \in 1..Len(s) : OfSpec(s[i], spec)} = 1..n
  <2> HIDE DEF s, n
  <2> QED
    BY <1>4, <1>5, <1>8
<1>11. Cardinality(1..n) = n
  <2>1. Cardinality(1..n) = IF 1 > n THEN 0 ELSE n - 1 + 1
    BY <1>4, FS_Interval
  <2> QED
    BY <1>4, <2>1
<1> QED
  BY <1>3, <1>9, <1>10, <1>11 DEF Filled

\* It implies that a worker's sessions have the options of the server's.
LEMMA LoadSameOptions == ASSUME StartupInv, LoadInv PROVE SameOptionsEitherMode
<1> DEFINE all == ServerPlan(env, from_env(env))
<1>1. ASSUME NEW w \in Workers, proc[w].pc = "up", NEW i \in DOMAIN proc[w].sessions
      PROVE  \E j \in DOMAIN all :
                 /\ all[j].do = "pool" /\ all[j].kind = proc[w].sessions[i].kind
                 /\ all[j].name = proc[w].sessions[i].name
                 /\ all[j].file = proc[w].sessions[i].own
                 /\ all[j].options = proc[w].sessions[i].options
  <2> DEFINE s == proc[w].sessions[i]
             plan == PlanFor(w)
  <2>0. w \in Procs
    BY DEF Workers
  <2>1. i \in 1..Len(proc[w].sessions)
    BY <2>0, TodoFacts, ListPlaces
  <2>2. Settings # Err /\ w \in 1..AllOf(Settings) /\ FromPlan(plan, s.kind, s.name, s.own, s.options)
    BY <1>1, <2>1, WorkerUp
  <2>3. SpecIn(Specs[w], Settings) /\ env \in Environments
    BY <2>2, PoolSizeFacts DEF LoadInv
  <2>4. Served(plan, all)
    BY <2>2, <2>3, WorkerLoadsPools DEF Settings, PlanFor
  <2>5. IsList(all)
    BY <2>2, <2>3, ServerHas DEF Settings
  <2>6. DOMAIN all = 1..Len(all)
    BY <2>5, ListPlaces
  <2> HIDE DEF s, all, plan
  <2>7. \E j \in 1..Len(all) : /\ all[j].do = "pool" /\ all[j].kind = s.kind /\ all[j].name = s.name
                               /\ all[j].file = s.own /\ all[j].options = s.options
    BY <2>2, <2>4 DEF FromPlan, Served
  <2> QED
    BY <2>6, <2>7 DEF s
<1> QED
  BY <1>1 DEF SameOptionsEitherMode

\* It implies that the models of the configuration have sessions.
LEMMA LoadServes == ASSUME StartupInv, LoadInv PROVE ServesItsModels
<1> SUFFICES ASSUME proc[0].pc = "up" PROVE ServesItsModels
  BY DEF ServesItsModels
<1> DEFINE r == proc[0]
           s == r.sessions
<1>1. ServerFits(r, Settings, Specs)
  BY ServerIsOne DEF LoadInv, Fits
<1>2. Settings # Err
  BY <1>1 DEF ServerFits
<1>3. /\ AllOf(Settings) \in Nat /\ DOMAIN Specs = 1..AllOf(Settings)
      /\ \A i \in 1..AllOf(Settings) : Specs[i].pool_size \in Nat \ {0}
  BY <1>2, PoolSizeFacts
<1>4. \E i \in DOMAIN Specs : Specs[i].kind = "embed" /\ Specs[i].model = Settings.default_model
  <2>1. env \in Environments
    BY DEF LoadInv
  <2> QED
    BY <1>2, <1>3, <2>1, SpecsAre DEF Settings, Specs
<1>5. ASSUME NEW i \in DOMAIN Specs, Settings.multi_process, proc[i].pc = "up"
      PROVE  /\ Specs[i].pool_size > 0
             /\ Cardinality(Dynamic(i, Specs[i].kind, Specs[i].model)) = Specs[i].pool_size
  <2>1. AllOf(Settings) <= MaxWorkers /\ MaxWorkers \in Nat
    BY <1>1, <1>5, StartupAssumption DEF ServerFits
  <2>2. i \in Workers
    BY <1>3, <2>1 DEF Workers, Procs
  <2>3. Cardinality(Dynamic(i, Specs[i].kind, Specs[i].model)) = Specs[i].pool_size
    BY <1>5, <2>2, WorkerUp
  <2>4. Specs[i].pool_size > 0
    BY <1>3
  <2> QED
    BY <2>3, <2>4
<1>6. ASSUME NEW i \in DOMAIN Specs, ~Settings.multi_process
      PROVE  Dynamic(0, Specs[i].kind, Specs[i].model) # {}
  <2>1. r.todo = <<>> /\ r.built \in Nat /\ Covers(r.todo, r.built, s, Specs[i])
    BY <1>1, <1>3, <1>6 DEF ServerFits
  <2>2. Len(s) \in Nat /\ DOMAIN s = 1..Len(s)
    BY ServerIsOne, TodoFacts, ListPlaces
  <2>3. PICK x \in 1..(Len(s) - r.built) : OfSpec(s[x], Specs[i])
    BY <2>1 DEF Covers
  <2>4. x \in DOMAIN s
    BY <2>1, <2>2, <2>3
  <2> QED
    BY <2>3, <2>4 DEF Dynamic, OfSpec
<1> QED
  BY <1>4, <1>5, <1>6 DEF ServesItsModels, Settings, Specs

\* StandaloneEmbedder, StandaloneReranker and StandaloneSplade with the loads of main.rs:
\* for any environment, any files and any number of workers, a session of a worker that
\* listens has the options the server would have given it in one process.
THEOREM OptionsAgree == Spec => []SameOptionsEitherMode
<1>1. Init => StartupInv /\ LoadInv
  BY StartupInitially, LoadInitially
<1>2. StartupInv /\ LoadInv /\ [Next]_vars => (StartupInv /\ LoadInv)'
  BY StartupInductive, LoadInductive
<1>3. StartupInv /\ LoadInv => SameOptionsEitherMode
  BY LoadSameOptions
<1> QED
  BY <1>1, <1>2, <1>3, PTL DEF Spec

\* main.rs, bin/worker.rs and Config::from_env: for any environment that is accepted, a
\* server that listens can serve every model it is configured with, whichever processes
\* are killed and whichever static pools fail: in one process each model has a session, a
\* worker that listens has exactly as many as it lets requests in, never none.
THEOREM ModelsAreServed == Spec => []ServesItsModels
<1>1. Init => StartupInv /\ LoadInv
  BY StartupInitially, LoadInitially
<1>2. StartupInv /\ LoadInv /\ [Next]_vars => (StartupInv /\ LoadInv)'
  BY StartupInductive, LoadInductive
<1>3. StartupInv /\ LoadInv => ServesItsModels
  BY LoadServes
<1> QED
  BY <1>1, <1>2, <1>3, PTL DEF Spec
==============================================================================
