--------------------------- MODULE EmbeddingsProofs ---------------------------
(***************************************************************************)
(* Proofs about Embeddings, for every set of requests, models and texts and    *)
(* every capacity of the cache.                                               *)
(***************************************************************************)
EXTENDS Embeddings, FiniteSetTheorems, TLAPS

USE DEF localVars, vars

PcStates == {"new", "probe", "await", "scatter", "done", "dropped"}

Slots == (Names \X InputTypes \X Texts) \cup {NoVector}

TypeOK == /\ backend \in Backends
          /\ pc     \in [Requests -> PcStates]
          /\ body   \in [Requests -> Bodies]
          /\ pos    \in [Requests -> Nat \ {0}]
          /\ status \in [Requests -> Nat]
          /\ DOMAIN cached = Requests /\ DOMAIN pending = Requests
          /\ DOMAIN order = Requests /\ DOMAIN vecs = Requests

\* The vector of position i has been found.
Found(r, i) == cached[r][i] = Vector(body[r], body[r].texts[i])

\* Position i waits for the vector of its text.
Waits(r, i) == i \in pending[r][body[r].texts[i]]

\* A position waits for no text but its own.
PendingOwn(r) == /\ DOMAIN pending[r] = Texts
                 /\ \A t \in Texts : pending[r][t] \subseteq {i \in DOMAIN body[r].texts : body[r].texts[i] = t}

\* Every position behind the loop has been found or waits.
Split(r) == /\ cached[r] \in [DOMAIN body[r].texts -> Slots]
            /\ \A i \in DOMAIN body[r].texts : i < pos[r] => Found(r, i) \/ Waits(r, i)

\* Every position has been found or waits for a text that is sent.
Sent(r, from) == /\ cached[r] \in [DOMAIN body[r].texts -> Slots]
                 /\ order[r] \in Seq(Texts) /\ order[r] # <<>>
                 /\ \A i \in DOMAIN body[r].texts :
                       Found(r, i) \/ (Waits(r, i) /\ \E n \in DOMAIN order[r] : n >= from /\ order[r][n] = body[r].texts[i])

HandlerInv(r) ==
    /\ PendingOwn(r)
    /\ pc[r] = "new" => pos[r] = 1
    /\ pc[r] = "probe" => Split(r)
    /\ pc[r] = "await" => Sent(r, 1)
    /\ pc[r] = "scatter" => /\ Sent(r, pos[r])
                            /\ vecs[r] = [n \in DOMAIN order[r] |-> Vector(body[r], order[r][n])]
    /\ status[r] = 200 =>
          /\ pc[r] = "done"
          /\ cached[r] = [i \in DOMAIN body[r].texts |-> Vector(body[r], body[r].texts[i])]

IInv == TypeOK /\ CacheSound /\ \A r \in Requests : HandlerInv(r)

(* ---------------------------------------------------------------------- *)

\* The key of a vector says the model, the input type and the text.
LEMMA KeyInjective ==
  ASSUME NEW b \in Bodies, NEW c \in Bodies, NEW t, NEW u, Key(b, t) = Key(c, u)
  PROVE  Vector(b, t) = Vector(c, u)
<1>1. b.input_type \in {"document", "query"} /\ c.input_type \in {"document", "query"}
  BY EmbeddingsAssumption DEF InputTypes
<1>2. t = u /\ cache_model_key(b) = cache_model_key(c)
  BY DEF Key
<1>3. Len(<<b.model>>) = 1 /\ Len(<<c.model>>) = 1 /\ Len(<<b.model, "query">>) = 2 /\ Len(<<c.model, "query">>) = 2
  OBVIOUS
<1>4. b.input_type = c.input_type
  BY <1>1, <1>2, <1>3 DEF cache_model_key
<1>5. b.model = c.model
  BY <1>1, <1>2, <1>4 DEF cache_model_key
<1> QED
  BY <1>2, <1>4, <1>5 DEF Vector

\* The parts of a request.
LEMMA BodyType ==
  ASSUME TypeOK, NEW r \in Requests
  PROVE  /\ body[r] \in Bodies /\ body[r].texts \in Seq(Texts)
         /\ \A i \in DOMAIN body[r].texts : body[r].texts[i] \in Texts
         /\ \A t \in Texts : Vector(body[r], t) \in Slots
<1>1. body[r] \in [model : Names, input_type : InputTypes, texts : Seq(Texts)] /\ body[r] \in Bodies
  BY EmbeddingsAssumption DEF TypeOK
<1> QED
  BY <1>1 DEF Vector, Slots

\* A step of one handler leaves the others as they are.
LEMMA OthersKeep ==
  ASSUME NEW q \in Requests, HandlerInv(q), body' = body, pc'[q] = pc[q], pos'[q] = pos[q],
         cached'[q] = cached[q], pending'[q] = pending[q], order'[q] = order[q], vecs'[q] = vecs[q],
         status'[q] = status[q]
  PROVE  HandlerInv(q)'
BY DEF HandlerInv, PendingOwn, Split, Sent, Found, Waits

\* An insertion of the right vector leaves the cache sound, whatever it evicts.
LEMMA InsertSound ==
  ASSUME CacheSound, NEW b \in Bodies, NEW t \in Texts, cache' = Inserted(Key(b, t), Vector(b, t))
  PROVE  CacheSound'
<1> SUFFICES ASSUME NEW c \in Bodies, NEW u \in Texts, Key(c, u) \in DOMAIN cache'
             PROVE  cache'[Key(c, u)] = Vector(c, u)
  BY DEF CacheSound, Key, cache_model_key, Vector
<1>1. CASE MaxEntries = 0
  BY <1>1 DEF Inserted, CacheSound
<1>2. CASE MaxEntries # 0
  <2>1. CASE Key(c, u) = Key(b, t)
    <3>1. cache'[Key(c, u)] = Vector(b, t)
      BY <1>2, <2>1 DEF Inserted
    <3>2. Vector(b, t) = Vector(c, u)
      BY <2>1, KeyInjective
    <3> QED
      BY <3>1, <3>2
  <2>2. CASE Key(c, u) # Key(b, t)
    BY <1>2, <2>2 DEF Inserted, CacheSound
  <2> QED
    BY <2>1, <2>2
<1> QED
  BY <1>1, <1>2

\* A new server.
LEMMA InitIInv == Init => IInv
<1> SUFFICES ASSUME Init PROVE IInv
  OBVIOUS
<1>1. TypeOK
  BY DEF Init, TypeOK, PcStates
<1>2. CacheSound
  BY DEF Init, CacheSound
<1>3. ASSUME NEW r \in Requests PROVE HandlerInv(r)
  BY DEF Init, HandlerInv, PendingOwn, NoPending
<1> QED
  BY <1>1, <1>2, <1>3 DEF IInv

\* What is left of a handler's step once its own part of the invariant is shown.
Alone(r) == \A q \in Requests : q # r =>
                /\ pc'[q] = pc[q] /\ pos'[q] = pos[q] /\ cached'[q] = cached[q] /\ pending'[q] = pending[q]
                /\ order'[q] = order[q] /\ vecs'[q] = vecs[q] /\ status'[q] = status[q]

\* A step of one handler that leaves the others alone.
LEMMA StepIInv ==
  ASSUME IInv, NEW r \in Requests, body' = body, Alone(r), TypeOK', CacheSound', HandlerInv(r)'
  PROVE  IInv'
<1>1. ASSUME NEW q \in Requests, q # r PROVE HandlerInv(q)'
  BY <1>1, OthersKeep DEF IInv, Alone
<1> QED
  BY <1>1 DEF IInv

\* What a handler waits for depends on its own state only.
LEMMA PendingKept ==
  ASSUME IInv, NEW r \in Requests, body' = body, pending' = pending PROVE PendingOwn(r)'
<1>1. PendingOwn(r)
  BY DEF IInv, HandlerInv
<1> QED
  BY <1>1 DEF PendingOwn

\* An answer that is not 200 promises nothing.
LEMMA RespondError ==
  ASSUME IInv, NEW r \in Requests, NEW code \in Nat, code # 200, Respond(r, code),
         UNCHANGED <<backend, cache, localVars>>
  PROVE  IInv'
<1>1. TypeOK'
  BY DEF IInv, TypeOK, Respond, PcStates
<1>2. Alone(r)
  BY DEF IInv, TypeOK, Respond, Alone
<1>3. CacheSound'
  BY DEF IInv, CacheSound, Key, cache_model_key, Vector
<1>4. pc'[r] = "done" /\ status'[r] = code
  BY DEF IInv, TypeOK, Respond
<1>5. PendingOwn(r)'
  BY PendingKept
<1>6. HandlerInv(r)'
  BY <1>4, <1>5 DEF HandlerInv
<1> QED
  BY <1>1, <1>2, <1>3, <1>6, StepIInv

\* A request arrives.
LEMMA ArriveIInv == ASSUME IInv, NEW r \in Requests, Arrive(r) PROVE IInv'
<1>1. Rejection(body[r]) \in {0, 400, 503}
  BY DEF Rejection
<1>2. CASE Rejection(body[r]) # 0
  BY <1>1, <1>2, RespondError DEF Arrive
<1>3. CASE Rejection(body[r]) = 0
  <2>1. /\ pc[r] = "new" /\ pc' = [pc EXCEPT ![r] = "probe"]
        /\ cached' = [cached EXCEPT ![r] = [i \in DOMAIN body[r].texts |-> NoVector]]
        /\ UNCHANGED <<status, backend, server, cache, body, pos, pending, order, vecs>>
    BY <1>3 DEF Arrive
  <2>2. TypeOK' /\ Alone(r)
    BY <2>1 DEF IInv, TypeOK, Alone, PcStates
  <2>3. CacheSound'
    BY <2>1 DEF IInv, CacheSound, Key, cache_model_key, Vector
  <2>4. pc'[r] = "probe" /\ pos'[r] = 1 /\ cached'[r] = [i \in DOMAIN body[r].texts |-> NoVector] /\ status[r] # 200
    BY <2>1 DEF IInv, TypeOK, HandlerInv
  <2>5. Split(r)'
    <3>1. body[r].texts \in Seq(Texts)
      BY BodyType DEF IInv
    <3>2. cached'[r] \in [DOMAIN body[r].texts -> Slots]
      BY <2>4 DEF Slots
    <3>3. \A i \in DOMAIN body[r].texts : ~ (i < 1)
      BY <3>1
    <3> QED
      BY <2>1, <2>4, <3>2, <3>3 DEF Split
  <2>6. HandlerInv(r)'
    BY <2>1, <2>4, <2>5, PendingKept DEF HandlerInv
  <2> QED
    BY <2>1, <2>2, <2>3, <2>6, StepIInv
<1> QED
  BY <1>2, <1>3

\* One lookup: a hit is the right vector, a miss is noted under its text.
LEMMA ProbeIInv == ASSUME IInv, NEW r \in Requests, Probe(r) PROVE IInv'
<1> DEFINE i == pos[r]
           t == body[r].texts[i]
           k == Key(body[r], t)
<1>1. /\ pc[r] = "probe" /\ i <= Len(body[r].texts) /\ pos' = [pos EXCEPT ![r] = i + 1]
      /\ UNCHANGED <<backend, server, cache, pc, body, order, vecs, status>>
      /\ \/ /\ k \in DOMAIN cache /\ cached' = [cached EXCEPT ![r][i] = cache[k]] /\ pending' = pending
         \/ /\ k \notin DOMAIN cache /\ cached' = cached
            /\ pending' = [pending EXCEPT ![r] = Miss(@, t, i)]
  BY DEF Probe, Probing
<1>2. i \in Nat \ {0} /\ pos'[r] = i + 1 /\ pc'[r] = "probe" /\ status'[r] # 200
  BY <1>1 DEF IInv, TypeOK, HandlerInv
<1>3. i \in DOMAIN body[r].texts /\ t \in Texts
  BY <1>1, <1>2, BodyType DEF IInv
<1>4. TypeOK' /\ Alone(r)
  BY <1>1, <1>2 DEF IInv, TypeOK, Alone
<1>5. CacheSound'
  BY <1>1 DEF IInv, CacheSound, Key, cache_model_key, Vector
<1>6. PendingOwn(r) /\ Split(r)
  BY <1>1 DEF IInv, HandlerInv
<1>7. PendingOwn(r)' /\ Split(r)'
  <2>1. CASE k \in DOMAIN cache
    <3>1. cache[k] = Vector(body[r], t) /\ Vector(body[r], t) \in Slots
      BY <1>3, <2>1, BodyType DEF IInv, CacheSound
    <3>2. cached'[r] = [cached[r] EXCEPT ![i] = cache[k]] /\ pending' = pending
      BY <1>1, <2>1 DEF IInv, TypeOK
    <3>3. cached'[r] \in [DOMAIN body[r].texts -> Slots]
      BY <1>6, <3>1, <3>2 DEF Split
    <3>4. ASSUME NEW j \in DOMAIN body[r].texts, j < i + 1 PROVE Found(r, j)' \/ Waits(r, j)'
      <4>1. CASE j = i
        BY <1>1, <1>3, <1>6, <3>1, <3>2, <4>1 DEF Found, Split, Vector
      <4>2. CASE j # i
        <5>1. j < i
          BY <1>2, <3>4, <4>2, BodyType DEF IInv
        <5> QED
          BY <1>1, <1>6, <3>2, <4>2, <5>1 DEF Found, Waits, Split, Vector
      <4> QED
        BY <4>1, <4>2
    <3> QED
      BY <1>1, <1>2, <1>6, <3>2, <3>3, <3>4 DEF PendingOwn, Split
  <2>2. CASE k \notin DOMAIN cache
    <3>1. pending'[r] = [pending[r] EXCEPT ![t] = pending[r][t] \cup {i}] /\ cached' = cached
      BY <1>1, <2>2 DEF IInv, TypeOK, Miss
    <3>2. PendingOwn(r)'
      <4>1. DOMAIN pending[r] = Texts /\ DOMAIN pending'[r] = Texts /\ body' = body
        BY <1>1, <1>6, <3>1 DEF PendingOwn
      <4>2. ASSUME NEW u \in Texts
            PROVE  pending'[r][u] \subseteq {n \in DOMAIN body[r].texts : body[r].texts[n] = u}
        <5>1. pending[r][u] \subseteq {n \in DOMAIN body[r].texts : body[r].texts[n] = u}
          BY <1>6 DEF PendingOwn
        <5>2. CASE u = t
          <6>1. pending'[r][u] = pending[r][u] \cup {i}
            BY <1>3, <3>1, <4>1, <5>2
          <6> QED
            BY <1>3, <5>1, <5>2, <6>1
        <5>3. CASE u # t
          BY <3>1, <4>1, <5>1, <5>3
        <5> QED
          BY <5>2, <5>3
      <4> QED
        BY <4>1, <4>2 DEF PendingOwn
    <3>3. ASSUME NEW j \in DOMAIN body[r].texts, j < i + 1 PROVE Found(r, j)' \/ Waits(r, j)'
      <4>1. CASE j = i
        BY <1>1, <1>3, <1>6, <3>1, <4>1 DEF Waits, PendingOwn
      <4>2. CASE j # i
        <5>1. j < i /\ body[r].texts[j] \in Texts
          BY <1>2, <3>3, <4>2, BodyType DEF IInv
        <5> QED
          BY <1>1, <1>6, <3>1, <5>1 DEF Found, Waits, Split, PendingOwn, Vector
      <4> QED
        BY <4>1, <4>2
    <3> QED
      BY <1>1, <1>2, <1>6, <3>1, <3>2, <3>3 DEF Split
  <2> QED
    BY <2>1, <2>2
<1>8. HandlerInv(r)'
  BY <1>2, <1>7 DEF HandlerInv
<1> QED
  BY <1>1, <1>4, <1>5, <1>8, StepIInv

\* Without a miss the answer is complete.
LEMMA AllHitsIInv == ASSUME IInv, NEW r \in Requests, AllHits(r) PROVE IInv'
<1>1. /\ pc[r] = "probe" /\ pos[r] > Len(body[r].texts) /\ Keys(pending[r]) = {} /\ Respond(r, 200)
      /\ UNCHANGED <<backend, cache, localVars>>
  BY DEF AllHits, Partitioned
<1>2. TypeOK' /\ Alone(r) /\ pc'[r] = "done"
  BY <1>1 DEF IInv, TypeOK, Respond, Alone, PcStates
<1>3. CacheSound'
  BY <1>1 DEF IInv, CacheSound, Key, cache_model_key, Vector
<1>4. Split(r)
  BY <1>1 DEF IInv, HandlerInv
<1>5. ASSUME NEW i \in DOMAIN body[r].texts PROVE Found(r, i)
  <2>1. body[r].texts \in Seq(Texts) /\ body[r].texts[i] \in Texts /\ pos[r] \in Nat
    BY BodyType DEF IInv, TypeOK
  <2>2. i < pos[r]
    BY <1>1, <2>1
  <2>3. ~ Waits(r, i)
    BY <1>1, <2>1 DEF Waits, Keys
  <2> QED
    BY <1>4, <2>2, <2>3 DEF Split
<1>6. cached[r] = [i \in DOMAIN body[r].texts |-> Vector(body[r], body[r].texts[i])]
  BY <1>4, <1>5 DEF Split, Found
<1>7. cached'[r] = [i \in DOMAIN body'[r].texts |-> Vector(body'[r], body'[r].texts[i])]
  BY <1>1, <1>6
<1>8. HandlerInv(r)'
  BY <1>1, <1>2, <1>7, PendingKept DEF HandlerInv, Vector
<1> QED
  BY <1>1, <1>2, <1>3, <1>8, StepIInv

\* The texts missed are sent in the order of the map.
LEMMA DispatchIInv == ASSUME IInv, NEW r \in Requests, Dispatch(r) PROVE IInv'
<1>1. PICK s \in Orders(Keys(pending[r])) :
        /\ pc[r] = "probe" /\ pos[r] > Len(body[r].texts) /\ Keys(pending[r]) # {}
        /\ order' = [order EXCEPT ![r] = s] /\ pc' = [pc EXCEPT ![r] = "await"]
        /\ UNCHANGED <<backend, server, cache, body, pos, cached, pending, vecs, status>>
  BY DEF Dispatch, Partitioned
<1>2. TypeOK' /\ Alone(r) /\ pc'[r] = "await" /\ order'[r] = s /\ status'[r] # 200
  BY <1>1 DEF IInv, TypeOK, Alone, PcStates, HandlerInv
<1>3. CacheSound'
  BY <1>1 DEF IInv, CacheSound, Key, cache_model_key, Vector
<1>4. Split(r) /\ PendingOwn(r)
  BY <1>1 DEF IInv, HandlerInv
<1>5. body[r].texts \in Seq(Texts) /\ pos[r] \in Nat
  BY BodyType DEF IInv, TypeOK
<1> DEFINE K == Keys(pending[r])
<1>6. Cardinality(K) \in Nat
  <2> DEFINE D == DOMAIN body[r].texts
             R == {body[r].texts[i] : i \in D}
  <2>1. IsFiniteSet(D)
    BY <1>5, FS_Interval
  <2>2. IsFiniteSet(R)
    <3>1. body[r].texts \in Surjection(D, R)
      BY <1>5 DEF Surjection
    <3> HIDE DEF D, R
    <3> QED
      BY <2>1, <3>1, FS_Surjection
  <2>3. K \subseteq R
    BY <1>4 DEF PendingOwn, Keys
  <2> HIDE DEF K, R
  <2> QED
    BY <2>2, <2>3, FS_Subset, FS_CardinalityType
<1>7. /\ s \in [1..Cardinality(K) -> K] /\ DOMAIN s = 1..Cardinality(K)
      /\ \A t \in K : \E n \in DOMAIN s : s[n] = t
  BY DEF Orders
<1>8. s \in Seq(Texts) /\ s # <<>>
  <2>1. K \subseteq Texts /\ K # {}
    BY <1>1 DEF Keys
  <2> HIDE DEF K
  <2>2. s \in Seq(Texts)
    BY <1>6, <1>7, <2>1
  <2>3. DOMAIN s # {}
    BY <1>7, <2>1
  <2> QED
    BY <2>2, <2>3
<1>9. ASSUME NEW i \in DOMAIN body[r].texts, ~ Found(r, i)
      PROVE  Waits(r, i) /\ \E n \in DOMAIN s : n >= 1 /\ s[n] = body[r].texts[i]
  <2>1. i < pos[r] /\ body[r].texts[i] \in Texts
    BY <1>1, <1>5
  <2>2. Waits(r, i)
    BY <1>4, <1>9, <2>1 DEF Split
  <2>3. body[r].texts[i] \in K
    BY <2>1, <2>2 DEF Waits, Keys
  <2> HIDE DEF K
  <2> QED
    BY <1>6, <1>7, <2>2, <2>3
<1>10. Sent(r, 1)'
  <2>2. \A i \in DOMAIN body[r].texts : (Found(r, i)' <=> Found(r, i)) /\ (Waits(r, i)' <=> Waits(r, i))
    BY <1>1 DEF Found, Waits, Vector
  <2> QED
    BY <1>1, <1>2, <1>4, <1>8, <1>9, <2>2 DEF Sent, Split
<1>11. HandlerInv(r)'
  BY <1>1, <1>2, <1>10, PendingKept DEF HandlerInv
<1> QED
  BY <1>1, <1>2, <1>3, <1>11, StepIInv

\* The backend fails.
LEMMA BackendFailsIInv == ASSUME IInv, NEW r \in Requests, BackendFails(r) PROVE IInv'
<1>1. PICK code \in Failures[backend] : Respond(r, code)
  BY DEF BackendFails
<1>2. code \in {429, 500, 503}
  BY DEF Failures, Backends, IInv, TypeOK
<1> QED
  BY <1>1, <1>2, RespondError DEF BackendFails

\* The backend answers in the order it was asked.
LEMMA BackendAnswersIInv == ASSUME IInv, NEW r \in Requests, BackendAnswers(r) PROVE IInv'
<1>1. PICK v \in Returned(r) :
        /\ pc[r] = "await" /\ UNCHANGED <<backend, server, cache, body, cached, pending, order>>
        /\ \/ ~ CountMatches(r, v) /\ Respond(r, 500) /\ UNCHANGED <<vecs, pos>>
           \/ /\ CountMatches(r, v) /\ pc' = [pc EXCEPT ![r] = "scatter"]
              /\ vecs' = [vecs EXCEPT ![r] = v] /\ pos' = [pos EXCEPT ![r] = 1] /\ status' = status
  BY DEF BackendAnswers
<1>2. CASE ~ CountMatches(r, v)
  BY <1>1, <1>2, RespondError
<1>3. CASE CountMatches(r, v)
  <2>1. TypeOK' /\ Alone(r) /\ pc'[r] = "scatter" /\ vecs'[r] = v /\ pos'[r] = 1 /\ status'[r] # 200
    BY <1>1, <1>3 DEF IInv, TypeOK, Alone, PcStates, HandlerInv
  <2>2. CacheSound'
    BY <1>1 DEF IInv, CacheSound, Key, cache_model_key, Vector
  <2>3. Sent(r, 1)
    BY <1>1 DEF IInv, HandlerInv
  <2>4. v = [n \in DOMAIN order[r] |-> Vector(body[r], order[r][n])]
    <3>1. order[r] \in Seq(Texts) /\ Len(order[r]) \in Nat \ {0} /\ DOMAIN order[r] = 1..Len(order[r])
      BY <2>3 DEF Sent
    <3>2. PICK m \in Nat : v = [n \in 1..m |-> Vector(body[r], order[r][n])]
      <4>1. \E m \in {Len(order[r]), Len(order[r]) - 1} : v = [n \in 1..m |-> Vector(body[r], order[r][n])]
        BY DEF Returned
      <4> QED
        BY <3>1, <4>1
    <3>3. Len(v) = m
      BY <3>2
    <3>4. m = Len(order[r])
      BY <1>3, <3>3 DEF CountMatches
    <3> QED
      BY <3>1, <3>2, <3>4
  <2>5. Sent(r, 1)'
    <3>1. \A i \in DOMAIN body[r].texts : (Found(r, i)' <=> Found(r, i)) /\ (Waits(r, i)' <=> Waits(r, i))
      BY <1>1 DEF Found, Waits, Vector
    <3> QED
      BY <1>1, <2>3, <3>1 DEF Sent
  <2>6. Sent(r, pos[r])'
    BY <2>1, <2>5 DEF Sent
  <2>7. vecs'[r] = [n \in DOMAIN order'[r] |-> Vector(body'[r], order'[r][n])]
    BY <1>1, <2>1, <2>4
  <2>8. HandlerInv(r)'
    BY <1>1, <2>1, <2>6, <2>7, PendingKept DEF HandlerInv, Vector
  <2> QED
    BY <1>1, <2>1, <2>2, <2>8, StepIInv
<1> QED
  BY <1>2, <1>3

\* The client leaves.
LEMMA DisconnectIInv == ASSUME IInv, NEW r \in Requests, Disconnect(r) PROVE IInv'
<1>1. pc[r] = "await" /\ pc' = [pc EXCEPT ![r] = "dropped"] /\ UNCHANGED <<backend, cache, localVars, status>>
  BY DEF Disconnect
<1>2. TypeOK' /\ Alone(r) /\ pc'[r] = "dropped" /\ status'[r] # 200
  BY <1>1 DEF IInv, TypeOK, Alone, PcStates, HandlerInv
<1>3. CacheSound'
  BY <1>1 DEF IInv, CacheSound, Key, cache_model_key, Vector
<1>4. HandlerInv(r)'
  BY <1>1, <1>2, PendingKept DEF HandlerInv
<1> QED
  BY <1>1, <1>2, <1>3, <1>4, StepIInv

\* One vector goes to the cache and to all positions of its text.
LEMMA InsertNextIInv == ASSUME IInv, NEW r \in Requests, InsertNext(r) PROVE IInv'
<1> DEFINE n == pos[r]
           t == order[r][n]
           v == vecs[r][n]
<1>1. /\ pc[r] = "scatter" /\ n <= Len(order[r])
      /\ cache' = Inserted(Key(body[r], t), v)
      /\ cached' = [cached EXCEPT ![r] = [i \in DOMAIN cached[r] |-> IF i \in pending[r][t] THEN v ELSE cached[r][i]]]
      /\ pos' = [pos EXCEPT ![r] = n + 1]
      /\ UNCHANGED <<backend, server, pc, body, pending, order, vecs, status>>
  BY DEF InsertNext, Zipping, TextAt
<1>2. /\ Sent(r, n) /\ vecs[r] = [m \in DOMAIN order[r] |-> Vector(body[r], order[r][m])]
      /\ PendingOwn(r) /\ status[r] # 200
  BY <1>1 DEF IInv, HandlerInv
<1>3. n \in Nat \ {0}
  BY DEF IInv, TypeOK
<1>4. n \in DOMAIN order[r] /\ t \in Texts /\ v = Vector(body[r], t) /\ DOMAIN order[r] \subseteq Nat
  BY <1>1, <1>2, <1>3 DEF Sent
<1>5. body[r] \in Bodies /\ v \in Slots
  BY <1>4, BodyType DEF IInv
<1> HIDE DEF t, v
<1>6. TypeOK' /\ Alone(r) /\ pc'[r] = "scatter" /\ pos'[r] = n + 1
  BY <1>1, <1>3 DEF IInv, TypeOK, Alone
<1>7. CacheSound'
  BY <1>1, <1>4, <1>5, InsertSound DEF IInv
<1>8. cached'[r] = [i \in DOMAIN body[r].texts |-> IF i \in pending[r][t] THEN v ELSE cached[r][i]]
  BY <1>1, <1>2 DEF IInv, TypeOK, Sent
<1>9. cached'[r] \in [DOMAIN body[r].texts -> Slots]
  BY <1>2, <1>5, <1>8 DEF Sent
<1>10. ASSUME NEW i \in DOMAIN body[r].texts, ~ Found(r, i)'
       PROVE  Waits(r, i)' /\ \E m \in DOMAIN order[r] : m >= n + 1 /\ order[r][m] = body[r].texts[i]
  <2>1. i \notin pending[r][t]
    <3>1. ASSUME i \in pending[r][t] PROVE FALSE
      <4>1. body[r].texts[i] = t /\ cached'[r][i] = v
        BY <1>2, <1>4, <1>8, <3>1 DEF PendingOwn
      <4> QED
        BY <1>1, <1>4, <1>10, <4>1 DEF Found, Vector
    <3> QED
      BY <3>1
  <2>2. ~ Found(r, i)
    BY <1>1, <1>8, <1>10, <2>1 DEF Found, Vector
  <2>3. Waits(r, i)
    BY <1>2, <2>2 DEF Sent
  <2>4. PICK m \in DOMAIN order[r] : m >= n /\ order[r][m] = body[r].texts[i]
    BY <1>2, <2>2 DEF Sent
  <2>5. m # n
    BY <2>1, <2>3, <2>4 DEF Waits, t
  <2>6. m >= n + 1
    BY <1>3, <1>4, <2>4, <2>5
  <2> QED
    BY <1>1, <2>3, <2>4, <2>6 DEF Waits
<1>11. Sent(r, pos[r])'
  BY <1>1, <1>2, <1>6, <1>9, <1>10 DEF Sent
<1>12. vecs'[r] = [m \in DOMAIN order'[r] |-> Vector(body'[r], order'[r][m])]
  BY <1>1, <1>2
<1>13. HandlerInv(r)'
  BY <1>1, <1>2, <1>6, <1>11, <1>12, PendingKept DEF HandlerInv, Vector
<1> QED
  BY <1>1, <1>6, <1>7, <1>13, StepIInv

\* Every position has its vector.
LEMMA ReplyIInv == ASSUME IInv, NEW r \in Requests, Reply(r) PROVE IInv'
<1>1. pc[r] = "scatter" /\ ~Zipping(r) /\ Respond(r, 200) /\ UNCHANGED <<backend, cache, localVars>>
  BY DEF Reply
<1>2. TypeOK' /\ Alone(r) /\ pc'[r] = "done"
  BY <1>1 DEF IInv, TypeOK, Respond, Alone, PcStates
<1>3. CacheSound'
  BY <1>1 DEF IInv, CacheSound, Key, cache_model_key, Vector
<1>4. Sent(r, pos[r]) /\ vecs[r] = [m \in DOMAIN order[r] |-> Vector(body[r], order[r][m])]
  BY <1>1 DEF IInv, HandlerInv
<1>5. pos[r] \in Nat /\ order[r] \in Seq(Texts) /\ DOMAIN order[r] = 1..Len(order[r]) /\ Len(order[r]) \in Nat
  BY <1>4 DEF IInv, TypeOK, Sent
<1>6. Len(vecs[r]) = Len(order[r])
  <2> DEFINE k == Len(order[r])
  <2>1. vecs[r] = [m \in 1..k |-> Vector(body[r], order[r][m])] /\ k \in Nat
    BY <1>4, <1>5
  <2> HIDE DEF k
  <2>2. Len(vecs[r]) = k
    BY <2>1
  <2> QED
    BY <2>2 DEF k
<1>7. \A i \in DOMAIN body[r].texts : Found(r, i)
  BY <1>1, <1>4, <1>5, <1>6 DEF Sent, Zipping
<1>8. cached[r] = [i \in DOMAIN body[r].texts |-> Vector(body[r], body[r].texts[i])]
  BY <1>4, <1>7 DEF Sent, Found
<1>9. cached'[r] = [i \in DOMAIN body'[r].texts |-> Vector(body'[r], body'[r].texts[i])]
  BY <1>1, <1>8
<1>10. HandlerInv(r)'
  BY <1>1, <1>2, <1>9, PendingKept DEF HandlerInv, Vector
<1> QED
  BY <1>1, <1>2, <1>3, <1>10, StepIInv

\* The invariant is inductive.
LEMMA NextIInv == IInv /\ [Next]_vars => IInv'
<1> SUFFICES ASSUME IInv, [Next]_vars PROVE IInv'
  OBVIOUS
<1>1. CASE UNCHANGED <<backend, cache, pc, localVars, status>>
  <2>1. TypeOK' /\ CacheSound'
    BY <1>1 DEF IInv, TypeOK, CacheSound, Key, cache_model_key, Vector
  <2>2. ASSUME NEW q \in Requests PROVE HandlerInv(q)'
    BY <1>1, OthersKeep DEF IInv
  <2> QED
    BY <2>1, <2>2 DEF IInv
<1>2. CASE Evict
  <2>1. CacheSound'
    BY <1>2 DEF Evict, Restrict, IInv, CacheSound, Key, cache_model_key, Vector
  <2>2. TypeOK'
    BY <1>2 DEF Evict, IInv, TypeOK
  <2>3. ASSUME NEW q \in Requests PROVE HandlerInv(q)'
    BY <1>2, OthersKeep DEF Evict, IInv
  <2> QED
    BY <2>1, <2>2, <2>3 DEF IInv
<1>3. ASSUME NEW r \in Requests, Handler(r) PROVE IInv'
  BY <1>3, ArriveIInv, ProbeIInv, AllHitsIInv, DispatchIInv, BackendFailsIInv, BackendAnswersIInv, DisconnectIInv,
     InsertNextIInv, ReplyIInv DEF Handler
<1>4. CASE Signal \/ CloseListener
  BY <1>1, <1>4 DEF Signal, CloseListener
<1> QED
  BY <1>1, <1>2, <1>3, <1>4 DEF Next

\* The invariant of the handlers and the cache they share.
THEOREM EmbeddingsInvariant == Spec => []IInv
BY InitIInv, NextIInv, PTL DEF Spec

\* cache.rs: no entry holds a vector of another model, input type or text than its key
\* says, for every number of handlers and every capacity.
THEOREM CacheIsSound == Spec => []CacheSound
<1>1. IInv => CacheSound
  BY DEF IInv
<1> QED
  BY <1>1, EmbeddingsInvariant, PTL

\* api.rs: a 200 answers every position with the vector of its own text, whatever other
\* handlers insert and the cache evicts meanwhile and whatever order the map is read in.
THEOREM AnswersOwnVectors == Spec => []OwnVectors
<1>1. IInv => OwnVectors
  BY DEF IInv, OwnVectors, HandlerInv
<1> QED
  BY <1>1, EmbeddingsInvariant, PTL

===============================================================================
