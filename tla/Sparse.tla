------------------------------- MODULE Sparse -------------------------------
(***************************************************************************)
(* POST /embed_sparse (src/src/api_splade.rs), the sparse encoder behind it   *)
(* (model_splade.rs, StandaloneSplade in model.rs), and rerankers that use    *)
(* pools of the same kind next to it.                                         *)
(*                                                                         *)
(* The texts of a request are encoded one after the other, each on a          *)
(* blocking thread and a session of the pool, in the server or in a worker.   *)
(* The encoder keeps for every term of the vocabulary the largest activation  *)
(* over the positions of the text, in a buffer that belongs to the thread.    *)
(***************************************************************************)
EXTENDS SessionPool, Sequences, FiniteSets, SequencesExt

CONSTANTS SparseCallers, RerankCallers,  \* handlers; threads that score pairs
          Threads,        \* blocking threads
          NoThread,
          Bodies,         \* the requests clients send
          Splades,        \* the configured sparse models
          Batches,        \* the numbers of pairs scored at once
          Rerankers,      \* the configured rerankers
          BlankText,
          Vocab,
          Positions(_),   \* how many tokens a text has
          Logit(_, _, _), \* the model's output for a text, a position and a term
          Log1p(_),
          DefaultTopK,
          U32Size,        \* 2^32
          Unlimited       \* usize::MAX

ASSUME SparseAssumption ==
    /\ Callers = SparseCallers \cup RerankCallers /\ SparseCallers \cap RerankCallers = {}
    /\ IsFiniteSet(Splades) /\ Absent \notin Splades

SparseTexts == UNION {Range(r.input) : r \in Bodies}
Logits      == UNION {{Logit(text, j, v) : j \in 1..Positions(text), v \in Vocab} : text \in SparseTexts}

\* Numbers stand for floats; ln(1 + x) grows with x and is not negative.
ASSUME TermsAssumption ==
    /\ IsFiniteSet(Vocab) /\ \A text \in SparseTexts : Positions(text) \in Nat
    /\ Logits \subseteq Int
    /\ \A x \in Logits : x > 0 => Log1p(x) \in Nat
    /\ \A x, y \in Logits : 0 < x /\ x <= y => Log1p(x) <= Log1p(y)
    /\ DefaultTopK \in Nat /\ Unlimited \in Nat /\ U32Size \in Nat \ {0}
    /\ \A r \in Bodies : /\ r.input \in Seq(Range(r.input)) /\ r.min_weight \in Int
                         /\ r.top_k = Absent \/ r.top_k \in Nat

VARIABLES workers,   \* whether models run in worker processes
          req,       \* the request of each handler
          pc,        \* "new", "dispatch", "next", "encode", "done"
          status,    \* of the response, 0 before
          data,      \* the sparse vectors so far
          gone,      \* the client has disconnected
          thread,    \* the thread that encodes
          buf        \* SPARSE_BUF of each thread
sparseVars == <<workers, req, pc, status, data, gone, thread, buf>>
allVars    == <<poolVars, sparseVars>>

------------------------------------------------------------------------------
(* The request.                                                             *)

SpladePool(name)        == [kind |-> "splade", name |-> name, batch |-> 0]
RerankPool(name, batch) == [kind |-> "rerank", name |-> name, batch |-> batch]

\* Every model has its dynamic pool.
ASSUME DynamicPoolsAssumption ==
    /\ \A name \in Splades   : SpladePool(name) \in Pools
    /\ \A name \in Rerankers : RerankPool(name, 0) \in Pools

\* What a request wants computed: a text is encoded alone, pairs are scored together.
SpladeJob(r)          == [kind |-> "splade", model |-> r.model, rows |-> 1]
RerankJob(name, rows) == [kind |-> "rerank", model |-> name, rows |-> rows]

ASSUME JobsAssumption ==
    /\ \A r \in Bodies : SpladeJob(r) \in Jobs
    /\ \A name \in Rerankers, n \in Batches \ {0} : RerankJob(name, n) \in Jobs

\* A model must be named unless there is exactly one.
resolve_splade_name(model) ==
    IF model # Absent THEN (IF model \in Splades THEN model ELSE Absent)
    ELSE IF Cardinality(Splades) = 1 THEN CHOOSE m \in Splades : TRUE ELSE Absent

TopK(r) == IF r.top_k = Absent THEN DefaultTopK ELSE r.top_k

\* What reaches the encoder: through a worker the number is cut to 32 bits, where
\* zero says everything.
EffectiveTopK(r) ==
    IF ~workers THEN TopK(r)
    ELSE IF TopK(r) % U32Size = 0 THEN Unlimited ELSE TopK(r) % U32Size

ModelOf(c) == resolve_splade_name(req[c].model)

------------------------------------------------------------------------------
(* encode_sparse.                                                           *)

Zero == [v \in Vocab |-> 0]

\* Fault: the buffer is not cleared before it is used again.
Cleared_Kept(buffer) == buffer

Cleared(buffer) == Zero

\* The sweep over the positions; only a positive logit counts.
Sweep(start, text) ==
    [v \in Vocab |-> Max({start[v]} \cup {Log1p(Logit(text, j, v)) : j \in
                                              {j \in 1..Positions(text) : Logit(text, j, v) > 0}})]

\* The terms above the threshold, the heaviest first and top_k at most; the order
\* of equals is up to the partial sort.
TopTerms(weights, top_k, min_weight) ==
    LET above == {v \in Vocab : weights[v] > min_weight}
        n     == IF top_k < Cardinality(above) THEN top_k ELSE Cardinality(above)
    IN  {[i \in 1..n |-> <<s[i], weights[s[i]]>>] : s \in
            {s \in [1..n -> above] :
                /\ \A i, j \in 1..n : i < j => s[i] # s[j] /\ weights[s[i]] >= weights[s[j]]
                /\ \A i \in 1..n, v \in above \ Range(s) : weights[s[i]] >= weights[v]}}

------------------------------------------------------------------------------
(* The handler.                                                             *)

Respond(c, code) ==
    /\ status' = [status EXCEPT ![c] = code]
    /\ pc'     = [pc EXCEPT ![c] = "done"]

\* A request that fails keeps nothing of what was encoded.
Fail(c, code) == Respond(c, code) /\ data' = [data EXCEPT ![c] = <<>>]

Invalid(r) == \/ r.input = <<>> \/ BlankText \in Range(r.input)
              \/ resolve_splade_name(r.model) = Absent

\* The server may have begun to shut down; that is looked at once, here.
Receive(c) ==
    /\ pc[c] = "new"
    /\ \E r \in Bodies :
        /\ req' = [req EXCEPT ![c] = r]
        /\ \/ Respond(c, 503)
           \/ Invalid(r) /\ Respond(c, 400)
           \/ /\ ~Invalid(r)
              /\ pc' = [pc EXCEPT ![c] = IF workers THEN "dispatch" ELSE "next"]
              /\ UNCHANGED status
    /\ UNCHANGED <<poolVars, workers, data, gone, thread, buf>>

\* The dispatch reaches a worker, times out, or fails otherwise.
Dispatch(c) ==
    /\ pc[c] = "dispatch"
    /\ \/ pc' = [pc EXCEPT ![c] = "next"] /\ UNCHANGED status
       \/ Respond(c, 503)
       \/ Respond(c, 500)
    /\ UNCHANGED <<poolVars, workers, req, data, gone, thread, buf>>

Text(c) == req[c].input[Len(data[c]) + 1]
More(c) == Len(data[c]) < Len(req[c].input)

\* Nothing to encode, or nothing wanted of it.
Trivial(c) == Positions(Text(c)) = 0 \/ EffectiveTopK(req[c]) = 0

EncodeTrivial(c) ==
    /\ pc[c] = "next" /\ More(c) /\ Trivial(c)
    /\ data' = [data EXCEPT ![c] = Append(@, <<>>)]
    /\ UNCHANGED <<poolVars, workers, req, pc, status, gone, thread, buf>>

TokenizeFails(c) ==
    /\ pc[c] = "next" /\ More(c)
    /\ Fail(c, 500)
    /\ UNCHANGED <<poolVars, workers, req, gone, thread, buf>>

BeginEncode(c) ==
    /\ pc[c] = "next" /\ More(c) /\ ~Trivial(c)
    /\ Pick(c, SpladeJob(req[c]), SpladePool(ModelOf(c)))
    /\ \E t \in Threads : /\ \A d \in SparseCallers : thread[d] # t
                          /\ thread' = [thread EXCEPT ![c] = t]
    /\ pc' = [pc EXCEPT ![c] = "encode"]
    /\ UNCHANGED <<workers, req, status, data, gone, buf>>

EncodeLock(c) == pc[c] = "encode" /\ Lock(c) /\ UNCHANGED sparseVars

\* The first text that fails fails the request.  In the server the closure of a
\* handler that was dropped still runs to its end; a worker goes on to the others.
EndEncode(c) ==
    /\ pc[c] = "encode" /\ Unlock(c)
    /\ \/ Fail(c, 500) /\ UNCHANGED buf
       \/ LET weights == Sweep(Cleared(buf[thread[c]]), Text(c))
          IN  /\ buf' = [buf EXCEPT ![thread[c]] = weights]
              /\ \E item \in TopTerms(weights, EffectiveTopK(req[c]), req[c].min_weight) :
                     data' = [data EXCEPT ![c] = Append(@, item)]
              /\ pc' = [pc EXCEPT ![c] = IF gone[c] /\ ~workers THEN "done" ELSE "next"]
              /\ UNCHANGED status
    /\ thread' = [thread EXCEPT ![c] = NoThread]
    /\ UNCHANGED <<workers, req, gone>>

\* The pairs above the threshold, in their order.
Heavy(pairs, min_weight) ==
    LET kept[i \in 0..Len(pairs)] ==
            IF i = 0 THEN <<>>
            ELSE IF pairs[i][2] > min_weight THEN Append(kept[i - 1], pairs[i]) ELSE kept[i - 1]
    IN  kept[Len(pairs)]

Truncated(pairs, top_k) == SubSeq(pairs, 1, IF top_k < Len(pairs) THEN top_k ELSE Len(pairs))

\* The handler filters and cuts what a worker returns once more.
Answer(c) ==
    /\ pc[c] = "next" /\ ~More(c)
    /\ Respond(c, 200)
    /\ data' = IF ~workers THEN data
               ELSE [data EXCEPT ![c] = [k \in DOMAIN @ |->
                        Truncated(Heavy(@[k], req[c].min_weight), TopK(req[c]))]]
    /\ UNCHANGED <<poolVars, workers, req, gone, thread, buf>>

Disconnect(c) ==
    /\ pc[c] \in {"dispatch", "next", "encode"} /\ ~gone[c]
    /\ gone' = [gone EXCEPT ![c] = TRUE]
    /\ pc'   = [pc EXCEPT ![c] = IF @ = "dispatch" \/ (@ = "next" /\ ~workers) THEN "done" ELSE @]
    /\ UNCHANGED <<poolVars, workers, req, status, data, thread, buf>>

------------------------------------------------------------------------------
(* score_pairs: the pool of the batch size if it has a static graph, else the  *)
(* dynamic one, always the same way in and out.                               *)

\* Fault: a batch without a graph of its size is padded up to the next larger one.
PoolFor_Larger(name, n) ==
    LET large == {q \in Pools : q.kind = "rerank" /\ q.name = name /\ q.batch >= n}
    IN  IF large = {} THEN RerankPool(name, 0)
        ELSE CHOOSE q \in large : \A r \in large : q.batch <= r.batch

PoolFor(name, n) == IF RerankPool(name, n) \in Pools THEN RerankPool(name, n)
                    ELSE RerankPool(name, 0)

score_pairs(c) ==
    /\ c \in RerankCallers
    /\ \/ \E name \in Rerankers, n \in Batches \ {0} : Pick(c, RerankJob(name, n), PoolFor(name, n))
       \/ Lock(c)
       \/ Unlock(c)
    /\ UNCHANGED sparseVars

------------------------------------------------------------------------------
SparseInit ==
    /\ PoolInit
    /\ workers \in BOOLEAN
    /\ req    = [c \in SparseCallers |-> Absent]
    /\ pc     = [c \in SparseCallers |-> "new"]
    /\ status = [c \in SparseCallers |-> 0]
    /\ data   = [c \in SparseCallers |-> <<>>]
    /\ gone   = [c \in SparseCallers |-> FALSE]
    /\ thread = [c \in SparseCallers |-> NoThread]
    /\ buf    = [t \in Threads |-> Zero]

Handle(c) == \/ Dispatch(c) \/ EncodeTrivial(c) \/ TokenizeFails(c) \/ BeginEncode(c)
             \/ EncodeLock(c) \/ EndEncode(c) \/ Answer(c)

SparseNext ==
    \/ \E c \in SparseCallers : Receive(c) \/ Handle(c) \/ Disconnect(c)
    \/ \E c \in RerankCallers : score_pairs(c)

\* A handler that can go on does, a free mutex is taken by someone who waits, an
\* inference returns.
SparseSpec == SparseInit /\ [][SparseNext]_allVars /\ \A c \in SparseCallers : WF_allVars(Handle(c))

------------------------------------------------------------------------------
(* Properties.                                                              *)

\* What a term weighs in a text, from the definition of the model.
Weight(text, v) ==
    LET best == Max({Logit(text, j, v) : j \in 1..Positions(text)} \cup {0}) IN
    IF best = 0 THEN 0 ELSE Log1p(best)

\* The heaviest terms of a text, and all that were asked for unless some may be missing.
IsBest(item, text, top_k, min_weight, partial) ==
    LET above == IF Positions(text) = 0 THEN {} ELSE {v \in Vocab : Weight(text, v) > min_weight}
        terms == {item[i][1] : i \in DOMAIN item}
    IN  /\ terms \subseteq above /\ Cardinality(terms) = Len(item) /\ Len(item) <= top_k
        /\ \A i \in DOMAIN item : item[i][2] = Weight(text, item[i][1])
        /\ \A i \in 1..(Len(item) - 1) : item[i][2] >= item[i + 1][2]
        /\ \A v \in above \ terms, i \in DOMAIN item : item[i][2] >= Weight(text, v)
        /\ partial \/ Len(item) = Min({top_k, Cardinality(above)})

\* A 200 has, for every text of the request and in its order, the text's own
\* heaviest terms above the threshold with their weights: what else the thread,
\* the session or the worker computed before leaves no trace.  (Through a worker a
\* top_k of 2^32 or more may give fewer of them.)
OwnTerms ==
    \A c \in SparseCallers : status[c] = 200 =>
        /\ Len(data[c]) = Len(req[c].input)
        /\ \A k \in DOMAIN data[c] :
               IsBest(data[c][k], req[c].input[k], TopK(req[c]), req[c].min_weight,
                      workers /\ TopK(req[c]) >= U32Size)

\* Every request that is taken up ends: no handler waits for ever for a session.
EveryRequestEnds == \A c \in SparseCallers : pc[c] # "new" ~> pc[c] = "done"
==============================================================================
