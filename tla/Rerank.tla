-------------------------------- MODULE Rerank --------------------------------
(***************************************************************************)
(* POST /v1/rerank (src/src/api_rerank.rs): the concurrency cap taken at the  *)
(* edge, validation, the shared cache of tokenized pairs (token_cache.rs),   *)
(* inference through one of the three backends, and the sorted answer.       *)
(*                                                                         *)
(* A text is a sequence of characters, because the key of a pair is made by   *)
(* putting its two texts together.  Token ids are named by the model and the  *)
(* pair they encode.  A score is an integer: only its order counts.           *)
(***************************************************************************)
EXTENDS Integers, Sequences, FiniteSets, Sorting

CONSTANTS Requests,
          Names,       \* names of rerankers
          Chars,       \* characters of texts
          NUL,         \* the separator; a JSON string may contain it too (\u0000)
          Bodies,      \* request bodies
          None,        \* an Option that is None
          Logit(_, _, _),  \* what a reranker scores a query and a document with
          Caps,        \* possible sizes of rerank_semaphore; a cap no load reaches
                       \* stands for the disabled one
          MaxDocs,     \* RERANK_MAX_INPUT_DOCS
          MaxEntries,  \* capacity of the token cache; 0 disables it
          Clamp        \* SIGMOID_CLAMP, in units of score

Backends == {"worker", "batcher", "direct"}
Texts    == Seq(Chars)

ASSUME RerankAssumption ==
    /\ Caps \subseteq Nat \ {0} /\ MaxDocs \in Nat /\ MaxEntries \in Nat /\ Clamp \in Nat
    /\ None \notin Names /\ None \notin Nat /\ None \notin Names \X Texts \X Texts
    /\ Bodies \subseteq [model : Names \cup {None}, query : Texts, documents : Seq(Texts),
                         top_n : Nat \cup {None}, normalize : {"none", "sigmoid"}]
    /\ \A n \in Names, b \in Bodies : \A i \in DOMAIN b.documents :
          Logit(n, b.query, b.documents[i]) \in Int

------------------------------------------------------------------------------
(* Token ids and cache keys.                                                *)

\* Fault: the texts are put together without a separator.
hash_pair_Joined(query, doc) == query \o doc

\* The hash is represented by what is hashed.
hash_pair(query, doc) == query \o <<NUL>> \o doc

TokenIds(name, query, doc) == <<name, query, doc>>

VARIABLES
    rerankers,  \* the configured rerankers
    backend,    \* how this server runs inference
    shutdown,   \* the shutdown token is cancelled
    cap,        \* size of rerank_semaphore
    permits,    \* free permits of rerank_semaphore
    cache,      \* token cache: [key -> token ids]
    pc, body,   \* each handler and its request
    name,       \* model_name
    slots,      \* result_slots: Option of token ids per document
    pos,        \* next document to look up
    misses,     \* miss_indices still to be spliced
    results,    \* results of the answer
    status      \* HTTP status of the response

config    == <<rerankers, backend, cap>>
localVars == <<body, name, slots, pos, misses>>
vars == <<config, shutdown, permits, cache, pc, localVars, results, status>>

Init == /\ rerankers \in SUBSET Names
        /\ backend   \in Backends
        /\ shutdown  = FALSE
        /\ cap       \in Caps
        /\ permits   = cap
        /\ cache     = <<>>
        /\ pc        = [r \in Requests |-> "new"]
        /\ body      \in [Requests -> Bodies]
        /\ name      = [r \in Requests |-> None]
        /\ slots     = [r \in Requests |-> <<>>]
        /\ pos       = [r \in Requests |-> 1]
        /\ misses    = [r \in Requests |-> <<>>]
        /\ results   = [r \in Requests |-> <<>>]
        /\ status    = [r \in Requests |-> 0]

\* The handler returns: its permit is dropped with it.
Finish(r, code) == /\ pc'      = [pc EXCEPT ![r] = "done"]
                   /\ status'  = [status EXCEPT ![r] = code]
                   /\ permits' = permits + 1

Goto(r, label) == pc' = [pc EXCEPT ![r] = label] /\ UNCHANGED <<permits, status>>

------------------------------------------------------------------------------
(* The edge.                                                                *)

HasPermit == permits > 0

\* `try_acquire_owned`: no permit, no work; not even the shutdown is looked at.
TryAcquire(r) == /\ pc[r] = "new"
                 /\ IF HasPermit
                    THEN /\ pc'      = [pc EXCEPT ![r] = "admitted"]
                         /\ permits' = permits - 1
                         /\ UNCHANGED status
                    ELSE /\ pc'      = [pc EXCEPT ![r] = "done"]
                         /\ status'  = [status EXCEPT ![r] = 429]
                         /\ UNCHANGED permits
                 /\ UNCHANGED <<config, shutdown, cache, localVars, results>>

\* The reranker a request without a model gets, if it is the only one.
resolve_reranker_name(model) ==
    IF model # None
    THEN IF model \in rerankers THEN model ELSE None
    ELSE IF Cardinality(rerankers) = 1 THEN CHOOSE n \in rerankers : TRUE ELSE None

\* A blank query is the empty one.
Rejection(b) == IF shutdown THEN 503
                ELSE IF \/ b.query = <<>>
                        \/ b.documents = <<>> \/ Len(b.documents) > MaxDocs
                        \/ resolve_reranker_name(b.model) = None THEN 400
                ELSE 0

Refuse(r) == /\ pc[r] = "admitted"
             /\ Rejection(body[r]) # 0
             /\ Finish(r, Rejection(body[r]))
             /\ UNCHANGED <<config, shutdown, cache, localVars, results>>

\* Workers tokenize by themselves.
Admit(r) == /\ pc[r] = "admitted"
            /\ Rejection(body[r]) = 0
            /\ name'  = [name EXCEPT ![r] = resolve_reranker_name(body[r].model)]
            /\ slots' = [slots EXCEPT ![r] = [i \in DOMAIN body[r].documents |-> None]]
            /\ Goto(r, IF backend = "worker" THEN "await" ELSE "probe")
            /\ UNCHANGED <<config, shutdown, cache, body, pos, misses, results>>

------------------------------------------------------------------------------
(* tokenize_with_cache.                                                     *)

Key(r, i) == <<name[r], hash_pair(body[r].query, body[r].documents[i])>>

Probe(r) == /\ pc[r] = "probe"
            /\ pos[r] <= Len(slots[r])
            /\ IF Key(r, pos[r]) \in DOMAIN cache
               THEN /\ slots' = [slots EXCEPT ![r][pos[r]] = cache[Key(r, pos[r])]]
                    /\ UNCHANGED misses
               ELSE /\ misses' = [misses EXCEPT ![r] = Append(@, pos[r])]
                    /\ UNCHANGED slots
            /\ pos' = [pos EXCEPT ![r] = @ + 1]
            /\ UNCHANGED <<config, shutdown, permits, cache, pc, body, name, results, status>>

\* Without a miss the tokenizer is skipped.
Probed(r) == /\ pc[r] = "probe"
             /\ pos[r] > Len(slots[r])
             /\ Goto(r, IF misses[r] = <<>> THEN "await" ELSE "tokenize")
             /\ UNCHANGED <<config, shutdown, cache, localVars, results>>

\* One spawn_blocking call tokenizes all the misses, or fails or panics.
Tokenized(r) == /\ pc[r] = "tokenize"
                /\ Goto(r, "splice")
                /\ UNCHANGED <<config, shutdown, cache, localVars, results>>

TokenizeFails(r) == /\ pc[r] = "tokenize"
                    /\ Finish(r, 500)
                    /\ UNCHANGED <<config, shutdown, cache, localVars, results>>

Inserted(k, v) == IF MaxEntries = 0 THEN cache
                  ELSE [x \in DOMAIN cache \cup {k} |-> IF x = k THEN v ELSE cache[x]]

\* The next miss goes into the cache and into its slot.
Splice(r) == /\ pc[r] = "splice"
             /\ misses[r] # <<>>
             /\ LET ids == TokenIds(name[r], body[r].query, body[r].documents[Head(misses[r])])
                IN  /\ cache' = Inserted(Key(r, Head(misses[r])), ids)
                    /\ slots' = [slots EXCEPT ![r][Head(misses[r])] = ids]
             /\ misses' = [misses EXCEPT ![r] = Tail(@)]
             /\ UNCHANGED <<config, shutdown, permits, pc, body, name, pos, results, status>>

Spliced(r) == /\ pc[r] = "splice"
              /\ misses[r] = <<>>
              /\ Goto(r, "await")
              /\ UNCHANGED <<config, shutdown, cache, localVars, results>>

------------------------------------------------------------------------------
(* Inference.                                                               *)

Failures == [worker |-> {500, 503}, batcher |-> {429, 500, 503}, direct |-> {500}]

\* A score count that does not match the documents is a 500 too.
InferenceFails(r) == /\ pc[r] = "await"
                     /\ \E code \in Failures[backend] : Finish(r, code)
                     /\ UNCHANGED <<config, shutdown, cache, localVars, results>>

\* What the model computes: from the texts in a worker, from the token ids here.
Scores(r) == [i \in DOMAIN slots[r] |->
                 LET ids == IF backend = "worker"
                            THEN TokenIds(name[r], body[r].query, body[r].documents[i])
                            ELSE slots[r][i]
                 IN  Logit(ids[1], ids[2], ids[3])]

\* The sigmoid keeps the order of scores up to the clamp and is constant beyond.
apply_normalize(x, mode) ==
    CASE mode = "none"    -> x
      [] mode = "sigmoid" -> IF x > Clamp THEN Clamp ELSE IF x < -Clamp THEN -Clamp ELSE x

Truncated(s, top_n) == IF top_n = None \/ top_n > Len(s) THEN s ELSE SubSeq(s, 1, top_n)

Result(scores, i) == [index |-> i, relevance_score |-> scores[i]]

\* Higher scores first, equal ones as they came.
Sorted(scores) == [k \in DOMAIN scores |-> Result(scores, Descending(scores)[k])]

\* Fault: the list is cut before it is sorted.
build_sorted_results_CutFirst(scores, top_n) == Sorted(Truncated(scores, top_n))

build_sorted_results(scores, top_n) == Truncated(Sorted(scores), top_n)

Answer(r) ==
    /\ pc[r] = "await"
    /\ LET raw    == Scores(r)
           scores == [i \in DOMAIN raw |-> apply_normalize(raw[i], body[r].normalize)]
       IN  results' = [results EXCEPT ![r] = build_sorted_results(scores, body[r].top_n)]
    /\ Finish(r, 200)
    /\ UNCHANGED <<config, shutdown, cache, localVars>>

\* Fault: the permit of a dropped handler is not given back.
Disconnect_Leaks(r) == /\ pc[r] \in {"tokenize", "await"}
                       /\ pc' = [pc EXCEPT ![r] = "dropped"]
                       /\ UNCHANGED <<config, shutdown, permits, cache, localVars, results, status>>

\* The client disconnects: the handler is dropped where it awaits, its permit
\* with it.  Blocking work goes on and its result is thrown away.
Disconnect(r) == /\ pc[r] \in {"tokenize", "await"}
                 /\ pc' = [pc EXCEPT ![r] = "dropped"]
                 /\ permits' = permits + 1
                 /\ UNCHANGED <<config, shutdown, cache, localVars, results, status>>

------------------------------------------------------------------------------

\* moka removes entries in the background while the cache is over its capacity.
Evict == /\ Cardinality(DOMAIN cache) > MaxEntries
         /\ \E k \in DOMAIN cache : cache' = [x \in DOMAIN cache \ {k} |-> cache[x]]
         /\ UNCHANGED <<config, shutdown, permits, pc, localVars, results, status>>

Shutdown == /\ ~shutdown
            /\ shutdown' = TRUE
            /\ UNCHANGED <<config, permits, cache, pc, localVars, results, status>>

\* What the handler does without waiting for anybody.
Step(r) == \/ Refuse(r)
           \/ Admit(r)
           \/ Probe(r)
           \/ Probed(r)
           \/ Splice(r)
           \/ Spliced(r)

Backend(r) == \/ Tokenized(r)
              \/ TokenizeFails(r)
              \/ InferenceFails(r)
              \/ Answer(r)

Next == \/ \E r \in Requests : TryAcquire(r) \/ Step(r) \/ Backend(r) \/ Disconnect(r)
        \/ Evict
        \/ Shutdown

\* Handlers are scheduled, and every backend answers or fails in the end
\* (Batcher and Supervisor say when they do).
Fairness == \A r \in Requests : WF_vars(Step(r)) /\ WF_vars(Backend(r))

Spec == Init /\ [][Next]_vars /\ Fairness

------------------------------------------------------------------------------
(* Properties.                                                              *)

Holding(r) == pc[r] \in {"admitted", "probe", "tokenize", "splice", "await"}

\* api_rerank.rs: every permit is either free or held by exactly one handler
\* that is still running; no way out of the handler loses or doubles one.
PermitsConserved == permits >= 0 /\ permits + Cardinality({r \in Requests : Holding(r)}) = cap

\* The entry under the key of a pair, if there is one, is that pair's.
Sound(n, query, doc) ==
    LET k == <<n, hash_pair(query, doc)>>
    IN  k \in DOMAIN cache => cache[k] = TokenIds(n, query, doc)

Plain(text) == \A i \in DOMAIN text : text[i] # NUL

\* token_cache.rs: two plain texts find their own token ids in the cache, however they
\* share characters, and even when other requests contain the separator.
PlainPairsSound ==
    \A n \in Names, b \in Bodies : \A i \in DOMAIN b.documents :
        Plain(b.query) /\ Plain(b.documents[i]) => Sound(n, b.query, b.documents[i])

\* token_cache.rs:53: "The null-byte separator prevents the key from colliding when the
\* query suffix and doc prefix share characters", for all pairs of texts.
TokenCacheSound ==
    \A n \in Names, b \in Bodies : \A i \in DOMAIN b.documents : Sound(n, b.query, b.documents[i])

\* A request whose scores come from its own texts: a worker is sent the texts, the
\* token cache is exact for plain ones.
Exact(r) == \/ backend = "worker"
            \/ /\ Plain(body[r].query)
               /\ \A i \in DOMAIN body[r].documents : Plain(body[r].documents[i])

\* api_rerank.rs: a 200 lists the best documents of the request, top_n of them
\* at most, each under its own index and score, best first and equal ones in
\* the order of the request, whatever went through the cache meanwhile; in the server
\* that takes texts without the separator (see TokenCacheSound).
BestDocuments ==
    \A r \in Requests : status[r] = 200 /\ Exact(r) =>
        LET docs   == DOMAIN body[r].documents
            score  == [i \in docs |->
                          apply_normalize(Logit(name[r], body[r].query, body[r].documents[i]),
                                          body[r].normalize)]
            listed == {results[r][k].index : k \in DOMAIN results[r]}
        IN  /\ Len(results[r]) = IF body[r].top_n = None \/ body[r].top_n > Len(body[r].documents)
                                 THEN Len(body[r].documents) ELSE body[r].top_n
            /\ listed \subseteq docs
            /\ \A k \in DOMAIN results[r] : results[r][k].relevance_score = score[results[r][k].index]
            /\ \A k, l \in DOMAIN results[r] : k < l => Before(score, results[r][k].index, results[r][l].index)
            /\ \A i \in listed, j \in docs \ listed : Before(score, i, j)

\* api_rerank.rs: the cap sheds load, it does not shut the endpoint: when all
\* permits are taken one of them comes back.
PermitsReturn == (permits = 0) ~> (permits > 0)

==============================================================================
