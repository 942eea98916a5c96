------------------------------ MODULE Embeddings ------------------------------
(***************************************************************************)
(* POST /v1/embeddings (src/src/api.rs), the response cache it probes and   *)
(* fills (cache.rs, cache_flow.rs), while the server is told to shut down      *)
(* around it (main.rs).                                                      *)
(*                                                                         *)
(* Handlers run concurrently and share the cache.  Every `get` and `insert`  *)
(* of the cache is one step: another handler, or the cache's own eviction,   *)
(* may run between two of them.  A handler can be dropped only while it      *)
(* awaits the backend.  A vector is named by where it comes from: the model,  *)
(* the text, and the input type of the request it was computed for.          *)
(***************************************************************************)
EXTENDS Naturals, Sequences, FiniteSets, Functions

CONSTANTS Requests,   \* one per HTTP request
          Names,      \* model names, the default filled in, requests may carry
          Models,     \* the configured ones
          Texts,
          Bodies,     \* request bodies: model, input_type and texts
          NoVector,   \* an Option that is None
          MaxInput,   \* EMBED_MAX_INPUT_ARRAY
          MaxEntries  \* capacity of the cache; 0 disables it

InputTypes == {"document", "query"}
Backends   == {"worker", "batcher", "direct"}

ASSUME EmbeddingsAssumption ==
    /\ Models \subseteq Names
    /\ Bodies \subseteq [model : Names, input_type : InputTypes, texts : Seq(Texts)]
    /\ NoVector \notin Names \X InputTypes \X Texts
    /\ MaxInput \in Nat /\ MaxEntries \in Nat

------------------------------------------------------------------------------
(* Vectors and cache keys.                                                  *)

Vector(body, t) == <<body.model, body.input_type, t>>

\* Fault: documents and queries share a key.
cache_model_key_Shared(body) == <<body.model>>

\* A query key is the model name with the suffix ":query"; a configured name
\* contains no colon.
cache_model_key(body) == IF body.input_type = "document" THEN <<body.model>>
                                                         ELSE <<body.model, "query">>

Key(body, t) == <<cache_model_key(body), t>>

VARIABLES
    backend,   \* how this server runs inference
    server,    \* whether requests are served, refused or no longer accepted
    cache,     \* entries by key
    pc,        \* where each handler is
    body,      \* the request
    pos,       \* index of the loop the handler is in
    cached,    \* Option per position
    pending,   \* text -> positions that wait for it
    order,     \* pending_texts: the iteration order of the map
    vecs,      \* miss_vectors
    status     \* HTTP status of the response

localVars == <<body, pos, cached, pending, order, vecs>>
vars == <<backend, server, cache, pc, localVars, status>>

\* The keys of the map of pending misses.
Keys(p) == {t \in Texts : p[t] # {}}

NoPending == [t \in Texts |-> {}]

Init == /\ backend \in Backends
        /\ server  = "serving"
        /\ cache   = <<>>
        /\ pc      = [r \in Requests |-> "new"]
        /\ body    \in [Requests -> Bodies]
        /\ pos     = [r \in Requests |-> 1]
        /\ cached  = [r \in Requests |-> <<>>]
        /\ pending = [r \in Requests |-> NoPending]
        /\ order   = [r \in Requests |-> <<>>]
        /\ vecs    = [r \in Requests |-> <<>>]
        /\ status  = [r \in Requests |-> 0]

Respond(r, code) == /\ pc'     = [pc EXCEPT ![r] = "done"]
                    /\ status' = [status EXCEPT ![r] = code]

------------------------------------------------------------------------------
(* The head of the handler.                                                 *)

\* The status of a request that is turned away before the cache is probed.
Rejection(b) == IF server # "serving"                                        THEN 503
                ELSE IF \/ b.texts = <<>> \/ Len(b.texts) > MaxInput
                        \/ b.model \notin Models                             THEN 400
                ELSE 0

\* The listener accepts until the drain window is over.
Arrive(r) == /\ pc[r] = "new"
             /\ server \in {"serving", "draining"}
             /\ IF Rejection(body[r]) # 0
                THEN Respond(r, Rejection(body[r])) /\ UNCHANGED cached
                ELSE /\ pc'     = [pc EXCEPT ![r] = "probe"]
                     /\ cached' = [cached EXCEPT ![r] = [i \in DOMAIN body[r].texts |-> NoVector]]
                     /\ UNCHANGED status
             /\ UNCHANGED <<backend, server, cache, body, pos, pending, order, vecs>>

------------------------------------------------------------------------------
(* partition_hits_and_misses.                                               *)

\* `pending.entry(text).or_default().push(i)`
Miss(p, t, i) == [p EXCEPT ![t] = @ \cup {i}]

Probing(r) == pc[r] = "probe" /\ pos[r] <= Len(body[r].texts)

Probe(r) == /\ Probing(r)
            /\ LET i == pos[r]
                   k == Key(body[r], body[r].texts[i])
               IN  /\ IF k \in DOMAIN cache
                      THEN /\ cached' = [cached EXCEPT ![r][i] = cache[k]]
                           /\ UNCHANGED pending
                      ELSE /\ pending' = [pending EXCEPT ![r] = Miss(@, body[r].texts[i], i)]
                           /\ UNCHANGED cached
                   /\ pos' = [pos EXCEPT ![r] = i + 1]
            /\ UNCHANGED <<backend, server, cache, pc, body, order, vecs, status>>

Partitioned(r) == pc[r] = "probe" /\ pos[r] > Len(body[r].texts)

\* Everything was a hit: the backend is not involved.
AllHits(r) == /\ Partitioned(r)
              /\ Keys(pending[r]) = {}
              /\ Respond(r, 200)
              /\ UNCHANGED <<backend, server, cache, localVars>>

\* The enumerations of a set: a HashMap is iterated in no particular order.
Orders(S) == {s \in [1..Cardinality(S) -> S] : \A t \in S : \E n \in DOMAIN s : s[n] = t}

\* The unique misses are sent to the backend.
Dispatch(r) == /\ Partitioned(r)
               /\ Keys(pending[r]) # {}
               /\ \E s \in Orders(Keys(pending[r])) : order' = [order EXCEPT ![r] = s]
               /\ pc' = [pc EXCEPT ![r] = "await"]
               /\ UNCHANGED <<backend, server, cache, body, pos, cached, pending, vecs, status>>

------------------------------------------------------------------------------
(* The backend.                                                             *)

\* Worker: Timeout is 503, an error answer, an answer of another kind and an
\* IPC error are 500.  In process: tokenization and inference failures are
\* 500; a full queue is 429 and a batcher that is shut down 503.
Failures == [worker |-> {500, 503}, batcher |-> {429, 500, 503}, direct |-> {500}]

BackendFails(r) == /\ pc[r] = "await"
                   /\ \E code \in Failures[backend] : Respond(r, code)
                   /\ UNCHANGED <<backend, server, cache, localVars>>

\* Vectors in the order of the texts sent.  WorkerClient and DynamicBatcher
\* check their number; an in-process model may return one too few.
Returned(r) == {[n \in 1..m |-> Vector(body[r], order[r][n])] :
                   m \in {Len(order[r])} \cup (IF backend = "direct" THEN {Len(order[r]) - 1} ELSE {})}

\* Fault: the vectors are not counted.
CountMatches_Any(r, v) == TRUE

CountMatches(r, v) == Len(v) = Len(order[r])

BackendAnswers(r) == /\ pc[r] = "await"
                     /\ \E v \in Returned(r) :
                           IF CountMatches(r, v)
                           THEN /\ pc'   = [pc EXCEPT ![r] = "scatter"]
                                /\ vecs' = [vecs EXCEPT ![r] = v]
                                /\ pos'  = [pos EXCEPT ![r] = 1]
                                /\ UNCHANGED status
                           ELSE Respond(r, 500) /\ UNCHANGED <<vecs, pos>>
                     /\ UNCHANGED <<backend, server, cache, body, cached, pending, order>>

\* The client disconnects: axum drops the handler where it awaits.
Disconnect(r) == /\ pc[r] = "await"
                 /\ pc' = [pc EXCEPT ![r] = "dropped"]
                 /\ UNCHANGED <<backend, server, cache, localVars, status>>

------------------------------------------------------------------------------
(* Insert and scatter.                                                      *)

\* Fault: the texts are taken from the map again, in another order.
TextAt_Reiterated(r, n) == order[r][Len(order[r]) + 1 - n]

TextAt(r, n) == order[r][n]

\* An insert is a no-op when the cache is disabled.
Inserted(k, v) == IF MaxEntries = 0 THEN cache
                  ELSE [x \in DOMAIN cache \cup {k} |-> IF x = k THEN v ELSE cache[x]]

\* The zip of pending_texts with the vectors ends with the shorter of them.
Zipping(r) == pos[r] <= Len(order[r]) /\ pos[r] <= Len(vecs[r])

InsertNext(r) == /\ pc[r] = "scatter"
                 /\ Zipping(r)
                 /\ LET t == TextAt(r, pos[r])
                        v == vecs[r][pos[r]]
                    IN  /\ cache'  = Inserted(Key(body[r], t), v)
                        /\ cached' = [cached EXCEPT ![r] =
                                         [i \in DOMAIN @ |-> IF i \in pending[r][t] THEN v ELSE @[i]]]
                 /\ pos' = [pos EXCEPT ![r] = @ + 1]
                 /\ UNCHANGED <<backend, server, pc, body, pending, order, vecs, status>>

Reply(r) == /\ pc[r] = "scatter"
            /\ ~Zipping(r)
            /\ Respond(r, 200)
            /\ UNCHANGED <<backend, server, cache, localVars>>

\* moka removes entries in the background while the cache is over its capacity.
Evict == /\ Cardinality(DOMAIN cache) > MaxEntries
         /\ \E k \in DOMAIN cache : cache' = Restrict(cache, DOMAIN cache \ {k})
         /\ UNCHANGED <<backend, server, pc, localVars, status>>

------------------------------------------------------------------------------
(* shutdown_signal.                                                          *)

\* The token is cancelled; the listener stays open for drain_timeout.
Signal == /\ server = "serving"
          /\ server' = "draining"
          /\ UNCHANGED <<backend, cache, pc, localVars, status>>

\* The drain window is over: no more requests are accepted.
CloseListener == /\ server = "draining"
                 /\ server' = "closed"
                 /\ UNCHANGED <<backend, cache, pc, localVars, status>>

------------------------------------------------------------------------------

Handler(r) == \/ Arrive(r)
              \/ Probe(r)
              \/ AllHits(r)
              \/ Dispatch(r)
              \/ BackendFails(r)
              \/ BackendAnswers(r)
              \/ Disconnect(r)
              \/ InsertNext(r)
              \/ Reply(r)

Next == \/ \E r \in Requests : Handler(r)
        \/ Evict
        \/ Signal
        \/ CloseListener

Spec == Init /\ [][Next]_vars

------------------------------------------------------------------------------
(* Properties.                                                              *)

\* cache.rs: no entry holds a vector computed for another model, another input
\* type or another text than its key says, whoever inserted it.
CacheSound ==
    \A b \in Bodies, t \in Texts :
        Key(b, t) \in DOMAIN cache => cache[Key(b, t)] = Vector(b, t)

\* api.rs: a 200 answers every position, duplicates included, with the vector
\* of that position's text, whatever was evicted or inserted meanwhile and
\* however many vectors the backend returned.
OwnVectors ==
    \A r \in Requests : status[r] = 200 =>
        cached[r] = [i \in DOMAIN body[r].texts |-> Vector(body[r], body[r].texts[i])]

==============================================================================
