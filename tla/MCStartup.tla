----------------------------- MODULE MCStartup -----------------------------
(* Environments for the server and up to two workers: in one process and in    *)
(* several, with and without a cache, some of them unusable.                   *)
EXTENDS Startup

CONSTANTS m1, m2, m3, r1, s1,  \* names of models; m1 and m3 share their key
          d1, d2, c1, c2       \* directories of models, of caches; c2 cannot be used

MCEnvKey(name) == IF name = m3 THEN m1 ELSE name

File(dir, name, batch) == [dir |-> dir, name |-> name, batch |-> batch]
MCFiles == {File(d1, "model_quantized.onnx", 0), File(d2, "model_quantized.onnx", 0),
            File(d2, "model_quantized_static_b", 1), File(d2, "model_quantized_static", 1),
            File(d2, "model.onnx", 0)}
MCReplaced == {File(d1, "model_quantized.onnx", 0)}
MCMissing  == {{}, MCReplaced \cup {File(d2, "model_quantized_static_b", 1)}}
MCMtimeOf(f, v) == 2 * v + (IF f.dir = d1 THEN 1 ELSE 0)

MCArenaDefaults == [max_mem |-> 6144, initial_chunk |-> 1]

Text(t)   == [text |-> t, spaced |-> FALSE]
Spaced(t) == [text |-> t, spaced |-> TRUE]
Bytes(n, suffix) == [text |-> n, spaced |-> FALSE, suffix |-> suffix]

Model(name, dir)    == [fields |-> 6, name |-> name, dir |-> dir, max_len |-> 4,
                        parses |-> TRUE]
Reranker(name, dir) == [fields |-> 4, name |-> name, dir |-> dir, max_len |-> 4, padded |-> TrueWord]
Splade(name, dir)   == [fields |-> 3, name |-> name, dir |-> dir, max_len |-> 4]

Base == [vars |-> [x \in {} |-> Unset], models |-> <<Model(m1, d1)>>, rerankers |-> Unset,
         splades |-> Unset, default_model |-> Unset, rerank_sizes |-> Unset,
         embed_sizes |-> Unset, splade_sizes |-> Unset]

Set(e, name, raw)           == [e EXCEPT !.vars = (<<name, Global>> :> raw) @@ @]
SetFor(e, name, model, raw) == [e EXCEPT !.vars = (<<name, model>> :> raw) @@ @]

Cache(e, dir) == Set(e, "ONNX_OPT_CACHE_DIR", Spaced(dir))
Multi(e)      == Set(e, "EMBED_MULTI_PROCESS", Text(TrueWord))

\* One process, two sessions, a cache; an embedding model and a sparse one.
OneProcess ==
    Set(Set(Cache([Base EXCEPT !.splades = <<Blank, Splade(s1, d2)>>], c1),
            "EMBED_SESSION_POOL_SIZE", Spaced(2)), "EMBED_IDLE_EVICT_SECS", Text(300))

\* One process, a reranker with its static graphs.
WithReranker == Cache([Base EXCEPT !.rerankers = <<Reranker(r1, d2)>>, !.rerank_sizes = <<1, 0, 1, 5>>], c1)

\* Two workers whose models share their file and, by their key, their variables.
SharedFile ==
    Set(SetFor(SetFor(Set(Set(Multi(Cache([Base EXCEPT !.models = <<Model(m1, d1), Model(m3, d1)>>], c1)),
            "EMBED_SESSION_POOL_SIZE", Text(0)), "AUTO_TRUNCATE", Text(0)),
            "EMBED_MEMORY_PATTERN", m1, Text(FalseWord)), "EMBED_WARMUP_SEQ_LEN", m1, Text(8)),
        "ORT_OPT_LEVEL", Text(1))

\* A worker for each kind; the embedding model has its own size and no cache.
TwoKinds ==
    SetFor(SetFor(Multi(Cache([Base EXCEPT !.rerankers = <<Reranker(r1, d2)>>], c1)),
            "EMBED_SESSION_POOL_SIZE", m1, Text(2)), "ONNX_OPT_CACHE_DIR", m1, Text(c2))

\* Refused, or ended by a panic.
NoSuchDefault == [Base EXCEPT !.default_model = m2]
BadEntry      == [Base EXCEPT !.models = <<[Model(m1, d1) EXCEPT !.fields = 7] @@ [onnx |-> Path]>>]
BadArena      == SetFor(Multi(Base), "EMBED_ARENA_MAX_MEM_BYTES", m1, Bytes(0, "K"))
NoQueue       == Set(Set(Base, "BATCHING_ENABLED", Text(1)), "MAX_QUEUE_SIZE", Text(0))

MCEnvironments == {OneProcess, WithReranker, SharedFile, TwoKinds,
                   NoSuchDefault, BadEntry, BadArena, NoQueue}
==============================================================================
