------------------------------- MODULE Config -------------------------------
(***************************************************************************)
(* The environment a process starts from, and Config::from_env               *)
(* (src/src/config.rs), which either rejects it or turns it into the          *)
(* configuration the server and its workers run on.  The size limits of the   *)
(* allocator arena (arena.rs) come from the same environment.                 *)
(*                                                                         *)
(* The value of a variable is its text, a number or one of a few words, and   *)
(* whether there is white space around it: some variables are trimmed before  *)
(* they are parsed and some are not.  Words are in lower case.  What only      *)
(* sizes a cache, a queue or a tensor is not kept: it can neither be rejected *)
(* nor change what is loaded.                                                 *)
(***************************************************************************)
EXTENDS Integers, Sequences, FiniteSets, SequencesExt

CONSTANTS Unset,      \* the variable is not in the environment
          Empty, Garbage, MaxWord, TrueWord, FalseWord,  \* texts that are not numbers
          Global,     \* the key of a variable that is not about one model
          Blank,      \* an entry of a list of models with nothing in it
          Path,       \* a file name that is a path
          None,       \* an Option that is None
          Err,        \* a Result that is Err
          EnvKey(_),  \* model_env_key: capital letters, `_` for `-`; two names may share it
          U16, Usize, \* the largest numbers of these types
          ArenaDefaults    \* the sizes of an arena that is not configured

Words == {Empty, Garbage, MaxWord, TrueWord, FalseWord}
Texts == Nat \cup Words
Raw   == {Unset} \cup [text : Texts, spaced : BOOLEAN]

ASSUME ConfigAssumption ==
    /\ Unset \notin [text : Texts, spaced : BOOLEAN]
    /\ Words \cap Nat = {} /\ Err \notin Nat /\ None \notin Nat
    /\ U16 \in Nat /\ Usize \in Nat
    /\ ArenaDefaults \in [max_mem : Nat, initial_chunk : Nat]

\* `env::var(name)` and `env::var(name_KEY)`.
VarFor(env, name, key) == IF <<name, key>> \in DOMAIN env.vars THEN env.vars[<<name, key>>] ELSE Unset
Var(env, name) == VarFor(env, name, Global)

------------------------------------------------------------------------------
(* Numbers and flags.                                                       *)

Number(text, max) == IF text \in Nat /\ text <= max THEN text ELSE Err

\* `parse` takes no white space, `trim().parse` does.
Parse(raw, max)   == IF raw.spaced THEN Err ELSE Number(raw.text, max)
Trimmed(raw, max) == Number(raw.text, max)

\* Anything but a number is replaced by the default; in most places zero is too.
ParseOr(raw, default)   == IF raw = Unset \/ Parse(raw, Usize) = Err THEN default ELSE raw.text
TrimmedOr(raw, default) == IF raw = Unset \/ Trimmed(raw, Usize) = Err THEN default ELSE raw.text
PositiveOr(raw, default) == IF TrimmedOr(raw, 0) = 0 THEN default ELSE raw.text

parse_reranker_pool_size(raw) == PositiveOr(raw, 1)
parse_splade_pool_size(raw)   == PositiveOr(raw, 1)

\* Fault: zero is taken at its word.
parse_embed_pool_size_Zero(raw) == TrimmedOr(raw, 1)

parse_embed_pool_size(raw) == PositiveOr(raw, 1)

\* The variable of the model first; one that is blank does not count.
resolve_embed_pool_size_for_model(env, name) ==
    LET own == VarFor(env, "EMBED_SESSION_POOL_SIZE", EnvKey(name))
    IN  parse_embed_pool_size(IF own # Unset /\ own.text # Empty THEN own
                              ELSE Var(env, "EMBED_SESSION_POOL_SIZE"))

\* None stands for the model's max_len.
parse_embed_warmup_seq_len(raw) == IF raw # Unset /\ raw.text = MaxWord THEN None
                                   ELSE PositiveOr(raw, 128)

parse_multi_process_flag(raw) == raw # Unset /\ ~raw.spaced /\ raw.text \in {1, TrueWord}

\* Only a clear no turns it off.
parse_memory_pattern(raw) == raw = Unset \/ raw.text \notin {0, FalseWord}

\* Duplicates go, the first of each stays; nothing usable means the defaults.
parse_warmup_batch_sizes(pieces, defaults) ==
    LET good  == IF pieces = Unset THEN <<>>
                 ELSE SelectSeq(pieces, LAMBDA x : x \in Nat \ {0})
        first == SetToSortSeq({i \in DOMAIN good : \A j \in 1..(i - 1) : good[j] # good[i]}, <)
    IN  IF good = <<>> THEN defaults ELSE [k \in DOMAIN first |-> good[first[k]]]

------------------------------------------------------------------------------
(* The lists of models.                                                     *)

\* An empty EMBED_WARMUP_SEQ_LEN_<KEY> says max, like the word; a wrong one falls
\* back to the value for all models and then to the model's own length.
ModelWarmup(env, key, global, max_len) ==
    LET own      == VarFor(env, "EMBED_WARMUP_SEQ_LEN", key)
        fallback == IF global # None THEN global ELSE max_len
    IN  IF own # Unset /\ own.text \in {Empty, MaxWord} THEN None ELSE PositiveOr(own, fallback)

\* The seventh field must be a plain file name.
OnnxFilename(entry) == IF entry.fields = 6 THEN "model_quantized.onnx"
                       ELSE IF entry.onnx \in {Empty, Path} THEN Err
                       ELSE entry.onnx

Flag(text) == IF text \in {1, TrueWord} THEN TRUE ELSE IF text \in {0, FalseWord} THEN FALSE ELSE Err

\* `parses`: dim, pad_id and has_tti are what they should be.
parse_one_model(env, entry, warmup) ==
    IF \/ entry.fields \notin 6..7 \/ ~entry.parses
       \/ Number(entry.max_len, Usize) = Err \/ OnnxFilename(entry) = Err
    THEN Err
    ELSE [name |-> entry.name, dir |-> entry.dir, onnx_filename |-> OnnxFilename(entry),
          max_len |-> entry.max_len,
          warmup_seq_len |-> ModelWarmup(env, EnvKey(entry.name), warmup, entry.max_len),
          memory_pattern |-> parse_memory_pattern(VarFor(env, "EMBED_MEMORY_PATTERN", EnvKey(entry.name)))]

parse_one_reranker(entry) ==
    IF entry.fields # 4 \/ Number(entry.max_len, Usize) = Err \/ Flag(entry.padded) = Err THEN Err
    ELSE [name |-> entry.name, dir |-> entry.dir, max_len |-> entry.max_len,
          padded_model |-> Flag(entry.padded)]

parse_one_splade(entry) ==
    IF entry.fields # 3 \/ Number(entry.max_len, Usize) = Err THEN Err
    ELSE [name |-> entry.name, dir |-> entry.dir, max_len |-> entry.max_len]

\* Blank entries are skipped; one bad entry spoils the list.
Entries(list) ==
    LET kept[i \in 0..Len(list)] == IF i = 0 THEN <<>>
                                    ELSE IF list[i] = Blank THEN kept[i - 1]
                                    ELSE Append(kept[i - 1], list[i])
    IN  IF list = Unset THEN <<>> ELSE kept[Len(list)]

Collected(defs) == IF \E i \in DOMAIN defs : defs[i] = Err THEN Err ELSE defs

\* The warm-up length all models fall back to is not the one of the Config: unset
\* or empty it is nothing here and 128 there.
GlobalWarmup(env) == LET raw == Var(env, "EMBED_WARMUP_SEQ_LEN")
                     IN  IF raw = Unset \/ raw = [text |-> Empty, spaced |-> FALSE] THEN None
                         ELSE parse_embed_warmup_seq_len(raw)

parse_models_with_globals(env) ==
    LET e == Entries(env.models)
    IN  Collected([i \in DOMAIN e |->
            parse_one_model(env, e[i], GlobalWarmup(env))])

parse_rerankers(env) == LET e == Entries(env.rerankers)
                        IN  Collected([i \in DOMAIN e |-> parse_one_reranker(e[i])])

parse_splades(env)   == LET e == Entries(env.splades)
                        IN  Collected([i \in DOMAIN e |-> parse_one_splade(e[i])])

------------------------------------------------------------------------------
(* from_env.                                                                *)

Named(defs, name) == \E i \in DOMAIN defs : defs[i].name = name

DefaultModel(env, models) == IF env.default_model # Unset THEN env.default_model ELSE models[1].name

Port(env)         == LET raw == Var(env, "EMBED_PORT")
                     IN  IF raw = Unset THEN 8082 ELSE Parse(raw, U16)

\* Zero would leave the choice to ONNX Runtime.
IntraThreads(env) == LET raw == Var(env, "EMBED_INTRA_THREADS")
                         n   == IF raw = Unset THEN 2 ELSE Parse(raw, Usize)
                     IN  IF n = 0 THEN 2 ELSE n

ThreadsOr(env, name) == IF ParseOr(Var(env, name), 0) = 0 THEN IntraThreads(env)
                        ELSE ParseOr(Var(env, name), 0)

PoolSizes(env) ==
    [intra_threads          |-> IntraThreads(env),
     embed_pool_size        |-> parse_embed_pool_size(Var(env, "EMBED_SESSION_POOL_SIZE")),
     reranker_pool_size     |-> parse_reranker_pool_size(Var(env, "RERANKER_SESSION_POOL_SIZE")),
     reranker_intra_threads |-> ThreadsOr(env, "RERANKER_INTRA_THREADS"),
     splade_pool_size       |-> parse_splade_pool_size(Var(env, "SPLADE_SESSION_POOL_SIZE")),
     splade_intra_threads   |-> ThreadsOr(env, "SPLADE_INTRA_THREADS")]

Batching(env) ==
    LET flag == Var(env, "BATCHING_ENABLED")
        auto == Var(env, "AUTO_TRUNCATE")
    IN  [batching_enabled |-> flag # Unset /\ ~flag.spaced /\ flag.text \in {1, TrueWord},
         max_queue_size   |-> ParseOr(Var(env, "MAX_QUEUE_SIZE"), 256),
         auto_truncate    |-> auto = Unset \/ auto # [text |-> FalseWord, spaced |-> FALSE]]

Warmups(env) ==
    [rerank_warmup_batch_sizes |-> parse_warmup_batch_sizes(env.rerank_sizes, <<1, 5>>),
     embed_warmup_batch_sizes  |-> parse_warmup_batch_sizes(env.embed_sizes, <<1, 8>>),
     splade_warmup_batch_sizes |-> parse_warmup_batch_sizes(env.splade_sizes, <<1>>),
     embed_warmup_seq_len      |-> parse_embed_warmup_seq_len(Var(env, "EMBED_WARMUP_SEQ_LEN"))]

\* The errors that keep a process from starting.
Rejected(env, models, rerankers, splades) ==
    \/ Port(env) = Err
    \/ models \in {Err, <<>>} \/ ~Named(models, DefaultModel(env, models))
    \/ IntraThreads(env) = Err
    \/ rerankers = Err \/ splades = Err

from_env(env) ==
    LET models    == parse_models_with_globals(env)
        rerankers == parse_rerankers(env)
        splades   == parse_splades(env)
    IN  IF Rejected(env, models, rerankers, splades) THEN Err
        ELSE [models          |-> models,
              rerankers       |-> rerankers,
              splades         |-> splades,
              default_model   |-> DefaultModel(env, models),
              multi_process   |-> parse_multi_process_flag(Var(env, "EMBED_MULTI_PROCESS")),
              pools           |-> PoolSizes(env),
              batching        |-> Batching(env),
              warmups         |-> Warmups(env),
              idle_evict_secs |-> TrimmedOr(Var(env, "EMBED_IDLE_EVICT_SECS"), 0)]

------------------------------------------------------------------------------
(* The arena of ONNX Runtime (arena.rs).  What it cannot use makes the process *)
(* panic, which is Err here too.                                              *)

Multiplier(suffix) == CASE suffix \in {"", "B"} -> 1
                        [] suffix = "K" -> 1024
                        [] suffix = "M" -> 1024 * 1024
                        [] suffix = "G" -> 1024 * 1024 * 1024
                        [] OTHER -> Err

\* Digits and a unit; an empty text has no digits.
parse_bytes_with_suffix(raw) ==
    IF raw.text \notin Nat \/ Multiplier(raw.suffix) = Err THEN Err
    ELSE Number(raw.text * Multiplier(raw.suffix), Usize)

parse_usize_env(env, name, default) == IF Var(env, name) = Unset THEN default
                                       ELSE parse_bytes_with_suffix(Var(env, name))

parse_i32_env(env, name, default)   == IF Var(env, name) = Unset THEN default
                                       ELSE Trimmed(Var(env, name), Usize)

\* The limit of the model first; the other sizes are for all models.
init_arena_config_for_model(env, model) ==
    LET own      == IF model = None THEN Unset
                    ELSE VarFor(env, "EMBED_ARENA_MAX_MEM_BYTES", EnvKey(model))
        max_mem  == IF own # Unset THEN parse_bytes_with_suffix(own)
                    ELSE parse_usize_env(env, "EMBED_ARENA_MAX_MEM_BYTES", ArenaDefaults.max_mem)
        chunk    == parse_usize_env(env, "EMBED_ARENA_INITIAL_CHUNK_BYTES", ArenaDefaults.initial_chunk)
        dead     == parse_usize_env(env, "EMBED_ARENA_MAX_DEAD_BYTES", 0)
        strategy == parse_i32_env(env, "EMBED_ARENA_EXTEND_STRATEGY", 1)
    IN  IF Err \in {max_mem, chunk, dead} \/ strategy \notin {0, 1} \/ max_mem < chunk THEN Err
        ELSE max_mem
==============================================================================
