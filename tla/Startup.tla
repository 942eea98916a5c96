------------------------------ MODULE Startup ------------------------------
(***************************************************************************)
(* How the server and, in multi-process mode, its workers come up             *)
(* (src/src/main.rs, src/src/bin/worker.rs): the arena, the configuration,    *)
(* the pools of ONNX sessions through the cache of optimized graphs           *)
(* (onnx_cache.rs), the warm-up, the launch of the workers, the listener.     *)
(*                                                                         *)
(* Process 0 is the server, process w the w-th worker.  A process can be      *)
(* killed at any point, model files are replaced in place at any point, and   *)
(* all processes share the cache on disk.                                     *)
(***************************************************************************)
EXTENDS Config

CONSTANTS Environments,  \* the environments the container may be started with
          MaxWorkers,
          Files,         \* model files: [dir, name, batch]; batch is 0 in all but static graphs
          MissingFiles,  \* the sets of files that may be missing
          Replaced,      \* the files that may be replaced while processes run
          MaxVersion,    \* how often a file is written, at most
          MtimeOf(_, _), \* the modification time of a version of a file
          WithSidecar,   \* the files with a `.data` file next to them
          UsableDirs,    \* the cache directories that can be made and written
          DefaultRatio

ASSUME StartupAssumption ==
    /\ MaxWorkers \in Nat /\ MaxVersion \in Nat \ {0}
    /\ Files \subseteq [dir : {f.dir : f \in Files}, name : {f.name : f \in Files}, batch : Nat]
    /\ WithSidecar \subseteq Files /\ Replaced \subseteq Files
    /\ \A gone \in MissingFiles : gone \subseteq Files

\* There are finitely many files, and a static graph named in the old way is for
\* batches of one.
ASSUME FilesAssumption ==
    /\ IsFiniteSet(Files)
    /\ \A f \in Files : f.name = "model_quantized_static" => f.batch = 1

\* The lists of models an environment has are lists.
ASSUME EnvironmentsAssumption ==
    \A e \in Environments : \A list \in {e.models, e.rerankers, e.splades} :
        list # Unset => list \in Seq(Range(list))

\* No two files of one base name have the same modification time.
ASSUME MtimesDiffer ==
    \A f, g \in Files, u, v \in 1..MaxVersion :
        /\ f.name = g.name /\ f.batch = g.batch
        /\ MtimeOf(f, u) = MtimeOf(g, v)
        => f = g /\ u = v

VARIABLES env,      \* the environment of the container
          source,   \* the version of each model file, 0 when there is none
          cached,   \* the cache: a partial function from paths to files
          proc,     \* the processes
          launched  \* the workers whose launch has succeeded
vars == <<env, source, cached, proc, launched>>

Procs   == 0..MaxWorkers
Workers == Procs \ {0}

NoPlan == [load |-> "none", key |-> None, seen |-> 0]
NoData == [file |-> None, version |-> 0, whole |-> FALSE]
Down   == [pc |-> "down", arena |-> FALSE, todo |-> <<>>, built |-> 0, plan |-> NoPlan,
           bytes |-> NoData, sessions |-> <<>>, why |-> "none"]

------------------------------------------------------------------------------
(* What a process has to do to load a model.                                *)

parse_opt_level(raw) == LET n == IF raw = Unset THEN Err ELSE Parse(raw, 255)
                        IN  IF n \in 0..2 THEN n ELSE 3

parse_intra_op_spinning(raw) == raw # Unset /\ ~raw.spaced /\ raw.text \in {1, TrueWord}

\* Off with the memory pattern unless the variable of the model says otherwise.
arena_shrink_enabled_for_model(env0, name, memory_pattern) ==
    LET own == VarFor(env0, "EMBED_ARENA_SHRINK", EnvKey(name))
    IN  IF own # Unset /\ ~own.spaced /\ Flag(own.text) # Err THEN Flag(own.text)
        ELSE ~memory_pattern

\* A variable of the model that is set but empty hides the one for all models.
resolve_subbatch_ratio(env0, name) ==
    LET own == VarFor(env0, "EMBED_SUBBATCH_RATIO", EnvKey(name))
    IN  TrimmedOr(IF own # Unset THEN own ELSE Var(env0, "EMBED_SUBBATCH_RATIO"), DefaultRatio)

\* What every session is built with.
Common(env0, intra_threads, memory_pattern, auto_truncate, max_len) ==
    [intra_threads |-> intra_threads, memory_pattern |-> memory_pattern,
     auto_truncate |-> auto_truncate, max_len |-> max_len,
     opt_level |-> parse_opt_level(Var(env0, "ORT_OPT_LEVEL")),
     spinning |-> parse_intra_op_spinning(Var(env0, "ORT_INTRA_OP_SPINNING")),
     idle_evict_secs |-> 0, padded_model |-> TRUE, shrink |-> FALSE, ratio |-> 0]

\* Every load clamps the size of its pool.
Pool(kind, name, file, size, options) ==
    [do |-> "pool", kind |-> kind, name |-> name, file |-> file,
     size |-> IF size = 0 THEN 1 ELSE size, options |-> options, shapes |-> {}]

EmbedModel_load(env0, def, intra_threads, auto_truncate, pool_size, idle_evict_secs) ==
    <<Pool("embed", def.name, [dir |-> def.dir, name |-> def.onnx_filename, batch |-> 0], pool_size,
           [Common(env0, intra_threads, def.memory_pattern, auto_truncate, def.max_len) EXCEPT
               !.idle_evict_secs = idle_evict_secs,
               !.shrink = arena_shrink_enabled_for_model(env0, def.name, def.memory_pattern),
               !.ratio  = resolve_subbatch_ratio(env0, def.name)])>>

\* The static graphs next to a reranker; an explicit file for batches of one beats
\* the one named in the old way.
StaticGraphs(dir) ==
    LET explicit == {f \in Files : f.dir = dir /\ f.name = "model_quantized_static_b" /\ f.batch > 0}
        legacy   == {f \in Files : /\ f.dir = dir /\ f.name = "model_quantized_static"
                                   /\ \A e \in explicit : e.batch # 1}
    IN  {f \in explicit \cup legacy : source[f] > 0}

SmallestBatchFirst(graphs) ==
    CHOOSE s \in [1..Cardinality(graphs) -> graphs] :
        \A i, j \in DOMAIN s : i < j => s[i].batch < s[j].batch

discover_static_shape_files(dir) == SmallestBatchFirst(StaticGraphs(dir))

StaticPoolSizePerShape == 2

StaticPools(name, static, options) ==
    [i \in DOMAIN static |-> Pool("rerank", name, static[i], StaticPoolSizePerShape, options)]

RerankerModel_load(env0, def, intra_threads, pool_size) ==
    LET memory_pattern == parse_memory_pattern(VarFor(env0, "EMBED_MEMORY_PATTERN", EnvKey(def.name)))
        options == [Common(env0, intra_threads, memory_pattern, TRUE, def.max_len) EXCEPT
                        !.padded_model = def.padded_model]
    IN  <<Pool("rerank", def.name, [dir |-> def.dir, name |-> "model_quantized.onnx", batch |-> 0],
               pool_size, options)>>
        \o StaticPools(def.name, discover_static_shape_files(def.dir), options)

SpladeModel_load(env0, def, intra_threads, pool_size) ==
    LET memory_pattern == parse_memory_pattern(VarFor(env0, "EMBED_MEMORY_PATTERN", EnvKey(def.name)))
    IN  <<Pool("splade", def.name, [dir |-> def.dir, name |-> "model.onnx", batch |-> 0], pool_size,
               Common(env0, intra_threads, memory_pattern, TRUE, def.max_len))>>

\* The dummy inferences, <<batch, length>>, that every session of the dynamic pool
\* of a model runs.  A failure is logged and the next shape is tried.
Warm(kind, name, shapes) == <<[do |-> "warm", kind |-> kind, name |-> name, shapes |-> shapes]>>

WarmLength(seq_len, max_len) == IF seq_len = None THEN max_len ELSE Max({1, Min({seq_len, max_len})})

ShapesAt(sizes, seq_len, max_len) == {<<b, WarmLength(seq_len, max_len)>> : b \in Range(sizes)}

\* The sparse encoder runs one short text for each size, whatever the size is.
SpladeShapes(sizes) == {<<1, 1>> : b \in Range(sizes)}

\* Everything the server does by itself in one process.
ServerPlan(env0, cfg) ==
    FlattenSeq([i \in DOMAIN cfg.models |->
        LET def == cfg.models[i]
        IN  EmbedModel_load(env0, def, cfg.pools.intra_threads, cfg.batching.auto_truncate,
                            cfg.pools.embed_pool_size, cfg.idle_evict_secs)
            \o Warm("embed", def.name, ShapesAt(cfg.warmups.embed_warmup_batch_sizes,
                                                def.warmup_seq_len, def.max_len))])
    \o <<[do |-> "batchers"]>>
    \o FlattenSeq([i \in DOMAIN cfg.rerankers |->
        LET def == cfg.rerankers[i]
        IN  RerankerModel_load(env0, def, cfg.pools.reranker_intra_threads,
                               cfg.pools.reranker_pool_size)
            \o Warm("rerank", def.name, ShapesAt(cfg.warmups.rerank_warmup_batch_sizes,
                                                 cfg.warmups.embed_warmup_seq_len, def.max_len))])
    \o FlattenSeq([i \in DOMAIN cfg.splades |->
        LET def == cfg.splades[i]
        IN  SpladeModel_load(env0, def, cfg.pools.splade_intra_threads, cfg.pools.splade_pool_size)
            \o Warm("splade", def.name, SpladeShapes(cfg.warmups.splade_warmup_batch_sizes))])

\* The workers the server starts, in the order in which it starts them.
SpawnSpecs(env0, cfg) ==
    [i \in DOMAIN cfg.models |->
        [kind |-> "embed", model |-> cfg.models[i].name,
         pool_size |-> resolve_embed_pool_size_for_model(env0, cfg.models[i].name),
         intra_threads |-> cfg.pools.intra_threads]]
    \o [i \in DOMAIN cfg.rerankers |->
        [kind |-> "rerank", model |-> cfg.rerankers[i].name,
         pool_size |-> cfg.pools.reranker_pool_size,
         intra_threads |-> cfg.pools.reranker_intra_threads]]
    \o [i \in DOMAIN cfg.splades |->
        [kind |-> "splade", model |-> cfg.splades[i].name,
         pool_size |-> cfg.pools.splade_pool_size,
         intra_threads |-> cfg.pools.splade_intra_threads]]

Find(defs, name) == defs[CHOOSE i \in DOMAIN defs :
                            defs[i].name = name /\ \A j \in 1..(i - 1) : defs[j].name # name]

\* Fault: a worker neither truncates nor evicts, whatever is configured.
StandaloneEmbedder_load_Fixed(env0, cfg, spec) ==
    EmbedModel_load(env0, Find(cfg.models, spec.model), spec.intra_threads, FALSE, spec.pool_size, 0)

StandaloneEmbedder_load(env0, cfg, spec) ==
    EmbedModel_load(env0, Find(cfg.models, spec.model), spec.intra_threads,
                    cfg.batching.auto_truncate, spec.pool_size, cfg.idle_evict_secs)

StandaloneReranker_load(env0, cfg, spec) ==
    RerankerModel_load(env0, Find(cfg.rerankers, spec.model), spec.intra_threads, spec.pool_size)

StandaloneSplade_load(env0, cfg, spec) ==
    SpladeModel_load(env0, Find(cfg.splades, spec.model), spec.intra_threads, spec.pool_size)

\* A worker loads one model and does not warm it up.
WorkerPlan(env0, cfg, spec) ==
    CASE spec.kind = "embed"  -> StandaloneEmbedder_load(env0, cfg, spec)
      [] spec.kind = "rerank" -> StandaloneReranker_load(env0, cfg, spec)
      [] spec.kind = "splade" -> StandaloneSplade_load(env0, cfg, spec)

------------------------------------------------------------------------------
(* The cache of optimized graphs.                                           *)

from_env_for_model(env0, name) ==
    LET own == VarFor(env0, "ONNX_OPT_CACHE_DIR", EnvKey(name))
        raw == IF own # Unset /\ own.text # Empty THEN own ELSE Var(env0, "ONNX_OPT_CACHE_DIR")
    IN  IF raw # Unset /\ raw.text \in UsableDirs THEN raw.text ELSE None

\* Fault: the path does not tell versions apart.
cache_path_NoMtime(dir, file) == <<dir, file.name, file.batch, 0>>

\* Base name and modification time, not the directory of the model.
cache_path(dir, file) == <<dir, file.name, file.batch, MtimeOf(file, source[file])>>

decide(dir, file) ==
    IF dir = None THEN [load |-> "source", key |-> None, seen |-> source[file]]
    ELSE [load |-> IF cache_path(dir, file) \in DOMAIN cached THEN "hit" ELSE "miss",
          key  |-> cache_path(dir, file), seen |-> source[file]]

\* A model with a sidecar goes past the cache, if it is an embedding model.
PlanOf(job) == decide(IF job.kind = "embed" /\ job.file \in WithSidecar THEN None
                      ELSE from_env_for_model(env, job.name), job.file)

Whole(entry) == entry.writing = {} /\ ~entry.torn

\* A process that dies leaves what it was writing as it is.
Abandoned(dead) ==
    [k \in DOMAIN cached |->
        [cached[k] EXCEPT !.writing = @ \ dead, !.torn = @ \/ cached[k].writing \cap dead # {}]]

------------------------------------------------------------------------------
(* The life of a process.                                                   *)

Job(p)  == Head(proc[p].todo)
Next1(p) == [proc EXCEPT ![p].todo = Tail(@), ![p].built = 0, ![p].pc = "load"]

\* The container goes with the server.
Ends(p, why) ==
    LET dead == IF p = 0 THEN Procs ELSE {p}
    IN  /\ proc' = [q \in Procs |-> IF q = p THEN [Down EXCEPT !.pc = "dead", !.why = why]
                                    ELSE IF q \in dead THEN Down ELSE proc[q]]
        /\ cached' = Abandoned(dead)
        /\ launched' = IF p = 0 THEN {} ELSE launched
        /\ UNCHANGED <<env, source>>

Boot ==
    /\ proc[0].pc \in {"down", "dead"}
    /\ proc' = [proc EXCEPT ![0] = [Down EXCEPT !.pc = "arena"]]
    /\ UNCHANGED <<env, source, cached, launched>>

SpecOf(w, cfg) == SpawnSpecs(env, cfg)[w]

\* An unusable setting panics.  When ONNX Runtime refuses the arena a worker gives
\* up and the server goes on without it.
RegisterArena(p) ==
    /\ proc[p].pc = "arena"
    /\ LET size == init_arena_config_for_model(env, IF p = 0 THEN None ELSE SpecOf(p, from_env(env)).model)
           next == IF p = 0 THEN "config" ELSE "load"
       IN  \/ size = Err /\ Ends(p, "arena")
           \/ /\ size # Err
              /\ proc' = [proc EXCEPT ![p].arena = TRUE, ![p].pc = next]
              /\ UNCHANGED <<env, source, cached, launched>>
           \/ /\ size # Err /\ p = 0
              /\ proc' = [proc EXCEPT ![p].pc = next]
              /\ UNCHANGED <<env, source, cached, launched>>
           \/ size # Err /\ p # 0 /\ Ends(p, "arena")

\* The server reads it after the arena is registered, a worker before.
ReadConfig(p) ==
    /\ proc[p].pc = "config"
    /\ LET cfg == from_env(env)
       IN  \/ cfg = Err /\ Ends(p, "config")
           \/ /\ cfg # Err
              /\ proc' = IF p # 0
                         THEN [proc EXCEPT ![p].pc = "arena",
                                           ![p].todo = WorkerPlan(env, cfg, SpecOf(p, cfg))]
                         ELSE IF cfg.multi_process THEN [proc EXCEPT ![0].pc = "spawn"]
                         ELSE [proc EXCEPT ![0].pc = "load", ![0].todo = ServerPlan(env, cfg)]
              /\ UNCHANGED <<env, source, cached, launched>>

Present(file) == file \in Files /\ source[file] # 0

\* Every build asserts that the arena is there.
Decide(p) ==
    /\ proc[p].pc = "load" /\ proc[p].todo # <<>> /\ Job(p).do = "pool"
    /\ \/ ~Present(Job(p).file) /\ Ends(p, "missing")
       \/ Present(Job(p).file) /\ ~proc[p].arena /\ Ends(p, "panic")
       \/ /\ Present(Job(p).file) /\ proc[p].arena
          /\ proc' = [proc EXCEPT ![p].plan = PlanOf(Job(p)), ![p].pc = "read"]
          /\ UNCHANGED <<env, source, cached, launched>>

\* Locking the bytes in memory is tried and changes nothing else.
read_and_mlock(p) ==
    /\ proc[p].pc = "read"
    /\ LET plan == proc[p].plan
           data == IF plan.load = "hit"
                   THEN [file |-> cached[plan.key].file, version |-> cached[plan.key].version,
                         whole |-> Whole(cached[plan.key])]
                   ELSE [file |-> Job(p).file, version |-> source[Job(p).file], whole |-> TRUE]
       IN  proc' = [proc EXCEPT ![p].bytes = data, ![p].pc = "commit"]
    /\ UNCHANGED <<env, source, cached, launched>>

NewSession(p) == [kind |-> Job(p).kind, name |-> Job(p).name, own |-> Job(p).file,
                  file |-> proc[p].bytes.file, version |-> proc[p].bytes.version,
                  seen |-> proc[p].plan.seen, options |-> Job(p).options, warm |-> {}]

\* One session more; the pool may be complete.
Built(p) ==
    LET job == Job(p)
        all == proc[p].built + 1 = job.size
    IN  [proc EXCEPT ![p].sessions = Append(@, NewSession(p)), ![p].pc = "load",
                     ![p].plan = NoPlan, ![p].bytes = NoData,
                     ![p].built = IF all THEN 0 ELSE @ + 1,
                     ![p].todo = IF all THEN Tail(@) ELSE @]

\* Without a static pool the reranker does without it, and what was built of it is
\* dropped; without another pool the process ends.
PoolFails(p, why) ==
    LET job == Job(p)
    IN  \/ job.file.batch = 0 /\ Ends(p, why)
        \/ /\ job.file.batch # 0
           /\ proc' = [Next1(p) EXCEPT ![p].plan = NoPlan, ![p].bytes = NoData,
                           ![p].sessions = SubSeq(@, 1, Len(@) - proc[p].built)]
           /\ cached' = Abandoned({p})
           /\ UNCHANGED <<env, source, launched>>

\* A graph that is not all there does not load.
Commit(p) ==
    /\ proc[p].pc = "commit"
    /\ \/ ~proc[p].bytes.whole /\ PoolFails(p, "cache")
       \/ /\ proc[p].bytes.whole /\ proc[p].plan.load # "miss"
          /\ proc' = Built(p)
          /\ UNCHANGED <<env, source, cached, launched>>

\* On a miss ONNX Runtime serializes the optimized graph while it builds the
\* session: it opens the file anew, or skips it, or fails and the build with it.
StartWrite(p) ==
    /\ proc[p].pc = "commit" /\ proc[p].bytes.whole /\ proc[p].plan.load = "miss"
    /\ LET key   == proc[p].plan.key
           data  == proc[p].bytes
           there == IF key \in DOMAIN cached THEN cached[key].writing ELSE {}
           mixed == there # {} /\ cached[key].version # data.version
       IN  \E torn \in IF mixed THEN BOOLEAN ELSE {FALSE} :
               cached' = [k \in DOMAIN cached \cup {key} |->
                             IF k = key THEN [file |-> data.file, version |-> data.version,
                                              writing |-> there \cup {p}, torn |-> torn]
                             ELSE cached[k]]
    /\ proc' = [proc EXCEPT ![p].pc = "write"]
    /\ UNCHANGED <<env, source, launched>>

NotWritten(p) ==
    /\ proc[p].pc = "commit" /\ proc[p].bytes.whole /\ proc[p].plan.load = "miss"
    /\ \/ proc' = Built(p) /\ UNCHANGED <<env, source, cached, launched>>
       \/ PoolFails(p, "write")

FinishWrite(p) ==
    /\ proc[p].pc = "write"
    /\ \/ /\ cached' = [cached EXCEPT ![proc[p].plan.key].writing = @ \ {p}]
          /\ proc' = Built(p)
          /\ UNCHANGED <<env, source, launched>>
       \/ PoolFails(p, "write")


\* All the slots of the dynamic pool are taken before the first of them runs, so
\* that none is warmed twice and none is left out.
EverySlot(p) == {i \in DOMAIN proc[p].sessions :
                    LET s == proc[p].sessions[i]
                    IN  s.kind = Job(p).kind /\ s.name = Job(p).name /\ s.own.batch = 0}

Warmup(p) ==
    /\ proc[p].pc = "load" /\ proc[p].todo # <<>> /\ Job(p).do = "warm"
    /\ proc' = [Next1(p) EXCEPT ![p].sessions =
                    [i \in DOMAIN proc[p].sessions |->
                        IF i \in EverySlot(p) THEN [@[i] EXCEPT !.warm = Job(p).shapes] ELSE @[i]]]
    /\ UNCHANGED <<env, source, cached, launched>>

\* A channel without room cannot be made.
StartBatchers(p) ==
    /\ proc[p].pc = "load" /\ proc[p].todo # <<>> /\ Job(p).do = "batchers"
    /\ LET batching == Batching(env)
           panics   == batching.batching_enabled /\ batching.max_queue_size = 0
       IN  \/ panics /\ Ends(p, "panic")
           \/ ~panics /\ proc' = Next1(p) /\ UNCHANGED <<env, source, cached, launched>>

\* A worker binds its socket, the server its port.
Loaded(p) ==
    /\ proc[p].pc = "load" /\ proc[p].todo = <<>>
    /\ proc' = [proc EXCEPT ![p].pc = IF p = 0 THEN "bind" ELSE "up"]
    /\ UNCHANGED <<env, source, cached, launched>>

------------------------------------------------------------------------------
(* The server and its workers.                                              *)

Started == proc[0].built
AllOf(cfg) == Len(cfg.models) + Len(cfg.rerankers) + Len(cfg.splades)

Spawn ==
    /\ proc[0].pc = "spawn"
    /\ proc' = IF Started = AllOf(from_env(env)) THEN [proc EXCEPT ![0].pc = "await"]
               ELSE [proc EXCEPT ![0].built = @ + 1, ![Started + 1] = [Down EXCEPT !.pc = "config"]]
    /\ UNCHANGED <<env, source, cached, launched>>

\* launch returns when the socket of the worker is there.
Launched(w) ==
    /\ proc[0].pc \in {"spawn", "await"} /\ proc[w].pc = "up" /\ w \notin launched
    /\ launched' = launched \cup {w}
    /\ UNCHANGED <<env, source, cached, proc>>

\* The worker has ended, or its time is up; the launches are awaited in order.
LaunchFails(w) ==
    /\ proc[0].pc = "await" /\ w \in 1..Started /\ proc[w].pc # "up"
    /\ w \notin launched /\ 1..(w - 1) \subseteq launched
    /\ Ends(0, "worker")

AwaitAll ==
    /\ proc[0].pc = "await" /\ launched = 1..Started
    /\ proc' = [proc EXCEPT ![0].pc = "bind"]
    /\ UNCHANGED <<env, source, cached, launched>>

Bind ==
    /\ proc[0].pc = "bind"
    /\ \/ /\ proc' = [proc EXCEPT ![0].pc = "up"]
          /\ UNCHANGED <<env, source, cached, launched>>
       \/ Ends(0, "port")

\* The supervisor of a launched worker replaces it.
Respawn(w) ==
    /\ w \in launched /\ proc[w].pc = "dead"
    /\ proc' = [proc EXCEPT ![w] = [Down EXCEPT !.pc = "config"]]
    /\ UNCHANGED <<env, source, cached, launched>>

Kill(p) == proc[p].pc \notin {"down", "dead"} /\ Ends(p, "killed")

Deploy(f) ==
    /\ source[f] \in 1..(MaxVersion - 1)
    /\ source' = [source EXCEPT ![f] = @ + 1]
    /\ UNCHANGED <<env, cached, proc, launched>>

------------------------------------------------------------------------------
Init ==
    /\ env \in Environments
    /\ \E gone \in MissingFiles : source = [f \in Files |-> IF f \in gone THEN 0 ELSE 1]
    /\ cached = [k \in {} |-> None]
    /\ proc = [p \in Procs |-> Down]
    /\ launched = {}

Load(p) == \/ RegisterArena(p) \/ ReadConfig(p) \/ Decide(p) \/ read_and_mlock(p) \/ Commit(p)
           \/ StartWrite(p) \/ NotWritten(p) \/ FinishWrite(p) \/ Warmup(p) \/ StartBatchers(p)
           \/ Loaded(p)

Next ==
    \/ Boot \/ Spawn \/ AwaitAll \/ Bind
    \/ \E p \in Procs : Load(p) \/ Kill(p)
    \/ \E w \in Workers : Launched(w) \/ LaunchFails(w) \/ Respawn(w)
    \/ \E f \in Replaced : Deploy(f)

Spec == Init /\ [][Next]_vars

------------------------------------------------------------------------------
(* Properties.                                                              *)

Dynamic(p, kind, name) ==
    {i \in DOMAIN proc[p].sessions : LET s == proc[p].sessions[i]
                                     IN  s.kind = kind /\ s.name = name /\ s.own.batch = 0}

\* A server that listens can serve what its configuration names: in one process
\* every model, the default one among them, has a session, and a worker that
\* listens has as many sessions as it lets requests in at a time, one at least.
ServesItsModels ==
    proc[0].pc = "up" =>
        LET cfg   == from_env(env)
            specs == SpawnSpecs(env, cfg)
        IN  /\ \E i \in DOMAIN specs : specs[i].kind = "embed" /\ specs[i].model = cfg.default_model
            /\ \A i \in DOMAIN specs :
                   IF cfg.multi_process
                   THEN proc[i].pc = "up" =>
                            /\ specs[i].pool_size > 0
                            /\ Cardinality(Dynamic(i, specs[i].kind, specs[i].model)) = specs[i].pool_size
                   ELSE Dynamic(0, specs[i].kind, specs[i].model) # {}

\* A session runs the graph of its own model, and not an older one than was on disk
\* when the session was started, whatever the cache holds.
FreshGraph ==
    \A p \in Procs : \A i \in DOMAIN proc[p].sessions :
        LET s == proc[p].sessions[i] IN s.file = s.own /\ s.version >= s.seen

\* The sessions of a worker that listens have the options the server would have
\* given them in one process.
SameOptionsEitherMode ==
    LET plan == ServerPlan(env, from_env(env))
    IN  \A w \in {x \in Workers : proc[x].pc = "up"} : \A i \in DOMAIN proc[w].sessions :
            LET s == proc[w].sessions[i]
            IN  \E j \in DOMAIN plan :
                    /\ plan[j].do = "pool" /\ plan[j].kind = s.kind /\ plan[j].name = s.name
                    /\ plan[j].file = s.own /\ plan[j].options = s.options


\* "Startup never fails because of the cache" (onnx_cache.rs): no process ends
\* because of what it read from the cache directory.
StartupSurvivesCache == \A p \in Procs : proc[p].why # "cache"
==============================================================================
