---------------------------- MODULE SessionPool ----------------------------
(***************************************************************************)
(* The sessions of the sparse encoder and of the reranker (model_splade.rs,  *)
(* model_reranker/mod.rs): a vector of mutexes and a cursor for each pool.    *)
(* A caller takes the next number of the cursor, is bound by it to one        *)
(* session, busy or not, and waits for that session's mutex.                  *)
(*                                                                         *)
(* A reranker has a pool for every batch size with a static graph and one     *)
(* for all others.                                                            *)
(***************************************************************************)
EXTENDS Integers

CONSTANTS Callers,      \* the threads that run inferences
          Pools,        \* [kind, name, batch]; batch is 0 in all but static graphs
          PoolSize(_),
          CursorSize(_), \* the numbers a cursor counts before it wraps (2^64)
          Jobs,         \* what callers want computed: [kind, model, rows]
          Absent,       \* the model of a job that names none
          NoCaller, NoSession, NoJob

ASSUME PoolAssumption ==
    /\ \A q \in Pools : PoolSize(q) \in Nat \ {0} /\ CursorSize(q) \in Nat \ {0}
    /\ NoCaller \notin Callers /\ NoJob \notin Jobs

Session(q, i)  == [pool |-> q, index |-> i]
SessionsOf(q)  == {Session(q, i) : i \in 0..(PoolSize(q) - 1)}
Sessions       == UNION {SessionsOf(q) : q \in Pools}

ASSUME NoSessionAssumption == NoSession \notin Sessions

VARIABLES cursor,   \* `next` of each pool
          lock,     \* the caller that holds the mutex of a session
          job,      \* what a caller wants computed, from its request
          want,     \* the session a caller is bound to
          step      \* "idle", "waiting" for the mutex, "running" under it
poolVars == <<cursor, lock, job, want, step>>

PoolInit ==
    /\ cursor = [q \in Pools |-> 0]
    /\ lock   = [s \in Sessions |-> NoCaller]
    /\ job    = [c \in Callers |-> NoJob]
    /\ want   = [c \in Callers |-> NoSession]
    /\ step   = [c \in Callers |-> "idle"]

\* `fetch_add` on the cursor of the pool the caller has chosen for its job.
Pick(c, j, q) ==
    /\ step[c] = "idle"
    /\ job'    = [job EXCEPT ![c] = j]
    /\ want'   = [want EXCEPT ![c] = Session(q, cursor[q] % PoolSize(q))]
    /\ cursor' = [cursor EXCEPT ![q] = (@ + 1) % CursorSize(q)]
    /\ step'   = [step EXCEPT ![c] = "waiting"]
    /\ UNCHANGED lock

Lock(c) ==
    /\ step[c] = "waiting"
    /\ lock[want[c]] = NoCaller
    /\ lock' = [lock EXCEPT ![want[c]] = c]
    /\ step' = [step EXCEPT ![c] = "running"]
    /\ UNCHANGED <<cursor, job, want>>

\* Fault: an early return keeps the mutex.
Unlock_Leak(c) ==
    /\ step[c] = "running"
    /\ job'  = [job EXCEPT ![c] = NoJob]
    /\ want' = [want EXCEPT ![c] = NoSession]
    /\ step' = [step EXCEPT ![c] = "idle"]
    /\ UNCHANGED <<cursor, lock>>

\* The guard goes out of scope, whatever the inference has returned.
Unlock(c) ==
    /\ step[c] = "running"
    /\ lock' = [lock EXCEPT ![want[c]] = NoCaller]
    /\ job'  = [job EXCEPT ![c] = NoJob]
    /\ want' = [want EXCEPT ![c] = NoSession]
    /\ step' = [step EXCEPT ![c] = "idle"]
    /\ UNCHANGED cursor

\* A graph takes the rows it was exported for, a dynamic one any number; a job that
\* names no model is for whichever there is.
Accepts(q, j) == /\ q.kind = j.kind
                 /\ j.model \in {Absent, q.name}
                 /\ q.batch \in {0, j.rows}

\* The pools as they are to be used: for each job one that takes it.
PoolNext == \E c \in Callers : \/ \E j \in Jobs, q \in Pools : Accepts(q, j) /\ Pick(c, j, q)
                               \/ Lock(c) \/ Unlock(c)

PoolSpec == PoolInit /\ [][PoolNext]_poolVars

------------------------------------------------------------------------------

PoolTypeOK ==
    /\ DOMAIN cursor = Pools /\ \A q \in Pools : cursor[q] \in 0..(CursorSize(q) - 1)
    /\ lock \in [Sessions -> Callers \cup {NoCaller}]
    /\ job  \in [Callers -> Jobs \cup {NoJob}]
    /\ want \in [Callers -> Sessions \cup {NoSession}]
    /\ step \in [Callers -> {"idle", "waiting", "running"}]

\* A caller is bound to a session, and to one that takes its job, exactly while it
\* waits or runs, and a mutex is held by the caller that runs on it.
HolderRuns ==
    /\ \A c \in Callers : step[c] = "idle" <=> want[c] = NoSession
    /\ \A c \in Callers : step[c] # "idle" => Accepts(want[c].pool, job[c])
    /\ \A s \in Sessions, c \in Callers :
           lock[s] = c <=> step[c] = "running" /\ want[c] = s

Suits(j, s) == Accepts(s.pool, j)

Service == INSTANCE PoolService WITH state <- step, asked <- job, holder <- lock

\* Routing, cursor and mutexes implement the service: whatever a request asks for is
\* computed on a session of that model whose graph takes its number of rows, and on
\* that session alone.
RefinesService == Service!Spec
==============================================================================
