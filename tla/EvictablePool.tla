---------------------------- MODULE EvictablePool ----------------------------
(***************************************************************************)
(* The pool of ONNX sessions (src/src/evictable_pool.rs).  Inference threads *)
(* acquire a slot, run, and return it when the guard drops; a background     *)
(* loop drops sessions that have been idle for a while, and acquire builds   *)
(* them again outside the mutex.                                             *)
(*                                                                          *)
(* `busy` is an atomic that is also read without the slot's mutex, so a step *)
(* is either one such read or one whole critical section.  A panic aborts    *)
(* the process (panic = "abort" in Cargo.toml).                              *)
(***************************************************************************)
EXTENDS Naturals, FiniteSets

CONSTANTS Threads,    \* threads that run inferences
          NumSlots,   \* pool size; acquire scans slots 1, 2, ... in order
          IdleSecs,   \* EMBED_IDLE_EVICT_SECS, 0 disables eviction
          MaxTime     \* bound on the clock

ASSUME PoolAssumption == /\ IsFiniteSet(Threads)
                         /\ NumSlots \in Nat \ {0}
                         /\ IdleSecs \in Nat
                         /\ MaxTime \in Nat

Slots == 1..NumSlots

VARIABLES
    item,       \* the slot's Option<T> is Some
    busy,       \* the slot's flag
    last_used,  \* the slot's time stamp
    pc,         \* where each thread is in acquire
    at,         \* the slot each thread is looking at or holds
    started,    \* `now`, read once when acquire begins
    evictor,    \* where evict_idle is
    eslot,      \* the slot evict_idle is looking at
    enow,       \* `now` of evict_idle
    clock,      \* unix_now_secs
    alive       \* the process has not aborted

slotVars   == <<item, busy, last_used>>
threadVars == <<pc, at, started>>
evictVars  == <<evictor, eslot, enow>>
vars == <<slotVars, threadVars, evictVars, clock, alive>>

Init == /\ item      = [s \in Slots |-> TRUE]
        /\ busy      = [s \in Slots |-> FALSE]
        /\ last_used = [s \in Slots |-> 0]
        /\ pc        = [t \in Threads |-> "out"]
        /\ at        = [t \in Threads |-> 1]
        /\ started   = [t \in Threads |-> 0]
        /\ evictor   = "waiting"
        /\ eslot     = 1
        /\ enow      = 0
        /\ clock     = 0
        /\ alive     = TRUE

------------------------------------------------------------------------------
(* acquire and the guard's Drop.                                            *)

\* Fault: the scan starts at some hint and does not wrap around.
BeginAcquire_FromHint(t) == /\ pc[t] \in {"out", "all_busy", "reinit_failed"}
                            /\ pc'      = [pc EXCEPT ![t] = "scan"]
                            /\ \E s \in Slots : at' = [at EXCEPT ![t] = s]
                            /\ started' = [started EXCEPT ![t] = clock]
                            /\ UNCHANGED <<slotVars, evictVars, clock, alive>>

BeginAcquire(t) == /\ pc[t] \in {"out", "all_busy", "reinit_failed"}
                   /\ pc'      = [pc EXCEPT ![t] = "scan"]
                   /\ at'      = [at EXCEPT ![t] = 1]
                   /\ started' = [started EXCEPT ![t] = clock]
                   /\ UNCHANGED <<slotVars, evictVars, clock, alive>>

\* `continue`: the next slot, or AllBusy after the last one.
NextSlot(t) == /\ IF at[t] < NumSlots
                  THEN /\ pc' = [pc EXCEPT ![t] = "scan"]
                       /\ at' = [at EXCEPT ![t] = at[t] + 1]
                  ELSE /\ pc' = [pc EXCEPT ![t] = "all_busy"]
                       /\ UNCHANGED at
               /\ UNCHANGED <<started, slotVars>>

MoveTo(t, where) == pc' = [pc EXCEPT ![t] = where] /\ UNCHANGED <<at, started>>

\* The read of `busy` before any lock.
FastCheck(t) == /\ pc[t] = "scan"
                /\ \/ busy[at[t]] /\ NextSlot(t)
                   \/ ~busy[at[t]] /\ MoveTo(t, "peek") /\ UNCHANGED slotVars
                /\ UNCHANGED <<evictVars, clock, alive>>

\* First critical section: an empty slot is claimed at once, a full one only
\* seen to be full; the lock is released in both cases.
Peek(t) == /\ pc[t] = "peek"
           /\ \/ busy[at[t]] /\ NextSlot(t)
              \/ /\ ~busy[at[t]] /\ ~item[at[t]]
                 /\ busy' = [busy EXCEPT ![at[t]] = TRUE]
                 /\ MoveTo(t, "reinit")
                 /\ UNCHANGED <<item, last_used>>
              \/ /\ ~busy[at[t]] /\ item[at[t]]
                 /\ MoveTo(t, "claim")
                 /\ UNCHANGED slotVars
           /\ UNCHANGED <<evictVars, clock, alive>>

\* Fault: the second critical section does not look at `busy` again.
Claim_Unchecked(t) == /\ pc[t] = "claim"
                      /\ busy' = [busy EXCEPT ![at[t]] = TRUE]
                      /\ last_used' = [last_used EXCEPT ![at[t]] = started[t]]
                      /\ item' = [item EXCEPT ![at[t]] = FALSE]
                      /\ MoveTo(t, "hold")
                      /\ UNCHANGED <<evictVars, clock, alive>>

\* Second critical section: claim the full slot.  The item is taken with
\* expect, which panics when the slot has been emptied in between.
Claim(t) == /\ pc[t] = "claim"
            /\ \/ /\ busy[at[t]] /\ NextSlot(t)
                  /\ UNCHANGED alive
               \/ /\ ~busy[at[t]]
                  /\ busy' = [busy EXCEPT ![at[t]] = TRUE]
                  /\ last_used' = [last_used EXCEPT ![at[t]] = started[t]]
                  /\ item' = [item EXCEPT ![at[t]] = FALSE]
                  /\ MoveTo(t, IF item[at[t]] THEN "hold" ELSE "panicked")
                  /\ alive' = item[at[t]]
            /\ UNCHANGED <<evictVars, clock>>

\* The factory has built a session: it is stored and taken in one critical section.
ReinitDone(t) == /\ pc[t] = "reinit"
                 /\ last_used' = [last_used EXCEPT ![at[t]] = started[t]]
                 /\ MoveTo(t, "hold")
                 /\ UNCHANGED <<item, busy, evictVars, clock, alive>>

\* Fault: the flag is not cleared on the error path.
ReinitFails_StaysBusy(t) == /\ pc[t] = "reinit"
                            /\ MoveTo(t, "reinit_failed")
                            /\ UNCHANGED <<slotVars, evictVars, clock, alive>>

\* The factory has failed: the slot stays empty and can be tried again.
ReinitFails(t) == /\ pc[t] = "reinit"
                  /\ busy' = [busy EXCEPT ![at[t]] = FALSE]
                  /\ MoveTo(t, "reinit_failed")
                  /\ UNCHANGED <<item, last_used, evictVars, clock, alive>>

\* Drop of the guard: item, time stamp and flag in one critical section.
Release(t) == /\ pc[t] = "hold"
              /\ item'      = [item EXCEPT ![at[t]] = TRUE]
              /\ last_used' = [last_used EXCEPT ![at[t]] = clock]
              /\ busy'      = [busy EXCEPT ![at[t]] = FALSE]
              /\ MoveTo(t, "out")
              /\ UNCHANGED <<evictVars, clock, alive>>

------------------------------------------------------------------------------
(* evict_idle, called by the eviction loop.                                 *)

EvictBegins == /\ evictor = "waiting"
               /\ IdleSecs # 0
               /\ evictor' = "check"
               /\ eslot'   = 1
               /\ enow'    = clock
               /\ UNCHANGED <<slotVars, threadVars, clock, alive>>

EvictNextSlot == IF eslot < NumSlots
                 THEN evictor' = "check" /\ eslot' = eslot + 1
                 ELSE evictor' = "waiting" /\ eslot' = 1

\* The flag and then the time stamp are read before the lock.
EvictCheck == /\ evictor = "check"
              /\ \/ busy[eslot] /\ EvictNextSlot
                 \/ ~busy[eslot] /\ evictor' = "age" /\ UNCHANGED eslot
              /\ UNCHANGED <<enow, slotVars, threadVars, clock, alive>>

OldEnough(s) == enow >= last_used[s] + IdleSecs

EvictAge == /\ evictor = "age"
            /\ \/ OldEnough(eslot) /\ evictor' = "lock" /\ UNCHANGED eslot
               \/ ~OldEnough(eslot) /\ EvictNextSlot
            /\ UNCHANGED <<enow, slotVars, threadVars, clock, alive>>

\* Under the lock: a full slot that is not busy loses its session.
EvictLocked == /\ evictor = "lock"
               /\ item' = [item EXCEPT ![eslot] = @ /\ busy[eslot]]
               /\ EvictNextSlot
               /\ UNCHANGED <<busy, last_used, enow, threadVars, clock, alive>>

Tick == /\ clock < MaxTime
        /\ clock' = clock + 1
        /\ UNCHANGED <<slotVars, threadVars, evictVars, alive>>

------------------------------------------------------------------------------

ThreadStep(t) == \/ BeginAcquire(t)
                 \/ FastCheck(t)
                 \/ Peek(t)
                 \/ Claim(t)
                 \/ ReinitDone(t)
                 \/ ReinitFails(t)
                 \/ Release(t)

Next == alive /\ (\/ \E t \in Threads : ThreadStep(t)
                  \/ EvictBegins
                  \/ EvictCheck
                  \/ EvictAge
                  \/ EvictLocked
                  \/ Tick)

Spec == Init /\ [][Next]_vars

------------------------------------------------------------------------------
(* Properties.                                                              *)

PcStates == {"out", "scan", "peek", "claim", "reinit", "hold", "all_busy",
             "reinit_failed", "panicked"}

\* Every variable has its type.
TypeOK == /\ item \in [Slots -> BOOLEAN]
          /\ busy \in [Slots -> BOOLEAN]
          /\ last_used \in [Slots -> Nat]
          /\ pc \in [Threads -> PcStates]
          /\ at \in [Threads -> Slots]
          /\ started \in [Threads -> Nat]
          /\ evictor \in {"waiting", "check", "age", "lock"}
          /\ eslot \in Slots
          /\ enow \in Nat
          /\ clock \in Nat
          /\ alive \in BOOLEAN

\* The thread has marked the slot it is at as busy.
Owns(t) == pc[t] \in {"reinit", "hold", "panicked"}

\* A session is used by one thread at a time, and a cold start is done by one
\* thread: no two threads own the same slot.
OneOwner == \A t, u \in Threads : Owns(t) /\ Owns(u) /\ at[t] = at[u] => t = u

\* The state machine documented on EvictableSlot: a busy slot is empty and
\* has an owner, so that its flag will be cleared, and an owned slot is busy.
BusyIffOwned == \A s \in Slots : /\ busy[s] <=> \E t \in Threads : Owns(t) /\ at[t] = s
                                 /\ busy[s] => ~item[s]

\* acquire says of both its expects that they cannot fail.
NoPanic == \A t \in Threads : pc[t] # "panicked"

\* With no more threads than slots, which is what the worker's semaphore
\* ensures, acquire never answers AllBusy although it reads one slot after
\* the other and slots change hands during the scan.
EnoughSlots ==
    Cardinality(Threads) <= NumSlots => \A t \in Threads : pc[t] # "all_busy"

\* With eviction disabled the pool is pre-allocated for good: no acquire ever
\* finds an empty slot that is not in use.
NeverCold == IdleSecs = 0 => \A s \in Slots : item[s] \/ busy[s]

==============================================================================
