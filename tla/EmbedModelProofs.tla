-------------------------- MODULE EmbedModelProofs --------------------------
(***************************************************************************)
(* Proofs about the session pool (EvictablePool) and the inference that uses  *)
(* it (EmbedModel), for every number of threads and slots, every idle         *)
(* threshold and every set of requests.                                       *)
(***************************************************************************)
EXTENDS EmbedModel, ListLemmas, SequenceTheorems

USE DEF slotVars, threadVars, evictVars, vars, Slots, MoveTo

(* ---------------------------------------------------------------------- *)
(* Ownership of the slots.                                                 *)

IInv == TypeOK /\ OneOwner /\ BusyIffOwned

\* A new pool.
LEMMA InitIInv == Init => IInv
  BY PoolAssumption DEF Init, IInv, TypeOK, OneOwner, BusyIffOwned, Owns, PcStates

\* A thread that goes on to the next slot, or gives up, changes nothing else.
LEMMA NextSlotIInv ==
  ASSUME IInv, NEW t \in Threads, ~Owns(t), NextSlot(t),
         UNCHANGED <<evictVars, clock>>, alive' \in BOOLEAN
  PROVE  IInv'
<1>1. TypeOK'
  <2>1. pc' \in [Threads -> PcStates] /\ at' \in [Threads -> Slots]
    <3>1. CASE at[t] < NumSlots
      <4>1. at[t] \in Slots /\ at[t] + 1 \in Slots
        BY <3>1, PoolAssumption DEF IInv, TypeOK
      <4>2. /\ pc' = [pc EXCEPT ![t] = "scan"]
            /\ at' = [at EXCEPT ![t] = at[t] + 1]
        BY <3>1 DEF NextSlot
      <4> QED
        BY <4>1, <4>2 DEF IInv, TypeOK, PcStates
    <3>2. CASE ~(at[t] < NumSlots)
      BY <3>2 DEF IInv, TypeOK, NextSlot, PcStates
    <3> QED
      BY <3>1, <3>2
  <2> QED
    BY <2>1 DEF IInv, TypeOK, NextSlot
<1>2. \A u \in Threads : (Owns(u)' <=> Owns(u)) /\ (Owns(u) => at'[u] = at[u])
  BY DEF IInv, TypeOK, NextSlot, Owns
<1> QED
  BY <1>1, <1>2 DEF IInv, OneOwner, BusyIffOwned, NextSlot

\* A step that leaves slots and threads alone keeps the ownership.
LEMMA OthersIInv ==
  ASSUME IInv, UNCHANGED <<busy, last_used, threadVars>>, TypeOK',
         \A s \in Slots : item'[s] => item[s]
  PROVE  IInv'
  BY DEF IInv, OneOwner, BusyIffOwned, Owns

\* The invariant of the pool is inductive.
LEMMA NextIInv == IInv /\ [Next]_vars => IInv'
<1> SUFFICES ASSUME IInv, [Next]_vars PROVE IInv'
  OBVIOUS
<1>1. ASSUME NEW t \in Threads, BeginAcquire(t) PROVE IInv'
  <2>1. TypeOK'
    BY <1>1, PoolAssumption DEF IInv, TypeOK, BeginAcquire, PcStates
  <2>2. \A u \in Threads : (Owns(u)' <=> Owns(u)) /\ (Owns(u) => at'[u] = at[u])
    BY <1>1 DEF IInv, TypeOK, BeginAcquire, Owns
  <2> QED
    BY <1>1, <2>1, <2>2 DEF IInv, OneOwner, BusyIffOwned, BeginAcquire
<1>2. ASSUME NEW t \in Threads, FastCheck(t) PROVE IInv'
  <2>1. CASE busy[at[t]]
    BY <1>2, <2>1, NextSlotIInv DEF FastCheck, Owns, IInv, TypeOK
  <2>2. CASE ~busy[at[t]]
    <3>1. TypeOK'
      BY <1>2, <2>2 DEF IInv, TypeOK, FastCheck, PcStates
    <3>2. \A u \in Threads : Owns(u)' <=> Owns(u)
      BY <1>2, <2>2 DEF IInv, TypeOK, FastCheck, Owns
    <3> QED
      BY <1>2, <2>2, <3>1, <3>2 DEF IInv, OneOwner, BusyIffOwned, FastCheck
  <2> QED
    BY <2>1, <2>2
<1>3. ASSUME NEW t \in Threads, Peek(t) PROVE IInv'
  <2>1. CASE busy[at[t]]
    BY <1>3, <2>1, NextSlotIInv DEF Peek, Owns, IInv, TypeOK
  <2>2. CASE ~busy[at[t]] /\ ~item[at[t]]
    <3>1. TypeOK'
      BY <1>3, <2>2 DEF IInv, TypeOK, Peek, PcStates
    <3>2. \A u \in Threads : Owns(u)' <=> Owns(u) \/ u = t
      BY <1>3, <2>2 DEF IInv, TypeOK, Peek, Owns
    <3>3. \A u \in Threads : Owns(u) => at[u] # at[t]
      BY <2>2 DEF IInv, TypeOK, BusyIffOwned
    <3>4. at' = at /\ item' = item /\ busy' = [busy EXCEPT ![at[t]] = TRUE]
      BY <1>3, <2>2 DEF Peek
    <3>5. OneOwner'
      BY <3>2, <3>3, <3>4 DEF IInv, OneOwner
    <3>6. BusyIffOwned'
      BY <2>2, <3>2, <3>4 DEF IInv, TypeOK, BusyIffOwned
    <3> QED
      BY <3>1, <3>5, <3>6 DEF IInv
  <2>3. CASE ~busy[at[t]] /\ item[at[t]]
    <3>1. TypeOK'
      BY <1>3, <2>3 DEF IInv, TypeOK, Peek, PcStates
    <3>2. \A u \in Threads : Owns(u)' <=> Owns(u)
      BY <1>3, <2>3 DEF IInv, TypeOK, Peek, Owns
    <3> QED
      BY <1>3, <2>3, <3>1, <3>2 DEF IInv, OneOwner, BusyIffOwned, Peek
  <2> QED
    BY <2>1, <2>2, <2>3
<1>4. ASSUME NEW t \in Threads, Claim(t) PROVE IInv'
  <2>1. CASE busy[at[t]]
    BY <1>4, <2>1, NextSlotIInv DEF Claim, Owns, IInv, TypeOK
  <2>2. CASE ~busy[at[t]]
    <3>1. TypeOK'
      BY <1>4, <2>2 DEF IInv, TypeOK, Claim, PcStates
    <3>2. \A u \in Threads : Owns(u)' <=> Owns(u) \/ u = t
      BY <1>4, <2>2 DEF IInv, TypeOK, Claim, Owns
    <3>3. \A u \in Threads : Owns(u) => at[u] # at[t]
      BY <2>2 DEF IInv, TypeOK, BusyIffOwned
    <3>4. /\ at' = at
          /\ item' = [item EXCEPT ![at[t]] = FALSE]
          /\ busy' = [busy EXCEPT ![at[t]] = TRUE]
      BY <1>4, <2>2 DEF Claim
    <3>5. OneOwner'
      BY <3>2, <3>3, <3>4 DEF IInv, OneOwner
    <3>6. BusyIffOwned'
      BY <3>2, <3>4 DEF IInv, TypeOK, BusyIffOwned
    <3> QED
      BY <3>1, <3>5, <3>6 DEF IInv
  <2> QED
    BY <2>1, <2>2
<1>5. ASSUME NEW t \in Threads, ReinitDone(t) PROVE IInv'
  <2>1. TypeOK'
    BY <1>5 DEF IInv, TypeOK, ReinitDone, PcStates
  <2>2. \A u \in Threads : Owns(u)' <=> Owns(u)
    BY <1>5 DEF IInv, TypeOK, ReinitDone, Owns
  <2> QED
    BY <1>5, <2>1, <2>2 DEF IInv, OneOwner, BusyIffOwned, ReinitDone
<1>6. ASSUME NEW t \in Threads, ReinitFails(t) \/ Release(t) PROVE IInv'
  <2>1. TypeOK'
    <3>1. CASE ReinitFails(t)
      BY <3>1 DEF IInv, TypeOK, ReinitFails, PcStates, MoveTo
    <3>2. CASE Release(t)
      BY <3>2 DEF IInv, TypeOK, Release, PcStates, MoveTo
    <3> QED
      BY <1>6, <3>1, <3>2
  <2>2. /\ Owns(t)
        /\ \A u \in Threads : Owns(u)' <=> Owns(u) /\ u # t
    BY <1>6 DEF IInv, TypeOK, ReinitFails, Release, Owns
  <2>3. /\ at' = at
        /\ busy' = [busy EXCEPT ![at[t]] = FALSE]
        /\ \A s \in Slots : s # at[t] => item'[s] = item[s]
    BY <1>6 DEF IInv, TypeOK, ReinitFails, Release
  <2>4. OneOwner'
    BY <2>2, <2>3 DEF IInv, OneOwner
  <2>5. BusyIffOwned'
    BY <2>2, <2>3 DEF IInv, TypeOK, OneOwner, BusyIffOwned
  <2> QED
    BY <2>1, <2>4, <2>5 DEF IInv
<1>7. CASE EvictBegins
  <2>1. TypeOK'
    BY <1>7, PoolAssumption DEF IInv, TypeOK, EvictBegins
  <2> QED
    BY <1>7, <2>1, OthersIInv DEF EvictBegins
<1>8. CASE EvictCheck \/ EvictAge
  <2>1. TypeOK'
    BY <1>8, PoolAssumption DEF IInv, TypeOK, EvictCheck, EvictAge, EvictNextSlot
  <2> QED
    BY <1>8, <2>1, OthersIInv DEF EvictCheck, EvictAge
<1>9. CASE EvictLocked
  <2>1. TypeOK'
    <3>1. item' \in [Slots -> BOOLEAN]
      BY <1>9 DEF IInv, TypeOK, EvictLocked
    <3>2. eslot' \in Slots /\ evictor' \in {"waiting", "check", "age", "lock"}
      BY <1>9, PoolAssumption DEF IInv, TypeOK, EvictLocked, EvictNextSlot
    <3> QED
      BY <1>9, <3>1, <3>2 DEF IInv, TypeOK, EvictLocked
  <2>2. \A s \in Slots : item'[s] => item[s]
    BY <1>9 DEF IInv, TypeOK, EvictLocked
  <2> QED
    BY <1>9, <2>1, <2>2, OthersIInv DEF EvictLocked
<1>10. CASE Tick
  <2>1. TypeOK'
    BY <1>10 DEF IInv, TypeOK, Tick
  <2> QED
    BY <1>10, <2>1, OthersIInv DEF Tick
<1>11. CASE UNCHANGED vars
  BY <1>11 DEF IInv, TypeOK, OneOwner, BusyIffOwned, Owns
<1> QED
  BY <1>1, <1>2, <1>3, <1>4, <1>5, <1>6, <1>7, <1>8, <1>9, <1>10, <1>11
     DEF Next, ThreadStep

\* It holds in every reachable state.
LEMMA Ownership == Spec => []IInv
  BY InitIInv, NextIInv, PTL DEF Spec

\* The pool's state has its type for every number of threads and slots.
THEOREM TypeCorrect == Spec => []TypeOK
<1>1. IInv => TypeOK
  BY DEF IInv
<1> QED
  BY <1>1, Ownership, PTL

\* acquire never gives the same session, or the same cold start, to two
\* threads, whatever the eviction loop does.
THEOREM SingleOwner == Spec => []OneOwner
<1>1. IInv => OneOwner
  BY DEF IInv
<1> QED
  BY <1>1, Ownership, PTL

\* The documented state machine of EvictableSlot: a slot is busy exactly while
\* a thread owns it, and then it is empty.
THEOREM BusyMeansOwned == Spec => []BusyIffOwned
<1>1. IInv => BusyIffOwned
  BY DEF IInv
<1> QED
  BY <1>1, Ownership, PTL

(* ---------------------------------------------------------------------- *)
(* The scan finds a slot.                                                  *)

\* Threads in acquire or holding a guard that have got as far as slot k.
Beyond(k) == {t \in Threads : /\ pc[t] \notin {"out", "all_busy", "reinit_failed"}
                              /\ at[t] >= k}

\* The part of the pool from slot k on never has more threads than slots: a
\* thread goes past slot k - 1 only when another one owns that slot.
ScanBound == Cardinality(Threads) <= NumSlots =>
                /\ \A k \in Slots : Cardinality(Beyond(k)) <= NumSlots + 1 - k
                /\ \A t \in Threads : pc[t] # "all_busy"

\* The threads beyond a slot are finitely many.
LEMMA BeyondFinite ==
  ASSUME NEW k \in Slots
  PROVE  /\ IsFiniteSet(Beyond(k)) /\ IsFiniteSet(Beyond(k)')
         /\ Cardinality(Beyond(k)) \in Nat /\ Cardinality(Beyond(k)') \in Nat
         /\ Cardinality(Beyond(k)) <= Cardinality(Threads)
         /\ Cardinality(Beyond(k)') <= Cardinality(Threads)
         /\ Cardinality(Threads) \in Nat
<1>1. Beyond(k) \subseteq Threads /\ Beyond(k)' \subseteq Threads
  BY DEF Beyond
<1> HIDE DEF Beyond
<1> QED
  BY <1>1, PoolAssumption, FS_Subset, FS_CardinalityType

\* Fewer threads beyond a slot keep the bound.
LEMMA ShrinkScanBound ==
  ASSUME ScanBound, \A k \in Slots : k # 1 => Beyond(k)' \subseteq Beyond(k),
         \A t \in Threads : pc'[t] = "all_busy" => pc[t] = "all_busy"
  PROVE  ScanBound'
<1> SUFFICES ASSUME Cardinality(Threads) <= NumSlots, NEW k \in Slots
             PROVE  Cardinality(Beyond(k)') <= NumSlots + 1 - k
  BY DEF ScanBound
<1>1. CASE k = 1
  BY <1>1, BeyondFinite, PoolAssumption
<1>2. CASE k # 1
  <2>1. Cardinality(Beyond(k)') <= Cardinality(Beyond(k))
    <3> HIDE DEF Beyond
    <3> QED
      BY <1>2, BeyondFinite, FS_Subset
  <2>2. Cardinality(Beyond(k)) <= NumSlots + 1 - k
    BY DEF ScanBound
  <2> QED
    BY <2>1, <2>2, BeyondFinite, PoolAssumption
<1> QED
  BY <1>1, <1>2

\* Going on from a slot that another thread owns keeps the bound.
LEMMA NextSlotScanBound ==
  ASSUME IInv, ScanBound, NEW t \in Threads, NextSlot(t), busy[at[t]],
         pc[t] \in {"scan", "peek", "claim"}
  PROVE  ScanBound'
<1> SUFFICES ASSUME Cardinality(Threads) <= NumSlots PROVE ScanBound'
  BY DEF ScanBound
<1>1. PICK j \in Slots : j = at[t]
  BY DEF IInv, TypeOK
<1>0. j \in Slots /\ NumSlots \in Nat
  BY PoolAssumption
<1>2. PICK u \in Threads : Owns(u) /\ at[u] = j
  BY <1>0, <1>1 DEF IInv, BusyIffOwned
<1>3. u # t /\ u \in Beyond(j) /\ t \in Beyond(j) /\ u \notin Beyond(j + 1)
  BY <1>0, <1>1, <1>2 DEF Owns, Beyond
<1>4. Cardinality(Beyond(j)) <= NumSlots + 1 - j
  BY <1>0, <1>1 DEF ScanBound
<1>5. CASE j < NumSlots
  <2>1. j + 1 \in Slots
    BY <1>0, <1>1, <1>5
  <2>2. /\ pc' = [pc EXCEPT ![t] = "scan"]
        /\ at' = [at EXCEPT ![t] = j + 1]
    BY <1>1, <1>5 DEF NextSlot
  <2>3. ASSUME NEW k \in Slots, k # j + 1 PROVE Beyond(k)' = Beyond(k)
    <3>1. j >= k <=> j + 1 >= k
      BY <1>0, <2>3
    <3>2. at'[t] = j + 1 /\ pc'[t] = "scan"
      BY <2>2 DEF IInv, TypeOK
    <3>3. \A v \in Threads : v # t => at'[v] = at[v] /\ pc'[v] = pc[v]
      BY <2>2 DEF IInv, TypeOK
    <3> QED
      BY <1>1, <3>1, <3>2, <3>3 DEF Beyond
  <2>4. Beyond(j + 1)' \subseteq Beyond(j) \ {u}
    BY <1>0, <1>1, <1>2, <1>3, <2>1, <2>2 DEF Beyond, IInv, TypeOK
  <2>5. Cardinality(Beyond(j + 1)') <= Cardinality(Beyond(j)) - 1
    <3> HIDE DEF Beyond
    <3>1. IsFiniteSet(Beyond(j)) /\ IsFiniteSet(Beyond(j) \ {u})
      BY <1>0, <1>1, BeyondFinite, FS_RemoveElement
    <3>2. Cardinality(Beyond(j) \ {u}) = Cardinality(Beyond(j)) - 1
      BY <1>0, <1>1, <1>3, BeyondFinite, FS_RemoveElement
    <3> QED
      BY <2>4, <3>1, <3>2, FS_Subset
  <2>6. \A k \in Slots : Cardinality(Beyond(k)') <= NumSlots + 1 - k
    <3> TAKE k \in Slots
    <3>1. CASE k = j + 1
      <4> HIDE DEF Beyond
      <4>1. Cardinality(Beyond(j)) \in Nat /\ Cardinality(Beyond(j + 1)') \in Nat
        BY <1>0, <1>1, <2>1, BeyondFinite
      <4> QED
        BY <1>0, <1>1, <1>4, <2>5, <3>1, <4>1
    <3>2. CASE k # j + 1
      BY <2>3, <3>2 DEF ScanBound
    <3> QED
      BY <3>1, <3>2
  <2>7. \A v \in Threads : pc'[v] # "all_busy"
    BY <2>2 DEF ScanBound, IInv, TypeOK
  <2> QED
    BY <2>6, <2>7 DEF ScanBound
<1>6. CASE ~(j < NumSlots)
  <2>1. j = NumSlots
    BY <1>0, <1>1, <1>6
  <2>2. {t, u} \subseteq Beyond(j)
    BY <1>3
  <2>3. Cardinality({t, u}) = 2
    <3>1. {t, u} = {t} \cup {u}
      OBVIOUS
    <3>2. Cardinality({t}) = 1 /\ IsFiniteSet({t})
      BY FS_Singleton
    <3>3. u \notin {t}
      BY <1>3
    <3> HIDE DEF Beyond
    <3>4. Cardinality({t} \cup {u}) = Cardinality({t}) + 1
      BY <3>2, <3>3, FS_AddElement, Zenon
    <3> QED
      BY <3>1, <3>2, <3>4
  <2>4. Cardinality({t, u}) <= Cardinality(Beyond(j))
    <3> HIDE DEF Beyond
    <3> QED
      BY <1>0, <1>1, <2>2, BeyondFinite, FS_Subset
  <2> QED
    BY <1>0, <1>1, <1>4, <2>1, <2>3, <2>4, BeyondFinite
<1> QED
  BY <1>5, <1>6

\* Nobody has passed a slot of a new pool.
LEMMA InitScanBound == Init => ScanBound
<1> SUFFICES ASSUME Init, NEW k \in Slots PROVE Cardinality(Beyond(k)) <= NumSlots + 1 - k
  BY DEF Init, ScanBound
<1>1. Beyond(k) = {}
  BY DEF Init, Beyond
<1> QED
  BY <1>1, FS_EmptySet, PoolAssumption

\* A thread passes a slot only when another one owns it.
LEMMA NextScanBound == IInv /\ ScanBound /\ [Next]_vars => ScanBound'
<1> SUFFICES ASSUME IInv, ScanBound, [Next]_vars PROVE ScanBound'
  OBVIOUS
<1>1. ASSUME NEW t \in Threads, BeginAcquire(t) PROVE ScanBound'
  <2>1. \A k \in Slots : k # 1 => Beyond(k)' \subseteq Beyond(k)
    BY <1>1 DEF BeginAcquire, Beyond, IInv, TypeOK
  <2>2. \A u \in Threads : pc'[u] = "all_busy" => pc[u] = "all_busy"
    BY <1>1 DEF BeginAcquire, IInv, TypeOK
  <2> QED
    BY <2>1, <2>2, ShrinkScanBound
<1>2. ASSUME NEW t \in Threads, FastCheck(t) \/ Peek(t) \/ Claim(t), busy[at[t]]
      PROVE  ScanBound'
  BY <1>2, NextSlotScanBound DEF FastCheck, Peek, Claim
<1>3. ASSUME NEW t \in Threads, NEW where \in {"peek", "claim", "reinit", "hold",
                                              "panicked", "reinit_failed", "out"},
             pc[t] \notin {"out", "all_busy", "reinit_failed"}, MoveTo(t, where)
      PROVE  ScanBound'
  <2>1. \A k \in Slots : Beyond(k)' \subseteq Beyond(k)
    BY <1>3 DEF Beyond, IInv, TypeOK
  <2>2. \A u \in Threads : pc'[u] = "all_busy" => pc[u] = "all_busy"
    BY <1>3 DEF IInv, TypeOK
  <2> QED
    BY <2>1, <2>2, ShrinkScanBound
<1>4. ASSUME NEW t \in Threads, FastCheck(t) \/ Peek(t) \/ Claim(t), ~busy[at[t]]
      PROVE  ScanBound'
  <2> HIDE DEF MoveTo
  <2> QED
    BY <1>3, <1>4 DEF FastCheck, Peek, Claim
<1>5. ASSUME NEW t \in Threads, ReinitDone(t) \/ ReinitFails(t) \/ Release(t)
      PROVE  ScanBound'
  <2> HIDE DEF MoveTo
  <2> QED
    BY <1>3, <1>5 DEF ReinitDone, ReinitFails, Release
<1>6. CASE UNCHANGED <<pc, at>>
  BY <1>6 DEF ScanBound, Beyond
<1> QED
  BY <1>1, <1>2, <1>4, <1>5, <1>6
     DEF Next, ThreadStep, EvictBegins, EvictCheck, EvictAge, EvictLocked, Tick

\* Whatever the number of slots, as many threads always find one: acquire
\* does not answer AllBusy although its scan is not atomic.
THEOREM ScanSucceeds == Spec => []EnoughSlots
<1>1. ScanBound => EnoughSlots
  BY DEF ScanBound, EnoughSlots
<1> QED
  BY <1>1, InitIInv, NextIInv, InitScanBound, NextScanBound, PTL DEF Spec

(* ---------------------------------------------------------------------- *)
(* Without eviction.                                                       *)

Disabled == IdleSecs = 0 => /\ evictor = "waiting"
                            /\ \A s \in Slots : item[s] \/ busy[s]
                            /\ \A t \in Threads : pc[t] \notin {"reinit", "panicked"}

\* The eviction loop has not run at first.
LEMMA InitDisabled == Init => Disabled
  BY DEF Init, Disabled

\* With eviction disabled it never takes a session.
LEMMA NextDisabled == IInv /\ Disabled /\ [Next]_vars => Disabled'
<1> SUFFICES ASSUME IInv, Disabled, [Next]_vars, IdleSecs = 0 PROVE Disabled'
  BY DEF Disabled
<1>1. ASSUME NEW t \in Threads, BeginAcquire(t) \/ FastCheck(t) PROVE Disabled'
  <2>1. UNCHANGED <<item, busy, evictor>>
    BY <1>1 DEF BeginAcquire, FastCheck, NextSlot
  <2>2. \A u \in Threads : pc'[u] \notin {"reinit", "panicked"}
    BY <1>1 DEF BeginAcquire, FastCheck, NextSlot, Disabled, IInv, TypeOK
  <2> QED
    BY <2>1, <2>2 DEF Disabled
<1>7. ASSUME NEW t \in Threads, Peek(t) PROVE Disabled'
  <2>1. busy[at[t]] \/ item[at[t]]
    BY DEF Disabled, IInv, TypeOK
  <2>2. UNCHANGED <<item, busy, evictor>>
    BY <1>7, <2>1 DEF Peek, NextSlot
  <2>3. \A u \in Threads : pc'[u] \notin {"reinit", "panicked"}
    BY <1>7, <2>1 DEF Peek, NextSlot, Disabled, IInv, TypeOK
  <2> QED
    BY <2>2, <2>3 DEF Disabled
<1>2. ASSUME NEW t \in Threads, Claim(t) PROVE Disabled'
  <2>1. CASE busy[at[t]]
    BY <1>2, <2>1 DEF Claim, NextSlot, Disabled, IInv, TypeOK
  <2>2. CASE ~busy[at[t]]
    <3>1. item[at[t]]
      BY <2>2 DEF Disabled, IInv, TypeOK
    <3>2. \A s \in Slots : item'[s] \/ busy'[s]
      BY <1>2, <2>2 DEF Claim, Disabled, IInv, TypeOK
    <3>3. \A u \in Threads : pc'[u] \notin {"reinit", "panicked"}
      BY <1>2, <2>2, <3>1 DEF Claim, Disabled, IInv, TypeOK
    <3> QED
      BY <1>2, <3>2, <3>3 DEF Claim, Disabled
  <2> QED
    BY <2>1, <2>2
<1>3. ASSUME NEW t \in Threads, ReinitDone(t) \/ ReinitFails(t) PROVE Disabled'
  BY <1>3 DEF ReinitDone, ReinitFails, Disabled
<1>4. ASSUME NEW t \in Threads, Release(t) PROVE Disabled'
  BY <1>4 DEF Release, Disabled, IInv, TypeOK
<1>5. CASE EvictBegins \/ EvictCheck \/ EvictAge \/ EvictLocked
  BY <1>5 DEF EvictBegins, EvictCheck, EvictAge, EvictLocked, Disabled
<1>6. CASE Tick \/ UNCHANGED vars
  BY <1>6 DEF Tick, Disabled
<1> QED
  BY <1>1, <1>2, <1>3, <1>4, <1>5, <1>6, <1>7 DEF Next, ThreadStep

\* With EMBED_IDLE_EVICT_SECS = 0 the expect of acquire cannot fail.
THEOREM SafeWithoutEviction == IdleSecs = 0 => (Spec => []NoPanic)
<1> SUFFICES ASSUME IdleSecs = 0 PROVE Spec => []NoPanic
  OBVIOUS
<1>1. Disabled => NoPanic
  BY DEF Disabled, NoPanic
<1> QED
  BY <1>1, InitIInv, NextIInv, InitDisabled, NextDisabled, PTL DEF Spec

\* With EMBED_IDLE_EVICT_SECS = 0 no acquire pays for a cold start.
THEOREM AlwaysWarm == Spec => []NeverCold
<1>1. Disabled => NeverCold
  BY DEF Disabled, NeverCold
<1> QED
  BY <1>1, InitIInv, NextIInv, InitDisabled, NextDisabled, PTL DEF Spec

------------------------------------------------------------------------------
(* What embed_tokens does to the session pool is a behaviour of the pool, so *)
(* the pool's theorems hold of it.                                          *)

\* Every step of a request is a step of the pool's thread or leaves the pool
\* alone: embed_tokens_one_pass touches the pool through acquire and the drop
\* of the guard only.
LEMMA StepOfPool == [EmbedNext]_embedVars => [Next]_vars
<1>1. ASSUME EmbedNext PROVE [Next]_vars
  <2>1. CASE \E t \in Threads : \/ \E batch \in Batches : Tokenize(t, batch)
                                \/ TokenizeFails(t)
    BY <2>1 DEF Tokenize, TokenizeFails
  <2>2. ASSUME NEW t \in Threads,
               BeginPass(t) \/ Acquiring(t) \/ EndPass(t) \/ PassFails(t)
        PROVE  Next
    BY <1>1, <2>2 DEF BeginPass, Acquiring, EndPass, PassFails, EmbedNext, Next, ThreadStep
  <2>3. CASE Background
    BY <1>1, <2>3 DEF Background, EmbedNext, Next
  <2> QED  BY <1>1, <2>1, <2>2, <2>3 DEF EmbedNext
<1>2. CASE UNCHANGED embedVars
  BY <1>2 DEF embedVars
<1> QED  BY <1>1, <1>2

\* The inference code implements the pool's specification.
THEOREM UsesPool == EmbedSpec => Spec
<1>1. EmbedInit => Init
  BY DEF EmbedInit
<1> QED  BY <1>1, StepOfPool, PTL DEF EmbedSpec, Spec

\* Requests that run several passes each never share a session, leave no slot
\* busy behind them on any of their error paths, and are never turned away
\* while there are no more of them than slots.
THEOREM PassesShareNothing == EmbedSpec => [](OneOwner /\ BusyIffOwned /\ EnoughSlots)
BY UsesPool, SingleOwner, BusyMeansOwned, ScanSucceeds, PTL

------------------------------------------------------------------------------
(* The plan of a request: its groups, longest first, are the fewest that    *)
(* keep within the ratio.                                                   *)

\* next_power_of_two ends at or above its argument.
LEMMA NextPower ==
    ASSUME NEW n \in Nat
    PROVE  next_power_of_two(n) \in Nat /\ next_power_of_two(n) >= n
<1> DEFINE S == Nat
           one == 1
           step == [p \in Nat \X S |-> IF p[2] < n THEN 2 * p[2] ELSE p[2]]
           power[k \in 0..n] == IF k = 0 THEN 1
                                ELSE IF power[k - 1] < n THEN 2 * power[k - 1] ELSE power[k - 1]
<1>0. next_power_of_two(n) = power[n]
  BY DEF next_power_of_two
<1>1. one \in S /\ step \in [Nat \X S -> S]
  OBVIOUS
<1>2. \A k \in Nat, x \in Nat : step[<<k, x>>] = IF x < n THEN 2 * x ELSE x
  OBVIOUS
<1>3. PICK g : Run(g, n, S, one, step)
  <2> HIDE DEF S, one, step
  <2> QED
    BY <1>1, Iterates
<1> HIDE DEF step
<1>4. ASSUME NEW k \in 1..n
      PROVE  g[k - 1] \in Nat /\ g[k] = IF g[k - 1] < n THEN 2 * g[k - 1] ELSE g[k - 1]
  <2>1. k - 1 \in 0..n /\ k \in Nat
    OBVIOUS
  <2> QED
    BY <2>1, <1>2, <1>3 DEF Run
<1>5. g = [k \in 0..n |-> IF k = 0 THEN 1
                         ELSE IF g[k - 1] < n THEN 2 * g[k - 1] ELSE g[k - 1]]
  <2>1. ASSUME NEW k \in 0..n
        PROVE  g[k] = IF k = 0 THEN 1 ELSE IF g[k - 1] < n THEN 2 * g[k - 1] ELSE g[k - 1]
    <3>1. k # 0 => k \in 1..n
      OBVIOUS
    <3> QED
      BY <1>3, <1>4, <3>1 DEF Run
  <2> QED
    BY <2>1, <1>3 DEF Run
<1>6. power = [k \in 0..n |-> IF k = 0 THEN 1
                             ELSE IF power[k - 1] < n THEN 2 * power[k - 1] ELSE power[k - 1]]
  BY <1>5
<1> HIDE DEF power
<1> DEFINE P == {k \in 0..n : power[k] \in Nat /\ (power[k] >= n \/ power[k] > k)}
<1>7. 0 \in P
  BY <1>6
<1>8. ASSUME NEW k \in 1..n, k - 1 \in P PROVE k \in P
  <2>1. power[k] = IF power[k - 1] < n THEN 2 * power[k - 1] ELSE power[k - 1]
    BY <1>6
  <2> DEFINE x == power[k - 1]
  <2>2. x \in Nat /\ (x >= n \/ x > k - 1)
    BY <1>8
  <2> HIDE DEF x
  <2>3. CASE x < n
    <3>1. power[k] = 2 * x
      BY <2>1, <2>3 DEF x
    <3>2. x >= k /\ x >= 1
      BY <2>2, <2>3
    <3>3. 2 * x \in Nat /\ 2 * x > k
      BY <2>2, <3>2
    <3> QED
      BY <3>1, <3>3
  <2>4. CASE ~(x < n)
    BY <2>1, <2>2, <2>4 DEF x
  <2> QED
    BY <2>3, <2>4
<1>9. 0..n \subseteq P
  <2> HIDE DEF P
  <2> QED
    BY <1>7, <1>8, UpTo
<1>10. n \in P
  BY <1>9
<1> QED
  BY <1>0, <1>10

\* A bounded set of naturals has a largest element.
LEMMA Largest ==
    ASSUME NEW S, S \subseteq Nat, S # {}, NEW b \in Nat, \A y \in S : y <= b
    PROVE  Max(S) \in S /\ \A y \in S : y <= Max(S)
<1> DEFINE T == {m \in Nat : \A y \in S : y <= m}
<1>1. b \in T /\ T \subseteq Nat /\ T # {}
  OBVIOUS
<1>2. PICK m \in T : \A u \in T : m <= u
  BY <1>1, Least
<1>3. m \in S
  <2> SUFFICES ASSUME m \notin S PROVE FALSE
    OBVIOUS
  <2>1. PICK z \in S : TRUE
    OBVIOUS
  <2>2. m \in Nat /\ \A y \in S : y \in Nat /\ y <= m /\ y # m
    OBVIOUS
  <2>3. m - 1 \in Nat /\ \A y \in S : y <= m - 1
    BY <2>1, <2>2
  <2>4. m - 1 \in T /\ ~(m <= m - 1)
    BY <2>2, <2>3
  <2> QED
    BY <1>2, <2>4
<1>4. m \in S /\ \A y \in S : m >= y
  BY <1>3
<1>5. Max(S) \in S /\ \A y \in S : Max(S) >= y
  BY <1>4 DEF Max
<1> QED
  BY <1>5

\* Multiplication keeps the order.
LEMMA Times ==
    ASSUME NEW a \in Nat, NEW b \in Nat, NEW c \in Nat, a <= b
    PROVE  a * c <= b * c /\ c * a <= c * b
OBVIOUS

\* Places are texts, the earlier ones at least as long.
LEMMA Places ==
    ASSUME NEW ls \in Seq(Nat)
    PROVE  /\ \A k \in 1..Len(ls) : At(ls, k) \in 1..Len(ls)
           /\ \A k, l \in 1..Len(ls) : k < l => ls[At(ls, l)] <= ls[At(ls, k)]
           /\ \A j \in 1..Len(ls) : \E k \in 1..Len(ls) : j = At(ls, k)
           /\ \A k \in 1..Len(ls) : Descending(ls)[k] = At(ls, k)
<1> DEFINE n == Len(ls)
<1>1. n \in Nat /\ ls \in [1..n -> Int] /\ \A i \in 1..n : ls[i] \in Nat
  OBVIOUS
<1> HIDE DEF n
<1>2. /\ \A k \in 1..n : At(ls, k) \in 1..n
      /\ \A k, l \in 1..n : k < l => Before(ls, At(ls, k), At(ls, l))
      /\ \A j \in 1..n : \E k \in 1..n : j = At(ls, k)
  BY <1>1, SortedPlaces
<1>3. ASSUME NEW k \in 1..n, NEW l \in 1..n, k < l PROVE ls[At(ls, l)] <= ls[At(ls, k)]
  <2> DEFINE a == At(ls, k)
             b == At(ls, l)
  <2>1. ls[a] \in Nat /\ ls[b] \in Nat /\ Before(ls, a, b)
    BY <1>1, <1>2, <1>3
  <2> HIDE DEF a, b
  <2>2. ls[b] <= ls[a]
    BY <2>1 DEF Before
  <2> QED
    BY <2>2 DEF a, b
<1> QED
  BY <1>2, <1>3 DEF n, At

\* A text joins the group in the making, or opens the next one.
Joined(new, gs, i) == /\ Len(new) = Len(gs)
                      /\ new[Len(gs)] = Append(gs[Len(gs)], i)
                      /\ \A m \in 1..(Len(gs) - 1) : new[m] = gs[m]
Opened(new, gs, i) == /\ Len(new) = Len(gs) + 1
                      /\ new[Len(gs) + 1] = <<i>>
                      /\ \A m \in 1..Len(gs) : new[m] = gs[m]

\* Place when the ratio lets the text into the last group.
LEMMA PlaceJoins ==
    ASSUME NEW D, NEW ls, NEW gs \in Seq(Seq(D)), NEW i \in D, gs # <<>>,
           InBand(Length(ls, Head(gs[Len(gs)])), Length(ls, i))
    PROVE  Place(ls, gs, i) \in Seq(Seq(D)) /\ Joined(Place(ls, gs, i), gs, i)
<1> DEFINE l == Len(gs)
<1>1. l \in Nat /\ l \in 1..l /\ gs[l] \in Seq(D)
  OBVIOUS
<1>2. Append(gs[l], i) \in Seq(D)
  BY <1>1
<1>3. Place(ls, gs, i) = [gs EXCEPT ![l] = Append(gs[l], i)]
  BY DEF Place, Last
<1> QED
  BY <1>1, <1>2, <1>3 DEF Joined

\* Place when it does not, or there is no group yet.
LEMMA PlaceOpens ==
    ASSUME NEW D, NEW ls, NEW gs \in Seq(Seq(D)), NEW i \in D,
           ~(gs # <<>> /\ InBand(Length(ls, Head(gs[Len(gs)])), Length(ls, i)))
    PROVE  Place(ls, gs, i) \in Seq(Seq(D)) /\ Opened(Place(ls, gs, i), gs, i)
<1>1. <<i>> \in Seq(D)
  OBVIOUS
<1>2. Place(ls, gs, i) = Append(gs, <<i>>)
  BY DEF Place, Last
<1> QED
  BY <1>1, <1>2 DEF Opened

\* The plan is the last of a run of Place steps over the texts, longest first.
LEMMA PlanRun ==
    ASSUME NEW ls \in Seq(Nat), RatioNum > RatioDen
    PROVE  \E g : /\ g \in [0..Len(ls) -> Seq(Seq(1..Len(ls)))]
                  /\ g[0] = <<>> /\ g[Len(ls)] = plan_subbatches(ls)
                  /\ \A k \in 1..Len(ls) : g[k] = Place(ls, g[k - 1], At(ls, k))
<1> DEFINE n == Len(ls)
           D == 1..n
           S == Seq(Seq(D))
           empty == <<>>
           step == [p \in Nat \X S |-> IF p[1] \in D THEN Place(ls, p[2], At(ls, p[1])) ELSE <<>>]
           groups[k \in 0..Len(ls)] ==
               IF k = 0 THEN <<>> ELSE Place(ls, groups[k - 1], Descending(ls)[k])
<1>0. plan_subbatches(ls) = groups[n]
  <2>1. ~(RatioNum <= RatioDen)
    BY EmbedModelAssumption
  <2> QED
    BY <2>1 DEF plan_subbatches
<1>1. n \in Nat /\ empty \in S
  OBVIOUS
<1> HIDE DEF n
<1>2. \A k \in D : At(ls, k) \in D /\ Descending(ls)[k] = At(ls, k)
  BY Places DEF n
<1>3. \A k \in D, s \in S : Place(ls, s, At(ls, k)) \in S
  <2> HIDE DEF D
  <2> QED
    BY <1>2, PlaceJoins, PlaceOpens
<1>4. /\ step \in [Nat \X S -> S]
      /\ \A k \in D, s \in S : step[<<k, s>>] = Place(ls, s, At(ls, k))
  <2>2. \A k \in D : k \in Nat
    BY <1>1
  <2> HIDE DEF S, D
  <2>1. ASSUME NEW p \in Nat \X S
        PROVE  (IF p[1] \in D THEN Place(ls, p[2], At(ls, p[1])) ELSE <<>>) \in S
    BY <1>1, <1>3 DEF empty
  <2> QED
    BY <2>1, <2>2
<1>5. PICK g : Run(g, n, S, empty, step)
  <2> HIDE DEF S, empty, step
  <2> QED
    BY <1>1, <1>4, Iterates
<1> HIDE DEF step, S
<1>6. ASSUME NEW k \in 1..n PROVE g[k - 1] \in S /\ g[k] = Place(ls, g[k - 1], At(ls, k))
  <2>1. k - 1 \in 0..n
    BY <1>1
  <2> QED
    BY <2>1, <1>4, <1>5 DEF Run
<1>7. g = [k \in 0..Len(ls) |-> IF k = 0 THEN <<>> ELSE Place(ls, g[k - 1], Descending(ls)[k])]
  <2>1. ASSUME NEW k \in 0..n
        PROVE  g[k] = IF k = 0 THEN <<>> ELSE Place(ls, g[k - 1], Descending(ls)[k])
    <3>1. k # 0 => k \in 1..n
      BY <1>1
    <3> QED
      BY <1>2, <1>5, <1>6, <3>1 DEF Run, empty
  <2> QED
    BY <2>1, <1>5 DEF Run, n
<1>8. groups = [k \in 0..Len(ls) |-> IF k = 0 THEN <<>> ELSE Place(ls, groups[k - 1], Descending(ls)[k])]
  BY <1>7
<1> HIDE DEF groups
<1> DEFINE P == {k \in 0..n : groups[k] = g[k]}
<1>9. 0 \in P
  BY <1>1, <1>5, <1>8 DEF Run, empty, n
<1>10. ASSUME NEW k \in 1..n, k - 1 \in P PROVE k \in P
  <2>1. groups[k] = Place(ls, groups[k - 1], Descending(ls)[k])
    BY <1>1, <1>8 DEF n
  <2>2. groups[k - 1] = g[k - 1] /\ k \in 0..n /\ Descending(ls)[k] = At(ls, k)
    BY <1>1, <1>2, <1>10
  <2> QED
    BY <1>6, <2>1, <2>2
<1>11. 0..n \subseteq P
  <2> HIDE DEF P
  <2> QED
    BY <1>1, <1>9, <1>10, UpTo
<1>12. g[n] = plan_subbatches(ls)
  BY <1>0, <1>1, <1>11
<1> QED
  BY <1>5, <1>6, <1>12 DEF Run, empty, n, S

\* A text is as wide as it is long, an empty one apart.
LEMMA Widths ==
    ASSUME NEW ls \in Seq(Nat), NEW i \in 1..Len(ls)
    PROVE  /\ Length(ls, i) \in Nat
           /\ \A j \in 1..Len(ls) : ls[i] <= ls[j] => Length(ls, i) <= Length(ls, j)
<1>1. \A j \in 1..Len(ls) : ls[j] \in Nat
  OBVIOUS
<1> QED
  BY <1>1 DEF Length

\* A narrower text fits no better, a longer one no worse.
LEMMA Bands ==
    ASSUME NEW w \in Nat, NEW v \in Nat, v <= w, NEW x \in Nat, NEW y \in Nat, x <= y
    PROVE  /\ InBand(w, x) => InBand(v, y)
           /\ RatioNum > RatioDen => InBand(w, w)
<1>1. RatioNum \in Nat /\ RatioDen \in Nat
  BY EmbedModelAssumption
<1>2. v * RatioDen <= w * RatioDen /\ RatioNum * x <= RatioNum * y
  BY <1>1, Times
<1>3. v * RatioDen \in Nat /\ w * RatioDen \in Nat /\ RatioNum * x \in Nat /\ RatioNum * y \in Nat
  BY <1>1
<1>4. RatioNum > RatioDen => w * RatioDen <= RatioNum * w
  <2>1. RatioNum > RatioDen => w * RatioDen <= w * RatioNum
    BY <1>1, Times
  <2>2. w * RatioNum = RatioNum * w
    BY <1>1
  <2> QED
    BY <2>1, <2>2
<1>5. InBand(w, x) => v * RatioDen <= RatioNum * y
  <2> DEFINE a == v * RatioDen
             b == w * RatioDen
             c == RatioNum * x
             d == RatioNum * y
  <2>1. a \in Nat /\ b \in Nat /\ c \in Nat /\ d \in Nat /\ a <= b /\ c <= d /\ (InBand(w, x) => b <= c)
    BY <1>2, <1>3 DEF InBand
  <2> HIDE DEF a, b, c, d
  <2>2. InBand(w, x) => a <= d
    BY <2>1
  <2> QED
    BY <2>2 DEF a, d
<1> QED
  BY <1>4, <1>5 DEF InBand

\* What holds of the groups once the k longest texts have been placed.
Greedy(ls, k, gs) ==
    /\ gs \in Seq(Seq(1..Len(ls)))
    /\ \A p \in 1..k : \E m \in 1..Len(gs) : At(ls, p) \in ToSet(gs[m])
    /\ \A m \in 1..Len(gs) :
          /\ gs[m] # <<>>
          /\ \A i \in ToSet(gs[m]) : /\ \E p \in 1..k : i = At(ls, p)
                                     /\ ls[i] <= ls[Head(gs[m])]
                                     /\ InBand(Length(ls, Head(gs[m])), Length(ls, i))
    /\ \A m, o \in 1..Len(gs) : m < o =>
          /\ ls[Head(gs[o])] <= ls[Head(gs[m])]
          /\ ~InBand(Length(ls, Head(gs[m])), Length(ls, Head(gs[o])))

\* The widest text of a group is one of its texts.
LEMMA HeadIn ==
    ASSUME NEW D, NEW s \in Seq(D), s # <<>>
    PROVE  /\ Head(s) \in ToSet(s) /\ Head(s) \in D /\ ToSet(s) \subseteq D
           /\ \A i \in D : Head(Append(s, i)) = Head(s) /\ ToSet(Append(s, i)) = ToSet(s) \cup {i}
           /\ \A i \in D : Append(s, i) # <<>>
<1>1. 1 \in DOMAIN s /\ Head(s) = s[1] /\ DOMAIN s = 1..Len(s) /\ Len(s) \in Nat
  OBVIOUS
<1>2. ASSUME NEW i \in D
      PROVE  Head(Append(s, i)) = Head(s) /\ ToSet(Append(s, i)) = ToSet(s) \cup {i}
  <2> DEFINE u == Append(s, i)
  <2>1. /\ DOMAIN u = 1..(Len(s) + 1) /\ u[Len(s) + 1] = i /\ Head(u) = u[1]
        /\ \A j \in 1..Len(s) : u[j] = s[j]
    OBVIOUS
  <2>2. 1..(Len(s) + 1) = (1..Len(s)) \cup {Len(s) + 1}
    BY <1>1
  <2> HIDE DEF u
  <2>3. ToSet(u) = ToSet(s) \cup {i}
    BY <1>1, <2>1, <2>2 DEF ToSet
  <2> QED
    BY <1>1, <2>1, <2>3 DEF u
<1>3. \A j \in 1..Len(s) : s[j] \in D
  OBVIOUS
<1>4. Head(s) \in ToSet(s) /\ Head(s) \in D /\ ToSet(s) \subseteq D
  BY <1>1, <1>3 DEF ToSet
<1>5. \A i \in D : Append(s, i) # <<>>
  OBVIOUS
<1> QED
  BY <1>2, <1>4, <1>5

\* Placing the next longest text keeps what holds of the groups.
LEMMA PlaceGreedy ==
    ASSUME NEW ls \in Seq(Nat), RatioNum > RatioDen, NEW k \in 1..Len(ls), NEW gs, Greedy(ls, k - 1, gs)
    PROVE  Greedy(ls, k, Place(ls, gs, At(ls, k)))
<1> DEFINE n == Len(ls)
           D == 1..n
           i == At(ls, k)
           l == Len(gs)
           new == Place(ls, gs, i)
           Lead(m) == Head(gs[m])
<1>1. n \in Nat /\ i \in D /\ k \in Nat /\ \A j \in D : ls[j] \in Nat
  <2>1. i \in D
    BY Places
  <2> HIDE DEF i
  <2> QED
    BY <2>1
<1>2. gs \in Seq(Seq(D)) /\ l \in Nat /\ \A m \in 1..l : gs[m] \in Seq(D) /\ gs[m] # <<>>
  BY DEF Greedy
<1>3. \A m \in 1..l : Lead(m) \in ToSet(gs[m]) /\ Lead(m) \in D /\ ToSet(gs[m]) \subseteq D
  BY <1>2, HeadIn
<1>4. ASSUME NEW m \in 1..l, NEW j \in ToSet(gs[m]) PROVE ls[i] <= ls[j]
  <2>1. PICK p \in 1..(k - 1) : j = At(ls, p)
    BY DEF Greedy
  <2>2. p \in 1..n /\ k \in 1..n /\ p < k
    BY <1>1
  <2> QED
    BY <2>1, <2>2, Places
<1>5. \A p \in 1..k : p # k => p \in 1..(k - 1)
  BY <1>1
<1>6. \A p \in 1..(k - 1) : p \in 1..k
  BY <1>1
<1>7. k \in 1..k
  BY <1>1
<1> HIDE DEF i, n
<1>8. CASE gs # <<>> /\ InBand(Length(ls, Lead(l)), Length(ls, i))
  <2>0. l \in 1..l /\ \A m \in 1..l : m # l => m \in 1..(l - 1)
    BY <1>2, <1>8
  <2>1. /\ new \in Seq(Seq(D)) /\ Len(new) = l
        /\ new[l] = Append(gs[l], i) /\ \A m \in 1..(l - 1) : new[m] = gs[m]
    <3> HIDE DEF D
    <3> QED
      <4>1. new \in Seq(Seq(D)) /\ Joined(new, gs, i)
        BY <1>1, <1>2, <1>8, PlaceJoins
      <4> QED
        BY <4>1 DEF Joined
  <2> HIDE DEF new, l, D
  <2>2. ASSUME NEW m \in 1..l
        PROVE  /\ Head(new[m]) = Lead(m) /\ new[m] # <<>>
               /\ ToSet(new[m]) = IF m = l THEN ToSet(gs[m]) \cup {i} ELSE ToSet(gs[m])
    <3>1. CASE m = l
      <4> DEFINE s == gs[l]
      <4>1. s \in Seq(D) /\ s # <<>> /\ new[m] = Append(s, i) /\ gs[m] = s
        BY <1>2, <2>0, <2>1, <3>1
      <4> HIDE DEF s
      <4>2. Head(Append(s, i)) = Head(s) /\ ToSet(Append(s, i)) = ToSet(s) \cup {i} /\ Append(s, i) # <<>>
        BY <1>1, <4>1, HeadIn
      <4> QED
        BY <3>1, <4>1, <4>2
    <3>2. CASE m # l
      BY <1>2, <2>0, <2>1, <3>2
    <3> QED
      BY <3>1, <3>2
  <2>3. ASSUME NEW p \in 1..k PROVE \E m \in 1..l : At(ls, p) \in ToSet(new[m])
    <3>1. CASE p = k
      BY <2>0, <2>2, <3>1 DEF i
    <3>2. CASE p # k
      <4>1. PICK m \in 1..l : At(ls, p) \in ToSet(gs[m])
        BY <1>5, <3>2 DEF Greedy, l
      <4> QED
        BY <2>2, <4>1
    <3> QED
      BY <3>1, <3>2
  <2>4. ASSUME NEW m \in 1..l, NEW j \in ToSet(new[m])
        PROVE  /\ \E p \in 1..k : j = At(ls, p)
               /\ ls[j] <= ls[Head(new[m])]
               /\ InBand(Length(ls, Head(new[m])), Length(ls, j))
    <3>1. CASE j \in ToSet(gs[m])
      <4>1. /\ \E p \in 1..(k - 1) : j = At(ls, p)
            /\ ls[j] <= ls[Lead(m)]
            /\ InBand(Length(ls, Lead(m)), Length(ls, j))
        BY <3>1 DEF Greedy, l
      <4> QED
        BY <1>6, <2>2, <4>1
    <3>2. CASE j \notin ToSet(gs[m])
      <4>1. m = l /\ j = i
        BY <2>2, <3>2
      <4>2. ls[i] <= ls[Lead(l)]
        BY <1>3, <1>4, <2>0
      <4> QED
        BY <1>7, <1>8, <2>0, <2>2, <4>1, <4>2 DEF i
    <3> QED
      BY <3>1, <3>2
  <2>5. ASSUME NEW m \in 1..l, NEW o \in 1..l, m < o
        PROVE  /\ ls[Head(new[o])] <= ls[Head(new[m])]
               /\ ~InBand(Length(ls, Head(new[m])), Length(ls, Head(new[o])))
    BY <2>2, <2>5 DEF Greedy, l
  <2> QED
    BY <2>1, <2>2, <2>3, <2>4, <2>5 DEF Greedy, new, i, D, n
<1>9. CASE ~(gs # <<>> /\ InBand(Length(ls, Lead(l)), Length(ls, i)))
  <2>0. l + 1 \in 1..(l + 1) /\ \A m \in 1..(l + 1) : m # l + 1 => m \in 1..l
    BY <1>2
  <2>1. /\ new \in Seq(Seq(D)) /\ Len(new) = l + 1
        /\ new[l + 1] = <<i>> /\ \A m \in 1..l : new[m] = gs[m]
    <3> HIDE DEF D
    <3> QED
      <4>1. new \in Seq(Seq(D)) /\ Opened(new, gs, i)
        BY <1>1, <1>2, <1>9, PlaceOpens
      <4> QED
        BY <4>1 DEF Opened
  <2>a. gs # <<>> => l \in 1..l
    BY <1>2
  <2>b. l > 0 => gs # <<>>
    BY <1>2
  <2>c. \A m \in 1..l : m \in 1..(l + 1) /\ m # l + 1 /\ l > 0 /\ (m # l => m < l)
    BY <1>2
  <2>d. Head(<<i>>) = i /\ ToSet(<<i>>) = {i} /\ <<i>> # <<>>
    <3>1. DOMAIN <<i>> = {1} /\ <<i>>[1] = i
      OBVIOUS
    <3> QED
      BY <3>1 DEF ToSet
  <2>e. InBand(Length(ls, i), Length(ls, i)) /\ ls[i] <= ls[i]
    <3>1. Length(ls, i) \in Nat
      BY <1>1, Widths DEF n
    <3> QED
      BY <1>1, <3>1, Bands
  <2> HIDE DEF new, l, D
  <2>3. ASSUME NEW p \in 1..k PROVE \E m \in 1..(l + 1) : At(ls, p) \in ToSet(new[m])
    <3>1. CASE p = k
      BY <2>0, <2>1, <2>d, <3>1 DEF i
    <3>2. CASE p # k
      <4>1. PICK m \in 1..l : At(ls, p) \in ToSet(gs[m])
        BY <1>5, <3>2 DEF Greedy, l
      <4> QED
        BY <2>1, <2>c, <4>1
    <3> QED
      BY <3>1, <3>2
  <2>4. ASSUME NEW m \in 1..(l + 1)
        PROVE  /\ new[m] # <<>>
               /\ \A j \in ToSet(new[m]) :
                     /\ \E p \in 1..k : j = At(ls, p)
                     /\ ls[j] <= ls[Head(new[m])]
                     /\ InBand(Length(ls, Head(new[m])), Length(ls, j))
    <3>1. CASE m = l + 1
      BY <1>7, <2>1, <2>d, <2>e, <3>1 DEF i
    <3>2. CASE m # l + 1
      <4>1. m \in 1..l /\ new[m] = gs[m]
        BY <2>0, <2>1, <3>2
      <4> QED
        BY <1>6, <4>1 DEF Greedy, l
    <3> QED
      BY <3>1, <3>2
  <2>5. ASSUME NEW m \in 1..(l + 1), NEW o \in 1..(l + 1), m < o
        PROVE  /\ ls[Head(new[o])] <= ls[Head(new[m])]
               /\ ~InBand(Length(ls, Head(new[m])), Length(ls, Head(new[o])))
    <3>0. m \in 1..l /\ new[m] = gs[m]
      BY <1>2, <2>1, <2>5
    <3>1. CASE o # l + 1
      <4>1. o \in 1..l /\ new[o] = gs[o]
        BY <2>0, <2>1, <3>1
      <4> QED
        BY <2>5, <3>0, <4>1 DEF Greedy, l
    <3>2. CASE o = l + 1
      <4>1. Head(new[o]) = i
        BY <2>1, <2>d, <3>2
      <4>2. ls[i] <= ls[Lead(m)]
        BY <1>3, <1>4, <3>0
      <4>3. ~InBand(Length(ls, Lead(l)), Length(ls, i)) /\ l \in 1..l
        BY <1>9, <2>a, <2>b, <2>c, <3>0
      <4>4. ls[Lead(l)] <= ls[Lead(m)]
        <5>1. CASE m = l
          BY <1>1, <1>3, <4>3, <5>1
        <5>2. CASE m # l
          BY <2>c, <3>0, <4>3, <5>2 DEF Greedy, l
        <5> QED
          BY <5>1, <5>2
      <4>5. Length(ls, Lead(l)) <= Length(ls, Lead(m)) /\ Length(ls, Lead(l)) \in Nat
            /\ Length(ls, Lead(m)) \in Nat /\ Length(ls, i) \in Nat /\ Length(ls, i) <= Length(ls, i)
        <5> DEFINE a == Lead(l)
                   b == Lead(m)
        <5>1. a \in 1..Len(ls) /\ b \in 1..Len(ls) /\ i \in 1..Len(ls) /\ ls[a] <= ls[b]
          BY <1>1, <1>3, <3>0, <4>3, <4>4 DEF D, n
        <5> HIDE DEF a, b
        <5>2. /\ Length(ls, a) \in Nat /\ Length(ls, b) \in Nat /\ Length(ls, i) \in Nat
              /\ Length(ls, a) <= Length(ls, b)
          BY <5>1, Widths
        <5> QED
          BY <5>2 DEF a, b
      <4>6. ~InBand(Length(ls, Lead(m)), Length(ls, i))
        BY <4>3, <4>5, Bands
      <4> QED
        BY <3>0, <4>1, <4>2, <4>6
    <3> QED
      BY <3>1, <3>2
  <2> QED
    BY <2>1, <2>3, <2>4, <2>5 DEF Greedy, new, i, D, n
<1> QED
  BY <1>8, <1>9

\* So it holds of the whole plan.
LEMMA PlanGreedy ==
    ASSUME NEW ls \in Seq(Nat), RatioNum > RatioDen
    PROVE  Greedy(ls, Len(ls), plan_subbatches(ls))
<1> DEFINE n == Len(ls)
<1>1. PICK g : /\ g \in [0..n -> Seq(Seq(1..n))]
               /\ g[0] = <<>> /\ g[n] = plan_subbatches(ls)
               /\ \A k \in 1..n : g[k] = Place(ls, g[k - 1], At(ls, k))
  BY PlanRun
<1>2. n \in Nat
  OBVIOUS
<1> DEFINE P == {k \in 0..n : Greedy(ls, k, g[k])}
<1>3. 0 \in P
  <2> DEFINE none == <<>>
  <2>1. none \in Seq(Seq(1..n)) /\ Len(none) = 0 /\ 1..0 = {} /\ g[0] = none
    BY <1>1
  <2> HIDE DEF none
  <2>2. Greedy(ls, 0, none)
    BY <2>1 DEF Greedy
  <2> QED
    BY <1>2, <2>1, <2>2
<1>4. ASSUME NEW k \in 1..n, k - 1 \in P PROVE k \in P
  <2>1. Greedy(ls, k - 1, g[k - 1]) /\ k \in 0..n
    BY <1>4
  <2>2. Greedy(ls, k, Place(ls, g[k - 1], At(ls, k)))
    BY <2>1, PlaceGreedy
  <2> QED
    BY <1>1, <2>1, <2>2
<1>5. 0..n \subseteq P
  <2> HIDE DEF P, n
  <2> QED
    BY <1>2, <1>3, <1>4, UpTo
<1> QED
  BY <1>1, <1>2, <1>5

\* Every text is in a group, and a request has one.
LEMMA PlanCovers ==
    ASSUME NEW ls \in Seq(Nat), ls # <<>>
    PROVE  /\ plan_subbatches(ls) \in Seq(Seq(1..Len(ls))) /\ plan_subbatches(ls) # <<>>
           /\ \A i \in 1..Len(ls) : \E m \in 1..Len(plan_subbatches(ls)) :
                  i \in ToSet(plan_subbatches(ls)[m])
<1> DEFINE n == Len(ls)
           gs == plan_subbatches(ls)
<1>0. n \in Nat /\ 1 \in 1..n /\ DOMAIN ls = 1..n
  OBVIOUS
<1>1. CASE RatioNum > RatioDen
  <2>1. Greedy(ls, n, gs)
    BY <1>1, PlanGreedy
  <2> HIDE DEF gs, n
  <2>2. ASSUME NEW i \in 1..n PROVE \E m \in 1..Len(gs) : i \in ToSet(gs[m])
    <3>1. PICK k \in 1..n : i = At(ls, k)
      BY Places DEF n
    <3> QED
      BY <2>1, <3>1 DEF Greedy
  <2>3. gs \in Seq(Seq(1..n))
    BY <2>1 DEF Greedy, n
  <2>4. gs # <<>>
    BY <1>0, <2>2
  <2> QED
    BY <2>2, <2>3, <2>4 DEF gs, n
<1>2. CASE ~(RatioNum > RatioDen)
  <2> DEFINE all == [i \in 1..n |-> i]
  <2>1. gs = <<all>>
    <3>1. RatioNum <= RatioDen
      BY <1>2, EmbedModelAssumption
    <3> QED
      BY <1>0, <3>1 DEF plan_subbatches
  <2>2. all \in Seq(1..n) /\ \A i \in 1..n : i \in ToSet(all)
    BY <1>0 DEF ToSet
  <2> HIDE DEF all, gs, n
  <2>3. gs \in Seq(Seq(1..n)) /\ gs # <<>> /\ Len(gs) = 1 /\ gs[1] = all
    BY <2>1, <2>2
  <2>4. \A i \in 1..n : \E m \in 1..Len(gs) : i \in ToSet(gs[m])
    BY <2>2, <2>3
  <2> QED
    BY <2>3, <2>4 DEF gs, n
<1> QED
  BY <1>1, <1>2

\* The greedy plan has as many groups as texts can be kept apart: its leaders are
\* apart, and of texts that are apart every group holds one at most.
LEMMA PlanLeast ==
    ASSUME NEW ls \in Seq(Nat), RatioNum > RatioDen
    PROVE  Len(plan_subbatches(ls)) = Spread(ls)
<1> DEFINE n == Len(ls)
           D == 1..n
           gs == plan_subbatches(ls)
           l == Len(gs)
           L == 1..l
           Lead(m) == Head(gs[m])
           H == {Lead(m) : m \in L}
           Sizes == {Cardinality(S) : S \in {T \in SUBSET DOMAIN ls : Apart(ls, T)}}
<1>1. n \in Nat /\ DOMAIN ls = D /\ \A i \in D : ls[i] \in Nat
  OBVIOUS
<1>2. Greedy(ls, n, gs)
  BY PlanGreedy
<1> HIDE DEF gs, n
<1>3. gs \in Seq(Seq(D)) /\ l \in Nat /\ \A m \in L : gs[m] \in Seq(D) /\ gs[m] # <<>>
  BY <1>2 DEF Greedy, n
<1>4. \A m \in L : Lead(m) \in ToSet(gs[m]) /\ Lead(m) \in D /\ ToSet(gs[m]) \subseteq D
  BY <1>3, HeadIn
<1>5. \A m \in L : \A i \in ToSet(gs[m]) :
          ls[i] <= ls[Lead(m)] /\ InBand(Length(ls, Lead(m)), Length(ls, i))
  BY <1>2 DEF Greedy
<1>6. \A m, o \in L : m < o => /\ ls[Lead(o)] <= ls[Lead(m)]
                               /\ ~InBand(Length(ls, Lead(m)), Length(ls, Lead(o)))
  BY <1>2 DEF Greedy
<1>7. \A i \in D : \E m \in L : i \in ToSet(gs[m])
  <2> SUFFICES ASSUME NEW i \in D PROVE \E m \in L : i \in ToSet(gs[m])
    OBVIOUS
  <2>1. PICK k \in D : i = At(ls, k)
    BY Places DEF n
  <2> QED
    BY <1>2, <2>1 DEF Greedy
<1>8. \A i \in D : /\ Length(ls, i) \in Nat
                   /\ InBand(Length(ls, i), Length(ls, i))
                   /\ \A j \in D : ls[i] <= ls[j] => Length(ls, i) <= Length(ls, j)
  <2> SUFFICES ASSUME NEW i \in D
               PROVE  /\ Length(ls, i) \in Nat
                      /\ InBand(Length(ls, i), Length(ls, i))
                      /\ \A j \in D : ls[i] <= ls[j] => Length(ls, i) <= Length(ls, j)
    OBVIOUS
  <2>1. /\ Length(ls, i) \in Nat
        /\ \A j \in D : ls[i] <= ls[j] => Length(ls, i) <= Length(ls, j)
    BY Widths DEF n
  <2>2. Length(ls, i) <= Length(ls, i)
    BY <2>1
  <2> QED
    BY <2>1, <2>2, Bands
<1>9. IsFiniteSet(L) /\ Cardinality(L) = l
  <2>1. CASE l = 0
    BY <2>1, FS_Interval
  <2>2. CASE l # 0
    BY <1>3, <2>2, FS_Interval
  <2> QED
    BY <2>1, <2>2
<1> HIDE DEF l, D
<1>10. ASSUME NEW m \in L, NEW o \in L, m # o PROVE Lead(m) # Lead(o)
  <2>1. CASE m < o
    BY <1>4, <1>6, <1>8, <2>1
  <2>2. CASE o < m
    BY <1>4, <1>6, <1>8, <2>2
  <2> QED
    BY <1>3, <1>10, <2>1, <2>2
<1>11. Cardinality(H) = l /\ IsFiniteSet(H)
  <2> DEFINE f == [m \in L |-> Lead(m)]
  <2>1. f \in Surjection(L, H) /\ f \in Injection(L, H)
    BY <1>10 DEF Surjection, Injection, IsInjective
  <2> HIDE DEF f, H, L
  <2> QED
    BY <1>9, <2>1, FS_Surjection
<1>12. Apart(ls, H) /\ H \subseteq D
  <2>1. ASSUME NEW i \in H, NEW j \in H, i # j, ls[i] >= ls[j]
        PROVE  ~InBand(Length(ls, i), Length(ls, j))
    <3>1. PICK m \in L : i = Lead(m)
      OBVIOUS
    <3>2. PICK o \in L : j = Lead(o)
      OBVIOUS
    <3>3. m \in Nat /\ o \in Nat /\ m # o
      BY <1>3, <2>1, <3>1, <3>2
    <3>4. CASE m < o
      BY <1>6, <3>1, <3>2, <3>4
    <3>5. CASE o < m
      <4>1. ls[i] <= ls[j] /\ ~InBand(Length(ls, j), Length(ls, i)) /\ i \in D /\ j \in D
        BY <1>4, <1>6, <3>1, <3>2, <3>5
      <4>2. ls[i] = ls[j]
        BY <1>1, <2>1, <4>1
      <4>3. Length(ls, i) = Length(ls, j)
        BY <4>2 DEF Length
      <4> QED
        BY <1>8, <4>1, <4>3
    <3> QED
      BY <3>3, <3>4, <3>5
  <2>2. H \subseteq D
    BY <1>4
  <2> QED
    BY <2>1, <2>2 DEF Apart
<1>13. ASSUME NEW T \in SUBSET D, Apart(ls, T) PROVE IsFiniteSet(T) /\ Cardinality(T) <= l
  <2> DEFINE f == [i \in T |-> CHOOSE m \in L : i \in ToSet(gs[m])]
  <2>1. ASSUME NEW i \in T PROVE f[i] \in L /\ i \in ToSet(gs[f[i]])
    BY <1>7
  <2>2. ASSUME NEW i \in T, NEW j \in T, i # j, ls[i] >= ls[j] PROVE f[i] # f[j]
    <3> SUFFICES ASSUME f[i] = f[j] PROVE FALSE
      OBVIOUS
    <3> DEFINE m == f[i]
    <3>1. m \in L /\ i \in ToSet(gs[m]) /\ j \in ToSet(gs[m])
      BY <2>1
    <3> HIDE DEF m, f
    <3>2. /\ ls[i] <= ls[Lead(m)] /\ InBand(Length(ls, Lead(m)), Length(ls, j))
          /\ Lead(m) \in D /\ i \in D /\ j \in D
      BY <1>4, <1>5, <3>1
    <3> DEFINE w == Length(ls, Lead(m))
               v == Length(ls, i)
               x == Length(ls, j)
    <3>3. w \in Nat /\ v \in Nat /\ x \in Nat /\ v <= w /\ x <= x /\ InBand(w, x)
      BY <1>8, <3>2
    <3> HIDE DEF w, v, x
    <3>4. InBand(v, x)
      BY <3>3, Bands
    <3> QED
      BY <1>13, <2>2, <3>4 DEF Apart, v, x
  <2>3. ASSUME NEW i \in T, NEW j \in T, i # j PROVE f[i] # f[j]
    <3>1. ls[i] >= ls[j] \/ ls[j] >= ls[i]
      BY <1>1
    <3> QED
      BY <2>2, <2>3, <3>1
  <2>4. f \in Injection(T, L)
    BY <2>1, <2>3 DEF Injection, IsInjective
  <2> HIDE DEF f, L
  <2> QED
    BY <1>9, <2>4, FS_Injection
<1>14. /\ l \in Sizes /\ Sizes # {} /\ \A c \in Sizes : c \in Nat /\ c <= l
  BY <1>1, <1>11, <1>12, <1>13, FS_CardinalityType
<1>15. Max(Sizes) \in Sizes /\ \A c \in Sizes : c <= Max(Sizes)
  <2> HIDE DEF Sizes
  <2> QED
    BY <1>3, <1>14, Largest
<1>16. Max(Sizes) = l
  <2> DEFINE x == Max(Sizes)
  <2> HIDE DEF Sizes
  <2>1. x \in Nat /\ x <= l /\ l <= x
    BY <1>14, <1>15
  <2> HIDE DEF x
  <2>2. x = l
    BY <1>3, <2>1
  <2> QED
    BY <2>2 DEF x
<1> QED
  BY <1>16 DEF Spread, l, gs

\* Two texts that plan_subbatches puts in one pass are within the ratio: the plan is
\* one of those NoFewerPasses compares it with (PlanCovers: it leaves no text out).
THEOREM PlanKeepsRatio ==
    ASSUME NEW ls \in Seq(Nat), RatioNum > RatioDen,
           NEW m \in 1..Len(plan_subbatches(ls)),
           NEW i \in ToSet(plan_subbatches(ls)[m]), NEW j \in ToSet(plan_subbatches(ls)[m]),
           ls[i] >= ls[j]
    PROVE  InBand(Length(ls, i), Length(ls, j))
<1> DEFINE gs == plan_subbatches(ls)
           lead == Head(gs[m])
           w == Length(ls, lead)
           v == Length(ls, i)
           x == Length(ls, j)
<1>1. Greedy(ls, Len(ls), gs)
  BY PlanGreedy
<1> HIDE DEF gs
<1>2. m \in 1..Len(gs) /\ i \in ToSet(gs[m]) /\ j \in ToSet(gs[m])
  BY DEF gs
<1>3. gs[m] \in Seq(1..Len(ls)) /\ gs[m] # <<>>
  <2>1. gs \in Seq(Seq(1..Len(ls)))
    BY <1>1 DEF Greedy
  <2> DEFINE G == Seq(1..Len(ls))
  <2> HIDE DEF G
  <2>2. gs \in Seq(G)
    BY <2>1 DEF G
  <2>3. gs[m] \in G
    BY <1>2, <2>2
  <2>4. gs[m] # <<>>
    BY <1>1, <1>2 DEF Greedy
  <2> QED
    BY <2>3, <2>4 DEF G
<1>4. lead \in 1..Len(ls) /\ ToSet(gs[m]) \subseteq 1..Len(ls)
  BY <1>3, HeadIn
<1>5. ls[i] <= ls[lead] /\ InBand(w, x)
  BY <1>1, <1>2 DEF Greedy
<1>6. i \in 1..Len(ls) /\ j \in 1..Len(ls)
  BY <1>2, <1>4
<1>7. w \in Nat /\ v \in Nat /\ x \in Nat /\ v <= w /\ x <= x
  <2> HIDE DEF lead
  <2>1. w \in Nat /\ v \in Nat /\ x \in Nat
    BY <1>4, <1>6, Widths
  <2>2. v <= w
    BY <1>4, <1>5, <1>6, Widths
  <2> HIDE DEF w, v, x
  <2> QED
    BY <2>1, <2>2
<1> HIDE DEF w, v, x
<1>8. InBand(v, x)
  BY <1>5, <1>7, Bands
<1> QED
  BY <1>8 DEF v, x

\* Any way to share the texts out over q passes, two texts of a pass always within
\* the ratio.
Within(ls, g, q) == /\ g \in [DOMAIN ls -> 1..q]
                    /\ \A i, j \in DOMAIN ls :
                          g[i] = g[j] /\ ls[i] >= ls[j] => InBand(Length(ls, i), Length(ls, j))

\* No sharing out of the texts within the ratio needs fewer passes than the plan of
\* plan_subbatches: what Spread is for.
THEOREM NoFewerPasses ==
    ASSUME NEW ls \in Seq(Nat), RatioNum > RatioDen, NEW q \in Nat, NEW g, Within(ls, g, q)
    PROVE  Len(plan_subbatches(ls)) <= q
<1> DEFINE L == 1..q
           Sizes == {Cardinality(S) : S \in {T \in SUBSET DOMAIN ls : Apart(ls, T)}}
<1>1. DOMAIN ls = 1..Len(ls) /\ \A i \in DOMAIN ls : ls[i] \in Nat
  OBVIOUS
<1>2. IsFiniteSet(L) /\ Cardinality(L) = q
  <2>1. CASE q = 0
    BY <2>1, FS_Interval
  <2>2. CASE q # 0
    BY <2>2, FS_Interval
  <2> QED
    BY <2>1, <2>2
<1>3. ASSUME NEW T \in SUBSET DOMAIN ls, Apart(ls, T) PROVE IsFiniteSet(T) /\ Cardinality(T) <= q
  <2> DEFINE f == [i \in T |-> g[i]]
  <2>1. ASSUME NEW i \in T, NEW j \in T, i # j PROVE g[i] # g[j]
    <3>1. ls[i] >= ls[j] \/ ls[j] >= ls[i]
      BY <1>1
    <3> QED
      BY <1>3, <2>1, <3>1 DEF Within, Apart
  <2>2. \A i \in T : g[i] \in L
    BY DEF Within
  <2>3. f \in Injection(T, L)
    BY <2>1, <2>2 DEF Injection, IsInjective
  <2> HIDE DEF f, L
  <2> QED
    BY <1>2, <2>3, FS_Injection
<1>4. {} \in SUBSET DOMAIN ls /\ Apart(ls, {})
  BY DEF Apart
<1>5. Sizes # {} /\ \A c \in Sizes : c \in Nat /\ c <= q
  BY <1>3, <1>4, FS_CardinalityType
<1>6. Max(Sizes) \in Sizes
  <2> HIDE DEF Sizes
  <2> QED
    BY <1>5, Largest
<1>7. Spread(ls) = Max(Sizes)
  BY DEF Spread
<1> HIDE DEF Sizes
<1>8. Spread(ls) <= q
  BY <1>5, <1>6, <1>7
<1> QED
  BY <1>8, PlanLeast

------------------------------------------------------------------------------
(* The rows of a request.                                                   *)

\* The row a text must get.
Answer(ls, i) == [text |-> i, tokens |-> ls[i]]

\* The tensor of a pass is wide enough for every text of its group.
LEMMA RowFull ==
    ASSUME NEW t \in Threads, lens[t] \in Seq(0..MaxLen),
           NEW group \in Seq(1..Len(lens[t])), NEW i \in ToSet(group)
    PROVE  Row(t, group, i) = Answer(lens[t], i)
<1> DEFINE ls == lens[t]
           S == {ls[j] : j \in ToSet(group)}
           widest == Max(S)
           width == round_up_seq_len(widest)
<1>1. ToSet(group) \subseteq 1..Len(ls) /\ MaxLen \in Nat
  <2>1. \A j \in DOMAIN group : group[j] \in 1..Len(ls)
    OBVIOUS
  <2> QED
    BY <2>1, EmbedModelAssumption DEF ToSet
<1>2. \A j \in 1..Len(ls) : ls[j] \in Nat /\ ls[j] <= MaxLen
  <2>1. ls \in Seq(0..MaxLen)
    OBVIOUS
  <2> HIDE DEF ls
  <2>2. \A j \in 1..Len(ls) : ls[j] \in 0..MaxLen
    BY <1>1, <2>1, ElementOfSeq
  <2> QED
    BY <1>1, <2>2
<1>3. S \subseteq Nat /\ S # {} /\ \A y \in S : y <= MaxLen
  BY <1>1, <1>2
<1>4. widest \in S /\ \A y \in S : y <= widest
  <2> HIDE DEF S
  <2> QED
    BY <1>1, <1>3, Largest
<1>5. widest \in Nat /\ widest <= MaxLen /\ ls[i] \in Nat /\ ls[i] <= widest
  BY <1>1, <1>2, <1>3, <1>4
<1> HIDE DEF widest
<1>6. width \in Nat /\ widest <= width
  <2>1. CASE widest <= 1
    BY <1>5, <2>1 DEF round_up_seq_len
  <2>2. CASE ~(widest <= 1)
    <3>1. next_power_of_two(widest) \in Nat /\ next_power_of_two(widest) >= widest
      BY <1>5, NextPower
    <3> QED
      BY <1>1, <1>5, <2>2, <3>1 DEF round_up_seq_len, Capped
  <2> QED
    BY <2>1, <2>2
<1> HIDE DEF width
<1>7. (IF ls[i] < width THEN ls[i] ELSE width) = ls[i]
  BY <1>5, <1>6
<1> QED
  BY <1>7 DEF Row, Answer, width, widest

\* The texts of a request in progress have their rows or wait for their pass.
Pending(ls, gs, rows) ==
    /\ ls \in Seq(0..MaxLen)
    /\ gs \in Seq(Seq(1..Len(ls))) /\ gs # <<>>
    /\ DOMAIN rows = DOMAIN ls
    /\ \A i \in DOMAIN ls : \/ rows[i] = Answer(ls, i)
                            \/ \E m \in 1..Len(gs) : i \in ToSet(gs[m])

\* Every request in progress is so.
RowsInv == /\ DOMAIN lens = Threads /\ DOMAIN plan = Threads /\ DOMAIN passes = Threads
           /\ DOMAIN out = Threads /\ DOMAIN outcome = Threads
           /\ \A t \in Threads : outcome[t] = "running" => Pending(lens[t], plan[t], out[t])

\* What tokenize hands to the passes.
LEMMA CappedLengths ==
    ASSUME NEW batch \in Batches
    PROVE  /\ [i \in DOMAIN batch |-> Capped(batch[i])] \in Seq(0..MaxLen)
           /\ [i \in DOMAIN batch |-> Capped(batch[i])] \in Seq(Nat)
           /\ Len([i \in DOMAIN batch |-> Capped(batch[i])]) = Len(batch)
           /\ DOMAIN batch = 1..Len(batch) /\ Len(batch) \in Nat
<1>1. batch \in Seq(Nat) /\ MaxLen \in Nat
  BY EmbedModelAssumption
<1>2. DOMAIN batch = 1..Len(batch) /\ Len(batch) \in Nat /\ \A i \in 1..Len(batch) : batch[i] \in Nat
  BY <1>1
<1>3. \A i \in 1..Len(batch) : Capped(batch[i]) \in 0..MaxLen /\ Capped(batch[i]) \in Nat
  BY <1>1, <1>2 DEF Capped
<1> QED
  BY <1>2, <1>3

\* A new request waits for the passes of its plan, all of its texts among them.
LEMMA TokenizeRows ==
    ASSUME RowsInv, OwnRows, NEW t \in Threads, NEW batch \in Batches, Tokenize(t, batch)
    PROVE  RowsInv' /\ OwnRows'
<1> DEFINE ls == [i \in DOMAIN batch |-> Capped(batch[i])]
           gs == IF batch = <<>> THEN <<>> ELSE plan_subbatches(ls)
           rows == [i \in DOMAIN batch |-> NoRow]
<1>1. /\ lens' = [lens EXCEPT ![t] = ls] /\ plan' = [plan EXCEPT ![t] = gs]
      /\ passes' = [passes EXCEPT ![t] = Len(gs)] /\ out' = [out EXCEPT ![t] = rows]
      /\ outcome' = [outcome EXCEPT ![t] = IF batch = <<>> THEN "ok" ELSE "running"]
  BY DEF Tokenize
<1>2. /\ ls \in Seq(0..MaxLen) /\ ls \in Seq(Nat) /\ Len(ls) = Len(batch)
      /\ DOMAIN batch = 1..Len(batch) /\ Len(batch) \in Nat /\ DOMAIN ls = DOMAIN batch
      /\ DOMAIN rows = DOMAIN batch
  BY CappedLengths
<1>3. ASSUME batch # <<>> PROVE Pending(ls, gs, rows)
  <2>1. ls # <<>> /\ gs = plan_subbatches(ls)
    BY <1>2, <1>3
  <2> HIDE DEF ls, gs, rows
  <2>2. /\ gs \in Seq(Seq(1..Len(ls))) /\ gs # <<>>
        /\ \A i \in 1..Len(ls) : \E m \in 1..Len(gs) : i \in ToSet(gs[m])
    BY <1>2, <2>1, PlanCovers
  <2> QED
    BY <1>2, <2>2 DEF Pending
<1>4. batch = <<>> => DOMAIN rows = {}
  BY <1>2
<1> HIDE DEF ls, gs, rows
<1>5. RowsInv'
  <2>1. ASSUME NEW u \in Threads, outcome'[u] = "running" PROVE Pending(lens'[u], plan'[u], out'[u])
    <3>1. CASE u = t
      <4>1. batch # <<>> /\ lens'[u] = ls /\ plan'[u] = gs /\ out'[u] = rows
        BY <1>1, <2>1, <3>1 DEF RowsInv
      <4> QED
        BY <1>3, <4>1
    <3>2. CASE u # t
      <4>1. lens'[u] = lens[u] /\ plan'[u] = plan[u] /\ out'[u] = out[u] /\ outcome[u] = "running"
        BY <1>1, <2>1, <3>2 DEF RowsInv
      <4> QED
        BY <4>1 DEF RowsInv
    <3> QED
      BY <3>1, <3>2
  <2>2. /\ DOMAIN lens' = Threads /\ DOMAIN plan' = Threads /\ DOMAIN passes' = Threads
        /\ DOMAIN out' = Threads /\ DOMAIN outcome' = Threads
    BY <1>1 DEF RowsInv
  <2> QED
    BY <2>1, <2>2 DEF RowsInv
<1>6. OwnRows'
  <2> SUFFICES ASSUME NEW u \in Threads, outcome'[u] = "ok", NEW i \in DOMAIN out'[u]
               PROVE  out'[u][i] = [text |-> i, tokens |-> lens'[u][i]]
    BY DEF OwnRows
  <2>1. CASE u = t
    <3>1. batch = <<>> /\ out'[u] = rows
      BY <1>1, <2>1 DEF RowsInv
    <3> QED
      BY <1>4, <3>1
  <2>2. CASE u # t
    <3>1. lens'[u] = lens[u] /\ out'[u] = out[u] /\ outcome[u] = "ok"
      BY <1>1, <2>2 DEF RowsInv
    <3> QED
      BY <3>1 DEF OwnRows
  <2> QED
    BY <2>1, <2>2
<1> QED
  BY <1>5, <1>6

\* A pass gives its group the rows, and the groups that are left hold the other texts.
LEMMA EndPassRows ==
    ASSUME RowsInv, OwnRows, NEW t \in Threads, EndPass(t)
    PROVE  RowsInv' /\ OwnRows'
<1> DEFINE ls == lens[t]
           gs == plan[t]
           rows == out[t]
           group == Head(gs)
           new == Scatter(t, group)
<1>1. /\ outcome[t] = "running" /\ lens' = lens /\ passes' = passes
      /\ out' = [out EXCEPT ![t] = new] /\ plan' = [plan EXCEPT ![t] = Tail(gs)]
      /\ outcome' = [outcome EXCEPT ![t] = IF Tail(gs) = <<>> THEN "ok" ELSE @]
  BY DEF EndPass
<1>2. Pending(ls, gs, rows)
  BY <1>1 DEF RowsInv
<1>3. /\ ls \in Seq(0..MaxLen) /\ gs \in Seq(Seq(1..Len(ls))) /\ gs # <<>> /\ DOMAIN rows = DOMAIN ls
      /\ group \in Seq(1..Len(ls)) /\ group = gs[1] /\ Len(gs) \in Nat
  BY <1>2 DEF Pending
<1>4. /\ Tail(gs) \in Seq(Seq(1..Len(ls))) /\ Len(Tail(gs)) = Len(gs) - 1
      /\ \A m \in 1..(Len(gs) - 1) : Tail(gs)[m] = gs[m + 1]
  <2> DEFINE G == Seq(1..Len(ls))
  <2>1. gs \in Seq(G) /\ gs # <<>>
    BY <1>3
  <2> HIDE DEF gs, G
  <2>2. /\ Tail(gs) \in Seq(G) /\ Len(Tail(gs)) = Len(gs) - 1
        /\ \A m \in 1..(Len(gs) - 1) : Tail(gs)[m] = gs[m + 1]
    BY <2>1
  <2> QED
    BY <2>2 DEF G
<1>5. /\ DOMAIN new = DOMAIN ls
      /\ \A i \in DOMAIN ls : new[i] = IF i \in ToSet(group) THEN Row(t, group, i) ELSE rows[i]
  BY <1>3 DEF Scatter
<1>6. \A i \in ToSet(group) : Row(t, group, i) = Answer(ls, i)
  BY <1>3, RowFull
<1> HIDE DEF ls, gs, rows, group, new
<1>7. ASSUME NEW i \in DOMAIN ls
      PROVE  new[i] = Answer(ls, i) \/ \E m \in 1..Len(Tail(gs)) : i \in ToSet(Tail(gs)[m])
  <2>1. CASE i \in ToSet(group) \/ rows[i] = Answer(ls, i)
    BY <1>5, <1>6, <2>1
  <2>2. CASE i \notin ToSet(group) /\ rows[i] # Answer(ls, i)
    <3>1. PICK m \in 1..Len(gs) : i \in ToSet(gs[m])
      BY <1>2, <2>2 DEF Pending
    <3>2. m # 1
      BY <1>3, <2>2, <3>1
    <3>3. m - 1 \in 1..(Len(gs) - 1) /\ (m - 1) + 1 = m
      BY <1>3, <3>2
    <3>4. Tail(gs)[m - 1] = gs[m] /\ m - 1 \in 1..Len(Tail(gs))
      BY <1>4, <3>3
    <3> QED
      BY <3>1, <3>4
  <2> QED
    BY <2>1, <2>2
<1>8. ASSUME Tail(gs) # <<>> PROVE Pending(ls, Tail(gs), new)
  BY <1>3, <1>4, <1>5, <1>7, <1>8 DEF Pending
<1>9. ASSUME Tail(gs) = <<>>, NEW i \in DOMAIN ls PROVE new[i] = Answer(ls, i)
  <2>1. 1..Len(Tail(gs)) = {}
    BY <1>9
  <2> QED
    BY <1>7, <2>1
<1>10. RowsInv'
  <2>1. ASSUME NEW u \in Threads, outcome'[u] = "running" PROVE Pending(lens'[u], plan'[u], out'[u])
    <3>1. CASE u = t
      <4>1. Tail(gs) # <<>> /\ lens'[u] = ls /\ plan'[u] = Tail(gs) /\ out'[u] = new
        BY <1>1, <2>1, <3>1 DEF RowsInv, ls
      <4> QED
        BY <1>8, <4>1
    <3>2. CASE u # t
      <4>1. lens'[u] = lens[u] /\ plan'[u] = plan[u] /\ out'[u] = out[u] /\ outcome[u] = "running"
        BY <1>1, <2>1, <3>2 DEF RowsInv
      <4> QED
        BY <4>1 DEF RowsInv
    <3> QED
      BY <3>1, <3>2
  <2>2. /\ DOMAIN lens' = Threads /\ DOMAIN plan' = Threads /\ DOMAIN passes' = Threads
        /\ DOMAIN out' = Threads /\ DOMAIN outcome' = Threads
    BY <1>1 DEF RowsInv
  <2> QED
    BY <2>1, <2>2 DEF RowsInv
<1>11. OwnRows'
  <2> SUFFICES ASSUME NEW u \in Threads, outcome'[u] = "ok", NEW i \in DOMAIN out'[u]
               PROVE  out'[u][i] = [text |-> i, tokens |-> lens'[u][i]]
    BY DEF OwnRows
  <2>1. CASE u = t
    <3>1. Tail(gs) = <<>> /\ out'[u] = new /\ lens'[u] = ls
      BY <1>1, <2>1 DEF RowsInv, ls
    <3> QED
      BY <1>5, <1>9, <3>1 DEF Answer
  <2>2. CASE u # t
    <3>1. lens'[u] = lens[u] /\ out'[u] = out[u] /\ outcome[u] = "ok"
      BY <1>1, <2>2 DEF RowsInv
    <3> QED
      BY <3>1 DEF OwnRows
  <2> QED
    BY <2>1, <2>2
<1> QED
  BY <1>10, <1>11

\* No request has begun.
LEMMA InitRows == EmbedInit => RowsInv /\ OwnRows
BY DEF EmbedInit, RowsInv, OwnRows

\* Giving a request up, or letting it wait, changes nothing else of it.
LEMMA GivesUpRows ==
    ASSUME RowsInv, OwnRows, NEW t \in Threads, NEW o \in {"error", outcome[t]},
           outcome' = [outcome EXCEPT ![t] = o], UNCHANGED <<lens, plan, passes, out>>
    PROVE  RowsInv' /\ OwnRows'
<1>1. \A u \in Threads : /\ outcome'[u] = "running" => outcome[u] = "running"
                         /\ outcome'[u] = "ok" => outcome[u] = "ok"
  BY DEF RowsInv
<1>2. lens' = lens /\ plan' = plan /\ passes' = passes /\ out' = out /\ DOMAIN outcome' = DOMAIN outcome
  OBVIOUS
<1>3. RowsInv'
  BY <1>1, <1>2 DEF RowsInv
<1>4. OwnRows'
  BY <1>1, <1>2 DEF OwnRows
<1> QED
  BY <1>3, <1>4

\* RowsInv and OwnRows are kept by every step.
LEMMA NextRows == RowsInv /\ OwnRows /\ [EmbedNext]_embedVars => RowsInv' /\ OwnRows'
<1> SUFFICES ASSUME RowsInv, OwnRows, [EmbedNext]_embedVars PROVE RowsInv' /\ OwnRows'
  OBVIOUS
<1>1. ASSUME NEW t \in Threads, TokenizeFails(t) \/ PassFails(t) \/ Acquiring(t)
      PROVE  RowsInv' /\ OwnRows'
  <2>1. CASE TokenizeFails(t) \/ PassFails(t)
    <3>1. outcome' = [outcome EXCEPT ![t] = "error"] /\ UNCHANGED <<lens, plan, passes, out>>
      BY <2>1 DEF TokenizeFails, PassFails
    <3> QED
      BY <3>1, GivesUpRows
  <2>2. CASE Acquiring(t)
    <3>1. /\ outcome' = [outcome EXCEPT ![t] = IF pc'[t] \in {"all_busy", "reinit_failed"}
                                              THEN "error" ELSE outcome[t]]
          /\ UNCHANGED <<lens, plan, passes, out>>
      BY <2>2 DEF Acquiring
    <3> QED
      BY <3>1, GivesUpRows
  <2> QED
    BY <1>1, <2>1, <2>2
<1>2. CASE UNCHANGED requestVars
  <2>1. lens' = lens /\ plan' = plan /\ passes' = passes /\ out' = out /\ outcome' = outcome
    BY <1>2 DEF requestVars
  <2>2. RowsInv'
    BY <2>1 DEF RowsInv
  <2>3. OwnRows'
    BY <2>1 DEF OwnRows
  <2> QED
    BY <2>2, <2>3
<1>3. (\E t \in Threads : BeginPass(t)) \/ Background \/ UNCHANGED embedVars => UNCHANGED requestVars
  BY DEF BeginPass, Background, embedVars
<1> QED
  BY <1>1, <1>2, <1>3, TokenizeRows, EndPassRows DEF EmbedNext

\* Whatever the passes of other requests and the eviction loop do between the passes of
\* a request, embed_tokens returns for every text the row of that text, averaged over
\* all the tokens the model can take: `embed_tokens` scatters by the plan's indices.
THEOREM RowsAreOwn == EmbedSpec => []OwnRows
BY InitRows, NextRows, PTL DEF EmbedSpec

\* The plan made from the capped lengths has the fewest groups.
LEMMA TokenizeLeast ==
    ASSUME RowsInv, FewestPasses, NEW t \in Threads, NEW batch \in Batches, Tokenize(t, batch)
    PROVE  FewestPasses'
<1> DEFINE ls == [i \in DOMAIN batch |-> Capped(batch[i])]
           gs == IF batch = <<>> THEN <<>> ELSE plan_subbatches(ls)
<1>1. /\ lens' = [lens EXCEPT ![t] = ls] /\ passes' = [passes EXCEPT ![t] = Len(gs)]
      /\ outcome' = [outcome EXCEPT ![t] = IF batch = <<>> THEN "ok" ELSE "running"]
  BY DEF Tokenize
<1>2. ls \in Seq(Nat)
  BY CappedLengths
<1>3. ASSUME batch # <<>>, RatioNum > RatioDen PROVE Len(gs) = Spread(ls)
  <2>1. gs = plan_subbatches(ls)
    BY <1>3
  <2> HIDE DEF ls, gs
  <2> QED
    BY <1>2, <1>3, <2>1, PlanLeast
<1> HIDE DEF ls, gs
<1> SUFFICES ASSUME NEW u \in Threads, RatioNum > RatioDen, outcome'[u] = "running"
             PROVE  passes'[u] = Spread(lens'[u])
  BY DEF FewestPasses
<1>4. CASE u = t
  <2>1. batch # <<>> /\ lens'[u] = ls /\ passes'[u] = Len(gs)
    BY <1>1, <1>4 DEF RowsInv
  <2> QED
    BY <1>3, <2>1
<1>5. CASE u # t
  <2>1. lens'[u] = lens[u] /\ passes'[u] = passes[u] /\ outcome[u] = "running"
    BY <1>1, <1>5 DEF RowsInv
  <2> QED
    BY <2>1 DEF FewestPasses
<1> QED
  BY <1>4, <1>5

\* Nothing changes the number of passes of a request in progress.
LEMMA NextLeast == RowsInv /\ FewestPasses /\ [EmbedNext]_embedVars => FewestPasses'
<1> SUFFICES ASSUME RowsInv, FewestPasses, [EmbedNext]_embedVars PROVE FewestPasses'
  OBVIOUS
<1>1. ASSUME lens' = lens, passes' = passes,
             \A u \in Threads : outcome'[u] = "running" => outcome[u] = "running"
      PROVE  FewestPasses'
  BY <1>1 DEF FewestPasses
<1>2. ASSUME NEW t \in Threads, TokenizeFails(t) \/ PassFails(t) \/ Acquiring(t) \/ EndPass(t)
      PROVE  FewestPasses'
  <2>1. lens' = lens /\ passes' = passes /\ \E o : outcome' = [outcome EXCEPT ![t] = o]
    BY <1>2 DEF TokenizeFails, PassFails, Acquiring, EndPass
  <2>2. outcome'[t] = "running" => outcome[t] = "running"
    <3>1. CASE TokenizeFails(t) \/ PassFails(t)
      BY <3>1 DEF TokenizeFails, PassFails, RowsInv
    <3>2. CASE Acquiring(t) \/ EndPass(t)
      BY <3>2 DEF Acquiring, EndPass
    <3> QED
      BY <1>2, <3>1, <3>2
  <2>3. \A u \in Threads : u # t => outcome'[u] = outcome[u]
    BY <2>1 DEF RowsInv
  <2> QED
    BY <1>1, <2>1, <2>2, <2>3
<1>3. CASE UNCHANGED requestVars
  BY <1>1, <1>3 DEF requestVars
<1>4. (\E t \in Threads : BeginPass(t)) \/ Background \/ UNCHANGED embedVars => UNCHANGED requestVars
  BY DEF BeginPass, Background, embedVars
<1> QED
  BY <1>2, <1>3, <1>4, TokenizeLeast DEF EmbedNext

\* Every request in progress runs exactly as many passes as the largest set of its texts
\* that must be kept apart: the greedy cut of plan_subbatches is optimal.
THEOREM PlanIsLeast == EmbedSpec => []FewestPasses
<1>1. EmbedInit => FewestPasses
  BY DEF EmbedInit, FewestPasses
<1> QED
  BY <1>1, InitRows, NextRows, NextLeast, PTL DEF EmbedSpec

==============================================================================
