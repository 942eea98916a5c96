----------------------------- MODULE WorkerProofs -----------------------------
(***************************************************************************)
(* Proofs about Worker and Ready, for every set of calls and clients, number   *)
(* of sessions and limit of waiters.  Every step of Ready is one of Worker or leaves the   *)
(* worker alone, so that what holds of Worker holds of both.                   *)
(***************************************************************************)
EXTENDS Ready, FiniteSetTheorems, SequenceTheorems, TLAPS

USE DEF clientVars, workerVars, vars

ClientStates == {"new", "queued", "sent", "ok", "err", "cancelled"}
ConnStates   == {"none", "read", "overflow", "rejected", "counted", "waiting", "granted",
                 "running", "answer", "closed"}

Counted == {"counted", "overflow", "waiting", "granted"}
Holding == {"granted", "running", "answer"}

TypeOK == /\ client  \in [Calls -> ClientStates]
          /\ conn    \in [Calls -> ConnStates]
          /\ reply   \in [Calls -> {"none", "ok", "err"}]
          /\ lane    \in [Clients -> Seq(Calls)]
          /\ queue   \in Seq(Calls)
          /\ waiters \in Nat
          /\ permits \in Nat

\* What waits in a lane or a queue is there once.
Distinct(s) == \A i, j \in DOMAIN s : s[i] = s[j] => i = j

\* A call in the lane of its client has not been sent, and what has not been sent has
\* no task.
LaneWaits == /\ \A k \in Clients :
                   /\ Distinct(lane[k])
                   /\ \A i \in DOMAIN lane[k] : client[lane[k][i]] = "queued" /\ ClientOf[lane[k][i]] = k
             /\ \A c \in Calls : client[c] \in {"new", "queued"} => conn[c] = "none"

QueueWaits == /\ Distinct(queue)
              /\ \A i \in DOMAIN queue : conn[queue[i]] = "waiting"

\* What is about to be written is there.
ReplyKnown == \A c \in Calls : conn[c] \in {"answer", "rejected"} => reply[c] \in {"ok", "err"}

\* A client's permits limit its connections.
LiveBounded == \A k \in Clients : Cardinality(Live(k)) <= PoolSize

Shape == TypeOK /\ LaneWaits /\ QueueWaits /\ ReplyKnown

IInv == Shape /\ LiveBounded /\ WaitersExact /\ PermitsConserved

(* ---------------------------------------------------------------------- *)
(* Sequences.                                                              *)

\* The first of a queue and the rest of it.
LEMMA HeadTail ==
  ASSUME NEW s \in Seq(Calls), s # <<>>, Distinct(s)
  PROVE  /\ Head(s) \in Calls /\ 1 \in DOMAIN s /\ Head(s) = s[1]
         /\ Tail(s) \in Seq(Calls) /\ Distinct(Tail(s))
         /\ \A i \in DOMAIN Tail(s) : i + 1 \in DOMAIN s /\ Tail(s)[i] = s[i + 1] /\ Tail(s)[i] # Head(s)
<1>1. /\ Len(s) \in Nat /\ Len(s) > 0 /\ DOMAIN s = 1..Len(s)
      /\ Head(s) = s[1] /\ Head(s) \in Calls
      /\ Tail(s) \in Seq(Calls) /\ DOMAIN Tail(s) = 1..(Len(s) - 1)
      /\ \A i \in 1..(Len(s) - 1) : Tail(s)[i] = s[i + 1]
  OBVIOUS
<1> QED
  BY <1>1 DEF Distinct

\* One more at the end of a queue.
LEMMA Appended ==
  ASSUME NEW s \in Seq(Calls), NEW c \in Calls, Distinct(s), \A i \in DOMAIN s : s[i] # c
  PROVE  /\ Append(s, c) \in Seq(Calls) /\ Distinct(Append(s, c))
         /\ \A i \in DOMAIN Append(s, c) : Append(s, c)[i] = c \/ \E j \in DOMAIN s : Append(s, c)[i] = s[j]
<1>1. /\ Len(s) \in Nat /\ DOMAIN s = 1..Len(s) /\ Append(s, c) \in Seq(Calls)
      /\ DOMAIN Append(s, c) = 1..(Len(s) + 1) /\ Append(s, c)[Len(s) + 1] = c
      /\ \A i \in 1..Len(s) : Append(s, c)[i] = s[i]
  OBVIOUS
<1> QED
  BY <1>1 DEF Distinct

\* One less, wherever it was.
LEMMA Removed ==
  ASSUME NEW s \in Seq(Calls), NEW c \in Calls, Distinct(s)
  PROVE  /\ RemoveFirst(s, c) \in Seq(Calls) /\ Distinct(RemoveFirst(s, c))
         /\ \A i \in DOMAIN RemoveFirst(s, c) :
                RemoveFirst(s, c)[i] # c /\ \E j \in DOMAIN s : RemoveFirst(s, c)[i] = s[j]
<1>1. CASE ~ \E i \in 1..Len(s) : s[i] = c
  <2>1. RemoveFirst(s, c) = s
    BY <1>1 DEF RemoveFirst
  <2> QED
    BY <1>1, <2>1
<1>2. CASE \E i \in 1..Len(s) : s[i] = c
  <2>1. PICK k \in 1..Len(s) : s[k] = c
    BY <1>2
  <2>2. Len(s) \in Nat /\ DOMAIN s = 1..Len(s)
    OBVIOUS
  <2>3. {i \in 1..Len(s) : s[i] = c} = {k}
    BY <2>1, <2>2 DEF Distinct
  <2>4. Min({k}) = k
    BY <2>1, <2>2 DEF Min
  <2>5. SelectInSeq(s, LAMBDA x : x = c) = k
    BY <2>3, <2>4 DEF SelectInSeq
  <2>6. RemoveFirst(s, c) = SubSeq(s, 1, k - 1) \o SubSeq(s, k + 1, Len(s))
    BY <1>2, <2>5 DEF RemoveFirst, RemoveAt
  <2> DEFINE t == RemoveFirst(s, c)
             u == SubSeq(s, 1, k - 1)
             v == SubSeq(s, k + 1, Len(s))
  <2>7. /\ u \in Seq(Calls) /\ Len(u) = k - 1
        /\ \A i \in 1..(k - 1) : u[i] = s[i]
    <3>1. \A i \in 1..(k - 1) : s[i] \in Calls
      BY <2>1, <2>2
    <3> QED
      BY <2>1, <2>2, <3>1, SubSeqProperties
  <2>8. /\ v \in Seq(Calls) /\ Len(v) = Len(s) - k
        /\ \A i \in 1..(Len(s) - k) : v[i] = s[k + i]
    <3>1. \A i \in (k + 1)..Len(s) : s[i] \in Calls
      BY <2>1, <2>2
    <3>2. k + 1 \in Int /\ Len(s) \in Int
      BY <2>1, <2>2
    <3> HIDE DEF v
    <3>3. /\ v \in Seq(Calls)
          /\ Len(v) = IF k + 1 <= Len(s) THEN Len(s) - (k + 1) + 1 ELSE 0
          /\ \A i \in 1..(Len(s) - (k + 1) + 1) : v[i] = s[(k + 1) + i - 1]
      BY <3>1, <3>2, SubSeqProperties DEF v
    <3>4. ASSUME NEW i \in 1..(Len(s) - k) PROVE v[i] = s[k + i]
      <4>1. i \in 1..(Len(s) - (k + 1) + 1) /\ (k + 1) + i - 1 = k + i
        BY <2>1, <2>2
      <4> QED
        BY <3>3, <4>1
    <3>5. (IF k + 1 <= Len(s) THEN Len(s) - (k + 1) + 1 ELSE 0) = Len(s) - k
      <4> DEFINE n == Len(s)
      <4>1. k \in Nat /\ n \in Nat /\ k <= n
        BY <2>1, <2>2
      <4> HIDE DEF n
      <4>2. (IF k + 1 <= n THEN n - (k + 1) + 1 ELSE 0) = n - k
        BY <4>1
      <4> QED
        BY <4>2 DEF n
    <3> QED
      BY <3>3, <3>4, <3>5
  <2>9. /\ t \in Seq(Calls) /\ DOMAIN t = 1..(Len(s) - 1)
        /\ \A i \in 1..(Len(s) - 1) : t[i] = IF i < k THEN s[i] ELSE s[i + 1]
    <3>1. t = u \o v
      BY <2>6
    <3> HIDE DEF t, u, v
    <3>2. /\ t \in Seq(Calls) /\ Len(t) = Len(u) + Len(v)
          /\ \A i \in 1..(Len(u) + Len(v)) : t[i] = IF i <= Len(u) THEN u[i] ELSE v[i - Len(u)]
      BY <2>7, <2>8, <3>1, ConcatProperties
    <3>3. DOMAIN t = 1..Len(t)
      BY <3>2
    <3>4. ASSUME NEW i \in 1..(Len(s) - 1) PROVE t[i] = IF i < k THEN s[i] ELSE s[i + 1]
      <4>1. t[i] = IF i <= k - 1 THEN u[i] ELSE v[i - (k - 1)]
        BY <2>1, <2>2, <2>7, <2>8, <3>2
      <4>2. CASE i < k
        BY <2>1, <2>2, <2>7, <4>1, <4>2
      <4>3. CASE ~(i < k)
        <5>1. i - (k - 1) \in 1..(Len(s) - k) /\ k + (i - (k - 1)) = i + 1
          BY <2>1, <2>2, <4>3
        <5>2. t[i] = v[i - (k - 1)]
          BY <2>1, <2>2, <4>1, <4>3
        <5>3. v[i - (k - 1)] = s[k + (i - (k - 1))]
          BY <2>8, <5>1
        <5> QED
          BY <4>3, <5>1, <5>2, <5>3
      <4> QED
        BY <4>2, <4>3
    <3> QED
      BY <2>1, <2>2, <2>7, <2>8, <3>2, <3>3, <3>4
  <2> HIDE DEF t, u, v
  <2>10. Distinct(t)
    <3>1. ASSUME NEW i \in 1..(Len(s) - 1), NEW j \in 1..(Len(s) - 1), t[i] = t[j] PROVE i = j
      <4> DEFINE a == IF i < k THEN i ELSE i + 1
                 b == IF j < k THEN j ELSE j + 1
      <4>1. a \in 1..Len(s) /\ b \in 1..Len(s) /\ (a = b => i = j)
        BY <2>1, <2>2
      <4>2. t[i] = s[a] /\ t[j] = s[b]
        BY <2>9
      <4> HIDE DEF a, b
      <4>3. a = b
        BY <2>2, <3>1, <4>1, <4>2 DEF Distinct
      <4> QED
        BY <4>1, <4>3
    <3> QED
      BY <2>9, <3>1 DEF Distinct
  <2>11. ASSUME NEW i \in DOMAIN t PROVE t[i] # c /\ \E j \in DOMAIN s : t[i] = s[j]
    <3>1. i \in 1..(Len(s) - 1)
      BY <2>9
    <3>2. \E j \in DOMAIN s : j # k /\ t[i] = s[j]
      <4>1. CASE i < k
        <5>1. i \in DOMAIN s /\ i # k /\ t[i] = s[i]
          BY <2>1, <2>2, <2>9, <3>1, <4>1
        <5> QED
          BY <5>1
      <4>2. CASE ~(i < k)
        <5>1. i + 1 \in DOMAIN s /\ i + 1 # k /\ t[i] = s[i + 1]
          BY <2>1, <2>2, <2>9, <3>1, <4>2
        <5> QED
          BY <5>1
      <4> QED
        BY <4>1, <4>2
    <3> QED
      BY <2>1, <2>2, <3>2 DEF Distinct
  <2> QED
    BY <2>9, <2>10, <2>11 DEF t
<1> QED
  BY <1>1, <1>2

(* ---------------------------------------------------------------------- *)
(* Counting.                                                               *)

\* What moving one task to another label does to a count of tasks.
LEMMA MoveCounts ==
  ASSUME TypeOK, NEW c \in Calls, NEW l \in ConnStates, Goto(c, l), NEW L
  PROVE  /\ Cardinality(In(L)) \in Nat /\ Cardinality(In(L)') \in Nat
         /\ Cardinality(In(L)') = Cardinality(In(L)) + (IF l \in L THEN 1 ELSE 0)
                                                    - (IF conn[c] \in L THEN 1 ELSE 0)
<1> DEFINE S == In(L) \ {c}
<1>1. IsFiniteSet(S) /\ IsFiniteSet(In(L)) /\ c \notin S
  BY FS_Subset, WorkerAssumption DEF In
<1>2. In(L) = IF conn[c] \in L THEN S \cup {c} ELSE S
  BY DEF In
<1>3. In(L)' = IF l \in L THEN S \cup {c} ELSE S
  BY DEF In, Goto, TypeOK
<1> HIDE DEF S
<1>4. Cardinality(S) \in Nat /\ Cardinality(S \cup {c}) = Cardinality(S) + 1
  BY <1>1, FS_CardinalityType, FS_AddElement
<1> QED
  BY <1>2, <1>3, <1>4

\* What changing the state of one call does to the number of live ones of a client.
LEMMA LiveMoves ==
  ASSUME TypeOK, NEW c \in Calls, NEW k \in Clients, NEW v \in ClientStates, client' = [client EXCEPT ![c] = v]
  PROVE  /\ Cardinality(Live(k)) \in Nat /\ Cardinality(Live(k)') \in Nat
         /\ Cardinality(Live(k)') <= Cardinality(Live(k)) + (IF v = "sent" /\ ClientOf[c] = k THEN 1 ELSE 0)
<1> DEFINE L == Live(k)
<1>1. IsFiniteSet(L)
  BY FS_Subset, WorkerAssumption DEF Live
<1>2. L' = IF v = "sent" /\ ClientOf[c] = k THEN L \cup {c} ELSE L \ {c}
  BY DEF Live, TypeOK
<1> HIDE DEF L
<1>3. /\ Cardinality(L) \in Nat
      /\ Cardinality(L \cup {c}) \in {Cardinality(L), Cardinality(L) + 1}
      /\ Cardinality(L \ {c}) \in {Cardinality(L), Cardinality(L) - 1}
      /\ Cardinality(L \ {c}) \in Nat
  BY <1>1, FS_CardinalityType, FS_AddElement, FS_RemoveElement
<1>4. /\ Cardinality(L) \in Nat /\ Cardinality(L') \in Nat
      /\ Cardinality(L') <= Cardinality(L) + (IF v = "sent" /\ ClientOf[c] = k THEN 1 ELSE 0)
  BY <1>2, <1>3
<1> QED
  BY <1>4 DEF L

(* ---------------------------------------------------------------------- *)
(* The invariant.                                                          *)

\* A worker that has just bound its socket.
LEMMA InitIInv == Init => IInv
<1> SUFFICES ASSUME Init PROVE IInv
  OBVIOUS
<1>1. Shape
  BY WorkerAssumption DEF Init, Shape, TypeOK, LaneWaits, QueueWaits, ReplyKnown, Distinct,
                          ClientStates, ConnStates
<1>2. (\A k \in Clients : Live(k) = {}) /\ In(Counted) = {} /\ In(Holding) = {}
  BY DEF Init, Live, In, Counted, Holding
<1>3. waiters = Cardinality(In(Counted)) /\ permits + Cardinality(In(Holding)) = PoolSize
  BY <1>2, FS_EmptySet, WorkerAssumption DEF Init
<1>4. LiveBounded
  BY <1>2, FS_EmptySet, WorkerAssumption DEF LiveBounded
<1> QED
  BY <1>1, <1>3, <1>4 DEF IInv, WaitersExact, PermitsConserved, Counted, Holding

\* What a step that moves one task owes to the counts.
LEMMA TaskKeeps ==
  ASSUME IInv, NEW c \in Calls, NEW l \in ConnStates, Goto(c, l), Shape', LiveBounded',
         waiters' = waiters + (IF l \in Counted THEN 1 ELSE 0) - (IF conn[c] \in Counted THEN 1 ELSE 0),
         permits' = permits - (IF l \in Holding THEN 1 ELSE 0) + (IF conn[c] \in Holding THEN 1 ELSE 0)
  PROVE  IInv'
<1>2. waiters = Cardinality(In(Counted)) /\ permits + Cardinality(In(Holding)) = PoolSize
  BY DEF IInv, WaitersExact, PermitsConserved, Counted, Holding
<1>3. waiters' = Cardinality(In(Counted)')
  <2>1. /\ Cardinality(In(Counted)) \in Nat
        /\ Cardinality(In(Counted)') =
             Cardinality(In(Counted)) + (IF l \in Counted THEN 1 ELSE 0) - (IF conn[c] \in Counted THEN 1 ELSE 0)
    BY MoveCounts DEF IInv, Shape
  <2> QED
    BY <1>2, <2>1
<1>4. permits' + Cardinality(In(Holding)') = PoolSize
  <2>1. /\ Cardinality(In(Holding)) \in Nat
        /\ Cardinality(In(Holding)') =
             Cardinality(In(Holding)) + (IF l \in Holding THEN 1 ELSE 0) - (IF conn[c] \in Holding THEN 1 ELSE 0)
    BY MoveCounts DEF IInv, Shape
  <2>2. permits \in Nat /\ PoolSize \in Nat
    BY WorkerAssumption DEF IInv, Shape, TypeOK
  <2> QED
    BY <1>2, <2>1, <2>2
<1>5. WaitersExact' /\ PermitsConserved'
  BY <1>3, <1>4 DEF WaitersExact, PermitsConserved, Counted, Holding
<1> QED
  BY <1>5 DEF IInv

\* A call that is not sent leaves the permits of its client in bounds, and one
\* that is sent had one to take.
LEMMA LiveStays ==
  ASSUME IInv, NEW c \in Calls, NEW v \in ClientStates, client' = [client EXCEPT ![c] = v],
         v # "sent" \/ CanSend(ClientOf[c])
  PROVE  LiveBounded'
<1> SUFFICES ASSUME NEW k \in Clients PROVE Cardinality(Live(k)') <= PoolSize
  BY DEF LiveBounded
<1>1. TypeOK
  BY DEF IInv, Shape
<1>2. /\ Cardinality(Live(k)) \in Nat /\ Cardinality(Live(k)') \in Nat
      /\ Cardinality(Live(k)') <= Cardinality(Live(k)) + (IF v = "sent" /\ ClientOf[c] = k THEN 1 ELSE 0)
  BY <1>1, LiveMoves
<1>3. PoolSize \in Nat /\ Cardinality(Live(k)) <= PoolSize
  BY WorkerAssumption DEF IInv, LiveBounded
<1>4. v = "sent" /\ ClientOf[c] = k => Cardinality(Live(k)) < PoolSize
  BY DEF CanSend
<1> QED
  BY <1>2, <1>3, <1>4

\* What is owed to the lanes by a step that changes one call and the lane of its client.
LEMMA LanesKept ==
  ASSUME Shape, NEW c \in Calls, NEW v \in ClientStates, client' = [client EXCEPT ![c] = v],
         NEW s \in Seq(Calls), Distinct(s), lane' = [lane EXCEPT ![ClientOf[c]] = s],
         \A i \in DOMAIN s : \/ s[i] # c /\ \E j \in DOMAIN lane[ClientOf[c]] : s[i] = lane[ClientOf[c]][j]
                             \/ s[i] = c /\ v = "queued",
         conn' = conn \/ Goto(c, "read"),
         v \in {"new", "queued"} => conn' = conn /\ conn[c] = "none"
  PROVE  LaneWaits'
<1>1. ClientOf \in [Calls -> Clients] /\ lane \in [Clients -> Seq(Calls)] /\ client \in [Calls -> ClientStates]
  BY WorkerAssumption DEF Shape, TypeOK
<1>2. ASSUME NEW k \in Clients, k # ClientOf[c]
      PROVE  Distinct(lane'[k]) /\ \A i \in DOMAIN lane'[k] : client'[lane'[k][i]] = "queued" /\ ClientOf[lane'[k][i]] = k
  <2>1. lane'[k] = lane[k]
    BY <1>1, <1>2
  <2>2. \A i \in DOMAIN lane[k] : lane[k][i] \in Calls /\ client[lane[k][i]] = "queued" /\ ClientOf[lane[k][i]] = k
    BY <1>1 DEF Shape, LaneWaits
  <2>3. \A i \in DOMAIN lane[k] : lane[k][i] # c
    BY <1>2, <2>2
  <2> QED
    BY <1>1, <2>1, <2>2, <2>3 DEF Shape, LaneWaits
<1>3. ASSUME NEW k \in Clients, k = ClientOf[c]
      PROVE  Distinct(lane'[k]) /\ \A i \in DOMAIN lane'[k] : client'[lane'[k][i]] = "queued" /\ ClientOf[lane'[k][i]] = k
  <2>1. lane'[k] = s
    BY <1>1, <1>3
  <2>2. \A j \in DOMAIN lane[k] : lane[k][j] \in Calls /\ client[lane[k][j]] = "queued" /\ ClientOf[lane[k][j]] = k
    BY <1>1 DEF Shape, LaneWaits
  <2>3. ASSUME NEW i \in DOMAIN s PROVE client'[s[i]] = "queued" /\ ClientOf[s[i]] = k
    <3>1. CASE s[i] = c /\ v = "queued"
      BY <1>1, <1>3, <3>1
    <3>2. CASE s[i] # c
      <4>1. PICK j \in DOMAIN lane[k] : s[i] = lane[k][j]
        BY <1>3, <3>2
      <4> QED
        BY <1>1, <2>2, <3>2, <4>1
    <3> QED
      BY <3>1, <3>2
  <2> QED
    BY <2>1, <2>3
<1>4. \A d \in Calls : client'[d] \in {"new", "queued"} => conn'[d] = "none"
  BY <1>1 DEF Shape, TypeOK, LaneWaits, Goto
<1> QED
  BY <1>2, <1>3, <1>4 DEF LaneWaits

\* A caller queues for a permit of its client.
LEMMA CallIInv == ASSUME IInv, NEW c \in Calls, Call(c) PROVE IInv'
<1> DEFINE k == ClientOf[c]
           s == Append(lane[k], c)
<1>0. k \in Clients /\ lane[k] \in Seq(Calls) /\ Distinct(lane[k])
  BY WorkerAssumption DEF IInv, Shape, TypeOK, LaneWaits
<1>1. /\ client[c] = "new" /\ client' = [client EXCEPT ![c] = "queued"] /\ lane' = [lane EXCEPT ![k] = s]
      /\ UNCHANGED workerVars
  BY DEF Call
<1>2. \A i \in DOMAIN lane[k] : lane[k][i] # c
  BY <1>0, <1>1 DEF IInv, Shape, LaneWaits
<1>3. /\ s \in Seq(Calls) /\ Distinct(s)
      /\ \A i \in DOMAIN s : s[i] = c \/ \E j \in DOMAIN lane[k] : s[i] = lane[k][j]
  BY <1>0, <1>2, Appended
<1>8. \A i \in DOMAIN s : (s[i] # c /\ \E j \in DOMAIN lane[k] : s[i] = lane[k][j]) \/ s[i] = c
  BY <1>3
<1>9. conn[c] = "none"
  BY <1>1 DEF IInv, Shape, LaneWaits
<1> HIDE DEF s
<1>4. TypeOK'
  BY <1>1, <1>3 DEF IInv, Shape, TypeOK, ClientStates
<1>5. LaneWaits'
  BY <1>0, <1>1, <1>3, <1>8, <1>9, LanesKept DEF IInv, ClientStates
<1>6. QueueWaits' /\ ReplyKnown'
  BY <1>1 DEF IInv, Shape, QueueWaits, ReplyKnown
<1>7. LiveBounded'
  BY <1>1, LiveStays DEF ClientStates
<1> QED
  BY <1>1, <1>4, <1>5, <1>6, <1>7 DEF IInv, Shape, WaitersExact, PermitsConserved, In

\* The call that is next leaves the lane of its client.
LEMMA LaneShrinks ==
  ASSUME Shape, NEW c \in Calls, IsNext(c), lane' = [lane EXCEPT ![ClientOf[c]] = Tail(@)],
         NEW v \in {"sent", "err"}, client' = [client EXCEPT ![c] = v],
         conn' = conn \/ Goto(c, "read")
  PROVE  lane' \in [Clients -> Seq(Calls)] /\ LaneWaits' /\ client[c] = "queued"
<1> DEFINE k == ClientOf[c]
           s == Tail(lane[k])
<1>0. /\ k \in Clients /\ lane \in [Clients -> Seq(Calls)] /\ Distinct(lane[k]) /\ lane[k] \in Seq(Calls)
      /\ lane[k] # <<>> /\ c = Head(lane[k])
  <2>1. k \in Clients
    BY WorkerAssumption
  <2>2. lane \in [Clients -> Seq(Calls)] /\ \A x \in Clients : Distinct(lane[x])
    BY DEF Shape, TypeOK, LaneWaits
  <2>3. lane[k] # <<>> /\ c = Head(lane[k])
    BY DEF IsNext
  <2> HIDE DEF k
  <2> QED
    BY <2>1, <2>2, <2>3
<1>5. lane' = [lane EXCEPT ![k] = s]
  OBVIOUS
<1>1. /\ 1 \in DOMAIN lane[k] /\ c = lane[k][1] /\ s \in Seq(Calls) /\ Distinct(s)
      /\ \A i \in DOMAIN s : i + 1 \in DOMAIN lane[k] /\ s[i] = lane[k][i + 1] /\ s[i] # c
  BY <1>0, HeadTail
<1> HIDE DEF s
<1>2. client[c] = "queued" /\ conn[c] = "none"
  BY <1>0, <1>1 DEF Shape, LaneWaits
<1>3. \A i \in DOMAIN s : s[i] # c /\ \E j \in DOMAIN lane[k] : s[i] = lane[k][j]
  BY <1>1
<1>4. LaneWaits'
  <2>1. v \in ClientStates /\ v \notin {"new", "queued"}
    BY DEF ClientStates
  <2>2. /\ s \in Seq(Calls) /\ Distinct(s) /\ lane' = [lane EXCEPT ![ClientOf[c]] = s]
        /\ \A i \in DOMAIN s : s[i] # c /\ \E j \in DOMAIN lane[ClientOf[c]] : s[i] = lane[ClientOf[c]][j]
    BY <1>1, <1>3, <1>5
  <2>3. \A i \in DOMAIN s : \/ s[i] # c /\ \E j \in DOMAIN lane[ClientOf[c]] : s[i] = lane[ClientOf[c]][j]
                            \/ s[i] = c /\ v = "queued"
    BY <2>2
  <2>4. v \in {"new", "queued"} => conn' = conn /\ conn[c] = "none"
    BY <2>1
  <2> HIDE DEF k
  <2> QED
    BY <2>1, <2>2, <2>3, <2>4, LanesKept, Zenon
<1> QED
  BY <1>0, <1>1, <1>2, <1>4, <1>5

\* The first of the lane gets a permit and sends.
LEMMA SendIInv == ASSUME IInv, NEW c \in Calls, Send(c) PROVE IInv'
<1>1. /\ IsNext(c) /\ lane' = [lane EXCEPT ![ClientOf[c]] = Tail(@)] /\ CanSend(ClientOf[c])
      /\ client' = [client EXCEPT ![c] = "sent"] /\ Goto(c, "read")
      /\ UNCHANGED <<reply, waiters, permits, queue>>
  BY DEF Send, Goto, IsNext
<1>2. lane' \in [Clients -> Seq(Calls)] /\ LaneWaits' /\ client[c] = "queued"
  BY <1>1, LaneShrinks DEF IInv
<1>3. conn[c] = "none"
  BY <1>2 DEF IInv, Shape, LaneWaits
<1>4. TypeOK'
  BY <1>1, <1>2 DEF IInv, Shape, TypeOK, Goto, ClientStates, ConnStates
<1>5. QueueWaits' /\ ReplyKnown'
  BY <1>1, <1>3 DEF IInv, Shape, TypeOK, QueueWaits, ReplyKnown, Goto
<1>6. LiveBounded'
  BY <1>1, LiveStays DEF ClientStates
<1> QED
  <2>1. "read" \in ConnStates /\ Shape' /\ permits \in Nat /\ waiters \in Nat
    BY <1>2, <1>4, <1>5 DEF IInv, Shape, TypeOK, ConnStates
  <2>2. "read" \notin Counted /\ "read" \notin Holding /\ conn[c] \notin Counted /\ conn[c] \notin Holding
    BY <1>3 DEF Counted, Holding
  <2> QED
    BY <1>1, <1>6, <2>1, <2>2, TaskKeeps

\* A frame that cannot be sent.
LEMMA SendFailsIInv == ASSUME IInv, NEW c \in Calls, SendFails(c) PROVE IInv'
<1>1. /\ IsNext(c) /\ lane' = [lane EXCEPT ![ClientOf[c]] = Tail(@)]
      /\ client' = [client EXCEPT ![c] = "err"] /\ UNCHANGED workerVars
  BY DEF SendFails
<1>2. lane' \in [Clients -> Seq(Calls)] /\ LaneWaits'
  BY <1>1, LaneShrinks DEF IInv
<1>3. TypeOK'
  BY <1>1, <1>2 DEF IInv, Shape, TypeOK, ClientStates
<1>4. QueueWaits' /\ ReplyKnown'
  BY <1>1 DEF IInv, Shape, QueueWaits, ReplyKnown
<1>5. LiveBounded'
  BY <1>1, LiveStays DEF ClientStates
<1> QED
  BY <1>1, <1>2, <1>3, <1>4, <1>5 DEF IInv, Shape, WaitersExact, PermitsConserved, In

\* The caller gives up, in the lane or later.
LEMMA CancelIInv == ASSUME IInv, NEW c \in Calls, Cancel(c) PROVE IInv'
<1> DEFINE k == ClientOf[c]
           s == RemoveFirst(lane[k], c)
<1>0. k \in Clients /\ lane[k] \in Seq(Calls) /\ Distinct(lane[k])
  BY WorkerAssumption DEF IInv, Shape, TypeOK, LaneWaits
<1>1. /\ client[c] \in {"queued", "sent"} /\ client' = [client EXCEPT ![c] = "cancelled"]
      /\ lane' = [lane EXCEPT ![k] = s] /\ UNCHANGED workerVars
  BY DEF Cancel
<1>2. /\ s \in Seq(Calls) /\ Distinct(s)
      /\ \A i \in DOMAIN s : s[i] # c /\ \E j \in DOMAIN lane[k] : s[i] = lane[k][j]
  BY <1>0, Removed
<1> HIDE DEF s
<1>3. TypeOK'
  BY <1>1, <1>2 DEF IInv, Shape, TypeOK, ClientStates
<1>4. LaneWaits'
  BY <1>0, <1>1, <1>2, LanesKept DEF IInv, ClientStates
<1>5. QueueWaits' /\ ReplyKnown'
  BY <1>1 DEF IInv, Shape, QueueWaits, ReplyKnown
<1>6. LiveBounded'
  BY <1>1, LiveStays DEF ClientStates
<1> QED
  BY <1>1, <1>3, <1>4, <1>5, <1>6 DEF IInv, Shape, WaitersExact, PermitsConserved, In

(* ---------------------------------------------------------------------- *)
(* The task of a connection.                                               *)

\* The requests that are counted make WAITERS positive, so it does not wrap.
LEMMA CountedPositive == ASSUME IInv, NEW c \in Calls, conn[c] \in Counted PROVE waiters \in Nat /\ waiters > 0
<1>1. c \in In(Counted) /\ IsFiniteSet(In(Counted))
  BY FS_Subset, WorkerAssumption DEF In
<1>2. Cardinality(In(Counted)) \in Nat /\ Cardinality(In(Counted)) # 0
  BY <1>1, FS_CardinalityType, FS_EmptySet
<1>3. waiters = Cardinality(In(Counted))
  BY DEF IInv, WaitersExact, Counted
<1> QED
  BY <1>2, <1>3

\* What a step of a task leaves alone, and what it owes to the queue.
LEMMA TaskIInv ==
  ASSUME IInv, NEW c \in Calls, conn[c] # "none", NEW l \in ConnStates, Goto(c, l), lane' = lane,
         client' = client \/ \E v \in {"ok", "err"} : client[c] = "sent" /\ client' = [client EXCEPT ![c] = v],
         reply' \in [Calls -> {"none", "ok", "err"}], \A d \in Calls : d # c => reply'[d] = reply[d],
         l \in {"answer", "rejected"} => reply'[c] \in {"ok", "err"},
         queue' \in Seq(Calls), Distinct(queue'), \A i \in DOMAIN queue' : conn'[queue'[i]] = "waiting",
         waiters' \in Nat, permits' \in Nat,
         waiters' = waiters + (IF l \in Counted THEN 1 ELSE 0) - (IF conn[c] \in Counted THEN 1 ELSE 0),
         permits' = permits - (IF l \in Holding THEN 1 ELSE 0) + (IF conn[c] \in Holding THEN 1 ELSE 0)
  PROVE  IInv'
<1>1. client' \in [Calls -> ClientStates] /\ \A d \in Calls : client'[d] # client[d] => client[d] = "sent" /\ client'[d] \in {"ok", "err"}
  <2>1. client \in [Calls -> ClientStates] /\ {"ok", "err"} \subseteq ClientStates
    BY DEF IInv, Shape, TypeOK, ClientStates
  <2>2. CASE client' = client
    BY <2>1, <2>2
  <2>3. CASE client' # client
    <3>1. PICK v \in {"ok", "err"} : client[c] = "sent" /\ client' = [client EXCEPT ![c] = v]
      BY <2>3
    <3> QED
      BY <2>1, <3>1
  <2> QED
    BY <2>2, <2>3
<1>2. TypeOK'
  BY <1>1 DEF IInv, Shape, TypeOK, Goto
<1>3. LaneWaits'
  <2>1. \A k \in Clients : \A i \in DOMAIN lane[k] : lane[k][i] \in Calls
    BY DEF IInv, Shape, TypeOK
  <2>2. \A k \in Clients : \A i \in DOMAIN lane[k] : client'[lane[k][i]] = "queued"
    BY <1>1, <2>1 DEF IInv, Shape, LaneWaits
  <2>3. client[c] \notin {"new", "queued"}
    BY DEF IInv, Shape, LaneWaits
  <2>4. \A d \in Calls : client'[d] \in {"new", "queued"} => conn'[d] = "none"
    BY <1>1, <2>3 DEF IInv, Shape, TypeOK, LaneWaits, Goto
  <2> QED
    BY <2>2, <2>4 DEF IInv, Shape, LaneWaits
<1>4. QueueWaits' /\ ReplyKnown'
  BY DEF IInv, Shape, TypeOK, QueueWaits, ReplyKnown, Goto
<1>5. LiveBounded'
  <2>1. CASE client' = client
    BY <2>1 DEF IInv, LiveBounded, Live
  <2>2. CASE client' # client
    <3>1. PICK v \in {"ok", "err"} : client' = [client EXCEPT ![c] = v]
      BY <2>2
    <3> QED
      BY <3>1, LiveStays DEF ClientStates
  <2> QED
    BY <2>1, <2>2
<1>6. Shape'
  BY <1>2, <1>3, <1>4 DEF Shape
<1> QED
  BY <1>5, <1>6, TaskKeeps

\* A task that does not wait is not in the queue.
LEMMA QueueStays ==
  ASSUME IInv, NEW c \in Calls, conn[c] # "waiting", NEW l \in ConnStates, Goto(c, l), queue' = queue
  PROVE  queue' \in Seq(Calls) /\ Distinct(queue') /\ \A i \in DOMAIN queue' : conn'[queue'[i]] = "waiting"
<1>1. \A i \in DOMAIN queue : queue[i] \in Calls /\ queue[i] # c
  BY DEF IInv, Shape, TypeOK, QueueWaits
<1> QED
  BY <1>1 DEF IInv, Shape, TypeOK, QueueWaits, Goto

\* The client has closed the connection, before its frame or after its answer.
LEMMA HangupIInv == ASSUME IInv, NEW c \in Calls, Hangup(c) PROVE IInv'
<1>1. conn[c] = "read" /\ Goto(c, "closed") /\ UNCHANGED <<clientVars, reply, waiters, permits, queue>>
  BY DEF Hangup
<1>2. "closed" \in ConnStates /\ "closed" \notin Counted \cup Holding /\ conn[c] \notin Counted \cup Holding
  BY <1>1 DEF ConnStates, Counted, Holding
<1>3. waiters \in Nat /\ permits \in Nat /\ reply \in [Calls -> {"none", "ok", "err"}]
  BY DEF IInv, Shape, TypeOK
<1>4. queue' \in Seq(Calls) /\ Distinct(queue') /\ \A i \in DOMAIN queue' : conn'[queue'[i]] = "waiting"
  BY <1>1, <1>2, QueueStays
<1> QED
  BY <1>1, <1>2, <1>3, <1>4, TaskIInv

\* The request is counted.
LEMMA FetchAddIInv == ASSUME IInv, NEW c \in Calls, FetchAdd(c) PROVE IInv'
<1>1. PICK l \in {"overflow", "counted"} :
          conn[c] = "read" /\ Goto(c, l) /\ waiters' = waiters + 1 /\ UNCHANGED <<clientVars, reply, permits, queue>>
  BY DEF FetchAdd
<1>2. l \in ConnStates /\ l \in Counted /\ l \notin Holding /\ conn[c] \notin Counted \cup Holding
  BY <1>1 DEF ConnStates, Counted, Holding
<1>3. waiters \in Nat /\ permits \in Nat /\ reply \in [Calls -> {"none", "ok", "err"}]
  BY DEF IInv, Shape, TypeOK
<1>4. queue' \in Seq(Calls) /\ Distinct(queue') /\ \A i \in DOMAIN queue' : conn'[queue'[i]] = "waiting"
  BY <1>1, <1>2, QueueStays
<1>5. l \notin {"answer", "rejected"}
  BY <1>1
<1> QED
  BY <1>1, <1>2, <1>3, <1>4, <1>5, TaskIInv

\* It is turned away and no longer counted.
LEMMA RejectIInv == ASSUME IInv, NEW c \in Calls, Reject(c) PROVE IInv'
<1>1. /\ conn[c] = "overflow" /\ Goto(c, "rejected") /\ waiters' = waiters - 1
      /\ reply' = [reply EXCEPT ![c] = "err"] /\ UNCHANGED <<clientVars, permits, queue>>
  BY DEF Reject
<1>2. "rejected" \in ConnStates /\ "rejected" \notin Counted \cup Holding /\ conn[c] \in Counted /\ conn[c] \notin Holding
  BY <1>1 DEF ConnStates, Counted, Holding
<1>3. waiters \in Nat /\ waiters > 0
  BY <1>2, CountedPositive
<1>4. permits \in Nat /\ reply' \in [Calls -> {"none", "ok", "err"}] /\ reply'[c] = "err" /\ \A d \in Calls : d # c => reply'[d] = reply[d]
  BY <1>1 DEF IInv, Shape, TypeOK
<1>5. queue' \in Seq(Calls) /\ Distinct(queue') /\ \A i \in DOMAIN queue' : conn'[queue'[i]] = "waiting"
  BY <1>1, <1>2, QueueStays
<1> QED
  BY <1>1, <1>2, <1>3, <1>4, <1>5, TaskIInv

\* It waits for a permit of the worker.
LEMMA EnqueueIInv == ASSUME IInv, NEW c \in Calls, Enqueue(c) PROVE IInv'
<1>1. /\ conn[c] = "counted" /\ Goto(c, "waiting") /\ queue' = Append(queue, c)
      /\ UNCHANGED <<clientVars, reply, waiters, permits>>
  BY DEF Enqueue
<1>2. "waiting" \in ConnStates /\ "waiting" \in Counted /\ "waiting" \notin Holding /\ conn[c] \in Counted /\ conn[c] \notin Holding
  BY <1>1 DEF ConnStates, Counted, Holding
<1>3. waiters \in Nat /\ permits \in Nat /\ reply \in [Calls -> {"none", "ok", "err"}] /\ conn'[c] = "waiting"
  BY <1>1 DEF IInv, Shape, TypeOK, Goto
<1>4. \A i \in DOMAIN queue : queue[i] # c /\ queue[i] \in Calls /\ conn'[queue[i]] = "waiting"
  BY <1>1 DEF IInv, Shape, TypeOK, QueueWaits, Goto
<1>5. /\ queue' \in Seq(Calls) /\ Distinct(queue')
      /\ \A i \in DOMAIN queue' : queue'[i] = c \/ \E j \in DOMAIN queue : queue'[i] = queue[j]
  BY <1>1, <1>4, Appended DEF IInv, Shape, TypeOK, QueueWaits
<1>6. \A i \in DOMAIN queue' : conn'[queue'[i]] = "waiting"
  BY <1>3, <1>4, <1>5
<1> QED
  BY <1>1, <1>2, <1>3, <1>5, <1>6, TaskIInv

\* The first of the queue gets one.
LEMMA AcquireIInv == ASSUME IInv, NEW c \in Calls, Acquire(c) PROVE IInv'
<1>1. /\ queue # <<>> /\ c = Head(queue) /\ permits > 0 /\ permits' = permits - 1 /\ Goto(c, "granted")
      /\ queue' = Tail(queue) /\ UNCHANGED <<clientVars, reply, waiters>>
  BY DEF Acquire
<1>2. /\ 1 \in DOMAIN queue /\ c = queue[1] /\ queue' \in Seq(Calls) /\ Distinct(queue')
      /\ \A i \in DOMAIN queue' : i + 1 \in DOMAIN queue /\ queue'[i] = queue[i + 1] /\ queue'[i] # c
  BY <1>1, HeadTail DEF IInv, Shape, TypeOK, QueueWaits
<1>3. conn[c] = "waiting"
  BY <1>2 DEF IInv, Shape, QueueWaits
<1>4. "granted" \in ConnStates /\ "granted" \in Counted /\ "granted" \in Holding /\ conn[c] \in Counted /\ conn[c] \notin Holding
  BY <1>3 DEF ConnStates, Counted, Holding
<1>5. waiters \in Nat /\ permits \in Nat /\ permits - 1 \in Nat /\ reply \in [Calls -> {"none", "ok", "err"}]
  BY <1>1 DEF IInv, Shape, TypeOK
<1>6. \A i \in DOMAIN queue' : queue'[i] \in Calls /\ conn[queue'[i]] = "waiting"
  BY <1>2 DEF IInv, Shape, QueueWaits
<1>7. \A i \in DOMAIN queue' : conn'[queue'[i]] = "waiting"
  BY <1>1, <1>2, <1>6 DEF IInv, Shape, TypeOK, Goto
<1> QED
  BY <1>1, <1>2, <1>3, <1>4, <1>5, <1>7, TaskIInv

\* It no longer waits.
LEMMA FetchSubIInv == ASSUME IInv, NEW c \in Calls, FetchSub(c) PROVE IInv'
<1>1. /\ conn[c] = "granted" /\ Goto(c, "running") /\ waiters' = waiters - 1
      /\ UNCHANGED <<clientVars, reply, permits, queue>>
  BY DEF FetchSub
<1>2. "running" \in ConnStates /\ "running" \notin Counted /\ "running" \in Holding /\ conn[c] \in Counted /\ conn[c] \in Holding
  BY <1>1 DEF ConnStates, Counted, Holding
<1>3. waiters \in Nat /\ waiters > 0
  BY <1>2, CountedPositive
<1>4. permits \in Nat /\ reply \in [Calls -> {"none", "ok", "err"}]
  BY DEF IInv, Shape, TypeOK
<1>5. queue' \in Seq(Calls) /\ Distinct(queue') /\ \A i \in DOMAIN queue' : conn'[queue'[i]] = "waiting"
  BY <1>1, <1>2, QueueStays
<1> QED
  BY <1>1, <1>2, <1>3, <1>4, <1>5, TaskIInv

\* The inference ends.
LEMMA InferIInv == ASSUME IInv, NEW c \in Calls, Infer(c) PROVE IInv'
<1>1. PICK v \in {"ok", "err"} :
        /\ conn[c] = "running" /\ Goto(c, "answer") /\ reply' = [reply EXCEPT ![c] = v]
        /\ UNCHANGED <<clientVars, waiters, permits, queue>>
  BY DEF Infer
<1>2. "answer" \in ConnStates /\ "answer" \notin Counted /\ "answer" \in Holding /\ conn[c] \notin Counted /\ conn[c] \in Holding
  BY <1>1 DEF ConnStates, Counted, Holding
<1>3. /\ waiters \in Nat /\ permits \in Nat /\ reply' \in [Calls -> {"none", "ok", "err"}]
      /\ reply'[c] \in {"ok", "err"} /\ \A d \in Calls : d # c => reply'[d] = reply[d]
  BY <1>1 DEF IInv, Shape, TypeOK
<1>4. queue' \in Seq(Calls) /\ Distinct(queue') /\ \A i \in DOMAIN queue' : conn'[queue'[i]] = "waiting"
  BY <1>1, <1>2, QueueStays
<1> QED
  BY <1>1, <1>2, <1>3, <1>4, TaskIInv

\* The answer is written and the permit comes back.
LEMMA WriteIInv == ASSUME IInv, NEW c \in Calls, Write(c) PROVE IInv'
<1>1. PICK l \in {"read", "closed"} :
        /\ conn[c] \in {"answer", "rejected"} /\ client' = Delivered(c) /\ Goto(c, l)
        /\ permits' = (IF conn[c] = "answer" THEN permits + 1 ELSE permits)
        /\ UNCHANGED <<lane, reply, waiters, queue>>
  BY DEF Write
<1>2. l \in ConnStates /\ l \notin Counted /\ l \notin Holding /\ conn[c] \notin Counted /\ (conn[c] \in Holding <=> conn[c] = "answer")
  BY <1>1 DEF ConnStates, Counted, Holding
<1>3. waiters \in Nat /\ permits \in Nat /\ permits + 1 \in Nat /\ reply \in [Calls -> {"none", "ok", "err"}]
  BY DEF IInv, Shape, TypeOK
<1>4. queue' \in Seq(Calls) /\ Distinct(queue') /\ \A i \in DOMAIN queue' : conn'[queue'[i]] = "waiting"
  BY <1>1, <1>2, QueueStays
<1>5. client' = client \/ \E v \in {"ok", "err"} : client[c] = "sent" /\ client' = [client EXCEPT ![c] = v]
  BY <1>1 DEF IInv, Shape, ReplyKnown, Delivered
<1>6. l \notin {"answer", "rejected"} /\ conn[c] # "none"
  BY <1>1
<1>7. permits' = permits - (IF l \in Holding THEN 1 ELSE 0) + (IF conn[c] \in Holding THEN 1 ELSE 0) /\ permits' \in Nat
  BY <1>1, <1>2, <1>3
<1> QED
  BY <1>1, <1>2, <1>3, <1>4, <1>5, <1>6, <1>7, TaskIInv

\* So it does when nobody reads the answer.
LEMMA WriteFailsIInv == ASSUME IInv, NEW c \in Calls, WriteFails(c) PROVE IInv'
<1>1. /\ conn[c] = "answer" /\ Goto(c, "closed") /\ permits' = permits + 1
      /\ client' = IF client[c] = "sent" THEN [client EXCEPT ![c] = "err"] ELSE client
      /\ UNCHANGED <<lane, reply, waiters, queue>>
  BY DEF WriteFails
<1>2. "closed" \in ConnStates /\ "closed" \notin Counted \cup Holding /\ conn[c] \notin Counted /\ conn[c] \in Holding
  BY <1>1 DEF ConnStates, Counted, Holding
<1>3. waiters \in Nat /\ permits \in Nat /\ permits + 1 \in Nat /\ reply \in [Calls -> {"none", "ok", "err"}]
  BY DEF IInv, Shape, TypeOK
<1>4. queue' \in Seq(Calls) /\ Distinct(queue') /\ \A i \in DOMAIN queue' : conn'[queue'[i]] = "waiting"
  BY <1>1, <1>2, QueueStays
<1>5. client' = client \/ \E v \in {"ok", "err"} : client[c] = "sent" /\ client' = [client EXCEPT ![c] = v]
  BY <1>1
<1>6. permits' = permits - (IF "closed" \in Holding THEN 1 ELSE 0) + (IF conn[c] \in Holding THEN 1 ELSE 0) /\ permits' \in Nat
  BY <1>1, <1>2, <1>3
<1>7. waiters' = waiters + (IF "closed" \in Counted THEN 1 ELSE 0) - (IF conn[c] \in Counted THEN 1 ELSE 0)
  BY <1>1, <1>2, <1>3
<1>8. conn[c] # "none" /\ lane' = lane /\ reply' = reply /\ waiters' = waiters
  BY <1>1
<1> QED
  BY <1>1, <1>2, <1>3, <1>4, <1>5, <1>6, <1>7, <1>8, TaskIInv

\* The invariant is inductive.
LEMMA NextIInv == IInv /\ [Next]_vars => IInv'
<1> SUFFICES ASSUME IInv, [Next]_vars PROVE IInv'
  OBVIOUS
<1>1. CASE UNCHANGED vars
  BY <1>1 DEF IInv, Shape, TypeOK, LaneWaits, QueueWaits, ReplyKnown, LiveBounded, Live,
              WaitersExact, PermitsConserved, In
<1>2. CASE Next
  <2>1. PICK c \in Calls : Call(c) \/ Send(c) \/ SendFails(c) \/ Cancel(c) \/ Task(c)
    BY <1>2 DEF Next
  <2>2. CASE Task(c)
    BY <2>2, HangupIInv, FetchAddIInv, RejectIInv, EnqueueIInv, AcquireIInv, FetchSubIInv, InferIInv,
       WriteIInv, WriteFailsIInv DEF Task
  <2> QED
    BY <2>1, <2>2, CallIInv, SendIInv, SendFailsIInv, CancelIInv
<1> QED
  BY <1>1, <1>2

(* ---------------------------------------------------------------------- *)
(* The worker.                                                             *)

\* The invariant of the worker, whatever its callers and its model do.
THEOREM WorkerInvariant == Spec => []IInv
BY InitIInv, NextIInv, PTL DEF Spec

\* bin/worker.rs: WAITERS counts exactly the requests that wait or are about to be
\* turned away, for every number of calls, sessions and limit of waiters.
THEOREM WorkerWaiters == Spec => []WaitersExact
<1>1. IInv => WaitersExact
  BY DEF IInv
<1> QED
  BY <1>1, WorkerInvariant, PTL

\* bin/worker.rs: no permit of the semaphore is lost or given back twice, through
\* failed writes and abandoned calls.
THEOREM WorkerPermits == Spec => []PermitsConserved
<1>1. IInv => PermitsConserved
  BY DEF IInv
<1> QED
  BY <1>1, WorkerInvariant, PTL

\* Only the count of waiters turns a request away.
LEMMA OnlyFetchAddOverflows ==
  ASSUME IInv, [Next]_vars, NEW c \in Calls, conn[c] = "read", conn'[c] = "overflow"
  PROVE  waiters >= max_waiters
<1>1. PICK d \in Calls : Call(d) \/ Send(d) \/ SendFails(d) \/ Cancel(d) \/ Task(d)
  BY DEF Next
<1>2. \A l \in ConnStates : Goto(d, l) /\ l # "overflow" => conn'[c] # "overflow"
  BY DEF IInv, Shape, TypeOK, Goto
<1>3. /\ "read" \in ConnStates /\ "closed" \in ConnStates /\ "rejected" \in ConnStates
      /\ "waiting" \in ConnStates /\ "granted" \in ConnStates /\ "running" \in ConnStates
      /\ "answer" \in ConnStates /\ "counted" \in ConnStates
  BY DEF ConnStates
<1>4. CASE Call(d) \/ SendFails(d) \/ Cancel(d)
  BY <1>4 DEF Call, SendFails, Cancel
<1>5. CASE Send(d)
  BY <1>2, <1>3, <1>5 DEF Send, Goto
<1>6. CASE Task(d)
  <2>1. CASE FetchAdd(d)
    <3>1. Overflows \/ Goto(d, "counted")
      BY <2>1 DEF FetchAdd
    <3> QED
      BY <1>2, <1>3, <3>1 DEF Overflows
  <2>2. CASE Hangup(d) \/ Reject(d) \/ Enqueue(d) \/ Acquire(d) \/ FetchSub(d) \/ Infer(d)
    BY <1>2, <1>3, <2>2 DEF Hangup, Reject, Enqueue, Acquire, FetchSub, Infer
  <2>3. CASE Write(d) \/ WriteFails(d)
    <3>1. Goto(d, "read") \/ Goto(d, "closed")
      BY <2>3 DEF Write, WriteFails
    <3> QED
      BY <1>2, <1>3, <3>1
  <2> QED
    BY <1>6, <2>1, <2>2, <2>3 DEF Task
<1> QED
  BY <1>1, <1>4, <1>5, <1>6

\* The limit is a number, whatever the variables.
LEMMA MaxWaitersType == max_waiters \in Nat
<1>1. PoolSize \in Nat /\ formula_default \in Nat
  BY WorkerAssumption DEF formula_default, WAITERS_POOL_MULTIPLIER, WAITERS_FLOOR
<1> QED
  BY <1>1, WorkerAssumption DEF max_waiters, Usable

\* Whoever sees the queue full has counted the live calls of its client and more.
LEMMA OverflowStep ==
  ASSUME IInv, [Next]_vars
  PROVE  \A c \in Calls :
            client[c] = "sent" /\ conn[c] = "read" /\ conn'[c] = "overflow" =>
              Cardinality(In({"counted", "overflow", "waiting", "granted"}) \ Live(ClientOf[c])) + PoolSize > max_waiters
<1> SUFFICES ASSUME NEW c \in Calls, client[c] = "sent", conn[c] = "read", conn'[c] = "overflow"
             PROVE  Cardinality(In(Counted) \ Live(ClientOf[c])) + PoolSize > max_waiters
  BY DEF Counted
<1> DEFINE W == In(Counted)
           L == Live(ClientOf[c])
<1>1. waiters >= max_waiters /\ waiters = Cardinality(W) /\ Cardinality(L) <= PoolSize
  BY OnlyFetchAddOverflows, WorkerAssumption DEF IInv, WaitersExact, LiveBounded, Counted
<1>2. IsFiniteSet(W) /\ IsFiniteSet(L) /\ c \in L /\ c \notin W
  BY FS_Subset, WorkerAssumption DEF In, Live, Counted
<1> HIDE DEF W, L
<1>3. W \cap L \subseteq L \ {c}
  BY <1>2
<1>4. IsFiniteSet(L \ {c}) /\ Cardinality(L \ {c}) = Cardinality(L) - 1 /\ Cardinality(L) \in Nat
  BY <1>2, FS_RemoveElement, FS_CardinalityType
<1>5. IsFiniteSet(W \cap L) /\ Cardinality(W \cap L) \in Nat /\ Cardinality(W \cap L) <= Cardinality(L) - 1
  BY <1>3, <1>4, FS_Subset, FS_CardinalityType
<1>6. Cardinality(W \ L) = Cardinality(W) - Cardinality(W \cap L) /\ Cardinality(W) \in Nat
  BY <1>2, FS_Difference, FS_CardinalityType
<1>7. PoolSize \in Nat /\ max_waiters \in Nat
  BY WorkerAssumption, MaxWaitersType
<1>8. Cardinality(W \ L) + PoolSize > max_waiters
  BY <1>1, <1>4, <1>5, <1>6, <1>7
<1> QED
  BY <1>8 DEF W, L

\* bin/worker.rs: a call that is still wanted is turned away only behind calls that are
\* abandoned or come from another client of the same socket, at least
\* max_waiters - (PoolSize - 1) of them, whatever the two numbers and the clients.
THEOREM WorkerOverflow == Spec => OverflowNeedsOthers
BY WorkerInvariant, OverflowStep, PTL DEF Spec, OverflowNeedsOthers

(* ---------------------------------------------------------------------- *)
(* The probe.                                                              *)

\* A step of the server is one of the worker and its client, or none.
LEMMA ReadyStep == [ReadyNext]_allVars => [Next]_vars
<1> SUFFICES ASSUME [ReadyNext]_allVars PROVE [Next]_vars
  OBVIOUS
<1>1. CASE UNCHANGED allVars
  BY <1>1 DEF allVars
<1>2. ASSUME NEW p \in Probes, StartProbe(p) \/ TaskEnds(p) \/ FinishProbe(p) \/ GiveUp(p) PROVE [Next]_vars
  <2>1. p \in Calls
    BY ProbesAssumption
  <2>2. UNCHANGED vars \/ Call(p) \/ Cancel(p)
    BY <1>2 DEF StartProbe, TaskEnds, FinishProbe, GiveUp
  <2> QED
    BY <2>1, <2>2 DEF Next
<1>3. ASSUME NEW c \in Calls \ Probes, Request(c) PROVE Next
  BY <1>3 DEF Next, Request
<1>4. ASSUME NEW c \in Calls, ((Send(c) \/ SendFails(c)) /\ UNCHANGED probeVars) \/ WorkerTask(c) PROVE Next
  BY <1>4 DEF Next, WorkerTask
<1> QED
  BY <1>1, <1>2, <1>3, <1>4 DEF ReadyNext

\* The worker's invariant holds under the probes of the server and its requests.
THEOREM ReadyInvariant == ReadySpec => []IInv
<1>1. ReadyInit => IInv
  BY InitIInv DEF ReadyInit
<1>2. IInv /\ [ReadyNext]_allVars => IInv'
  BY ReadyStep, NextIInv
<1> QED
  BY <1>1, <1>2, PTL DEF ReadySpec

\* The properties of the worker, in the specification the run checks them of.
THEOREM ReadyWorker == ReadySpec => [](WaitersExact /\ PermitsConserved) /\ OverflowNeedsOthers
<1>1. IInv => WaitersExact /\ PermitsConserved
  BY DEF IInv
<1> QED
  BY <1>1, ReadyInvariant, ReadyStep, OverflowStep, PTL DEF ReadySpec, OverflowNeedsOthers

ProbeTypeOK == /\ in_worker \in BOOLEAN /\ wedged \in BOOLEAN
               /\ probe \in [Probes -> {"new", "waiting", "ready", "not ready"}]
               /\ task  \in [Probes -> {"none", "running", "ok", "err", "panic"}]

\* Nothing a wedged model was asked has come back with a vector.
WedgedSilent == wedged => /\ \A c \in Calls : reply[c] # "ok" /\ client[c] # "ok"
                          /\ \A p \in Probes : task[p] # "ok"

ProbeInv == /\ ProbeTypeOK
            /\ WedgedSilent
            /\ \A p \in Probes : probe[p] = "new" => task[p] = "none"
            /\ \A p \in Probes : probe[p] = "ready" => Outcome(p) = "ok"

\* A call that is next for a permit has not been sent.
LEMMA NextQueued ==
  ASSUME IInv, NEW c \in Calls, IsNext(c) PROVE client[c] = "queued" /\ conn[c] = "none"
<1> DEFINE k == ClientOf[c]
<1>1. k \in Clients /\ lane[k] \in Seq(Calls) /\ Distinct(lane[k]) /\ lane[k] # <<>> /\ c = Head(lane[k])
  BY WorkerAssumption DEF IInv, Shape, TypeOK, LaneWaits, IsNext
<1>2. 1 \in DOMAIN lane[k] /\ c = lane[k][1]
  BY <1>1, HeadTail
<1> QED
  BY <1>1, <1>2 DEF IInv, Shape, LaneWaits

\* An answer the caller has stays, and one it gets was given by the model.
LEMMA AnswerStays ==
  ASSUME IInv, [Next]_vars, NEW c \in Calls
  PROVE  /\ client[c] = "ok" => client'[c] = "ok"
         /\ client'[c] = "ok" => client[c] = "ok" \/ reply[c] = "ok"
         /\ reply'[c] = "ok" => reply[c] = "ok" \/ (conn[c] = "running" /\ conn'[c] # "running")
<1>1. CASE UNCHANGED vars
  BY <1>1
<1>2. ASSUME NEW d \in Calls, Call(d) \/ Cancel(d) PROVE client[d] # "ok" /\ reply' = reply /\ \E v \in {"queued", "cancelled"} : client' = [client EXCEPT ![d] = v]
  BY <1>2 DEF Call, Cancel
<1>3. ASSUME NEW d \in Calls, Send(d) \/ SendFails(d) PROVE client[d] # "ok" /\ reply' = reply /\ \E v \in {"sent", "err"} : client' = [client EXCEPT ![d] = v]
  <2>1. IsNext(d) /\ reply' = reply /\ \E v \in {"sent", "err"} : client' = [client EXCEPT ![d] = v]
    BY <1>3 DEF Send, SendFails
  <2> QED
    BY <2>1, NextQueued
<1>4. ASSUME NEW d \in Calls, Task(d)
      PROVE  /\ client[c] = "ok" => client'[c] = "ok"
             /\ client'[c] = "ok" => client[c] = "ok" \/ reply[c] = "ok"
             /\ reply'[c] = "ok" => reply[c] = "ok" \/ (conn[c] = "running" /\ conn'[c] # "running")
  <2>1. CASE Hangup(d) \/ FetchAdd(d) \/ Enqueue(d) \/ Acquire(d) \/ FetchSub(d)
    BY <2>1 DEF Hangup, FetchAdd, Enqueue, Acquire, FetchSub
  <2>2. CASE Reject(d)
    BY <2>2 DEF Reject, IInv, Shape, TypeOK
  <2>3. CASE Infer(d)
    BY <2>3 DEF Infer, Goto, IInv, Shape, TypeOK
  <2>4. CASE Write(d) \/ WriteFails(d)
    <3>1. /\ reply' = reply
          /\ \/ client' = client
             \/ client[d] = "sent" /\ \E v \in {reply[d], "err"} : client' = [client EXCEPT ![d] = v]
      BY <2>4 DEF Write, WriteFails, Delivered
    <3> QED
      BY <3>1 DEF IInv, Shape, TypeOK
  <2> QED
    BY <1>4, <2>1, <2>2, <2>3, <2>4 DEF Task
<1>5. ASSUME NEW d \in Calls, NEW v \in {"queued", "cancelled", "sent", "err"}, client[d] # "ok", reply' = reply,
             client' = [client EXCEPT ![d] = v]
      PROVE  /\ client[c] = "ok" => client'[c] = "ok"
             /\ client'[c] = "ok" => client[c] = "ok"
             /\ reply'[c] = "ok" => reply[c] = "ok"
  BY <1>5 DEF IInv, Shape, TypeOK
<1>6. ASSUME Next PROVE \E d \in Calls : Call(d) \/ Cancel(d) \/ Send(d) \/ SendFails(d) \/ Task(d)
  BY <1>6 DEF Next
<1> QED
  BY <1>1, <1>2, <1>3, <1>4, <1>5, <1>6

\* Every step keeps what is known of the probes.
LEMMA ProbeStep == IInv /\ ProbeInv /\ [ReadyNext]_allVars => ProbeInv'
<1> SUFFICES ASSUME IInv, ProbeInv, [ReadyNext]_allVars PROVE ProbeInv'
  OBVIOUS
<1>1. [Next]_vars
  BY ReadyStep
<1>2. in_worker' = in_worker /\ wedged' = wedged
  BY DEF ReadyNext, allVars, probeVars, StartProbe, TaskEnds, FinishProbe, GiveUp, Request, WorkerTask
<1>3. ASSUME wedged, NEW c \in Calls PROVE ~ (conn[c] = "running" /\ conn'[c] # "running")
  <2>1. CASE UNCHANGED conn
    BY <2>1
  <2>2. CASE \E d \in Calls : Send(d) \/ WorkerTask(d)
    <3>1. PICK d \in Calls : Send(d) \/ WorkerTask(d)
      BY <2>2
    <3>2. ASSUME d = c, conn[c] = "running" PROVE FALSE
      <4>1. Send(d)
        BY <1>3, <3>1, <3>2 DEF WorkerTask
      <4>2. IsNext(d)
        BY <4>1 DEF Send
      <4> QED
        BY <3>2, <4>2, NextQueued
    <3>3. d # c => conn'[c] = conn[c]
      BY <3>1 DEF WorkerTask, Task, Send, Hangup, FetchAdd, Reject, Enqueue, Acquire, FetchSub, Infer, Write, WriteFails, Goto,
                  IInv, Shape, TypeOK
    <3> QED
      BY <3>2, <3>3
  <2> QED
    BY <2>1, <2>2 DEF ReadyNext, allVars, StartProbe, TaskEnds, FinishProbe, GiveUp, Request, Call, Cancel, SendFails
<1>4. /\ \A p \in Probes : client[p] = "ok" => client'[p] = "ok"
      /\ wedged => \A c \in Calls : reply'[c] # "ok" /\ client'[c] # "ok"
  BY <1>1, <1>3, AnswerStays, ProbesAssumption DEF ProbeInv, WedgedSilent
<1> DEFINE Fair == /\ probe' \in [Probes -> {"new", "waiting", "ready", "not ready"}]
                   /\ task' \in [Probes -> {"none", "running", "ok", "err", "panic"}]
                   /\ \A q \in Probes : /\ task[q] = "ok" => task'[q] = "ok"
                                        /\ wedged /\ task'[q] = "ok" => task[q] = "ok"
                                        /\ probe'[q] = "new" => task'[q] = "none"
                                        /\ probe'[q] = "ready" => Outcome(q) = "ok"
<1>5. Fair
  <2>1. ASSUME NEW p \in Probes, StartProbe(p) PROVE Fair
    <3>1. task[p] = "none" /\ \E v \in {"waiting", "not ready"} : Reply(p, v)
      BY <2>1 DEF StartProbe, ProbeInv
    <3>2. task' = task \/ task' = [task EXCEPT ![p] = "running"]
      BY <2>1 DEF StartProbe
    <3> QED
      BY <3>1, <3>2 DEF Reply, ProbeInv, ProbeTypeOK
  <2>2. ASSUME NEW p \in Probes, TaskEnds(p) PROVE Fair
    <3>1. /\ task[p] = "running" /\ ~wedged /\ probe' = probe
          /\ \E v \in {"ok", "err", "panic"} : task' = [task EXCEPT ![p] = v]
      BY <2>2 DEF TaskEnds
    <3> QED
      BY <3>1 DEF ProbeInv, ProbeTypeOK
  <2>3. ASSUME NEW p \in Probes, FinishProbe(p) \/ GiveUp(p) PROVE Fair
    <3>1. /\ probe[p] = "waiting" /\ task' = task
          /\ \E v \in {"ready", "not ready"} : Reply(p, v) /\ (v = "ready" => Outcome(p) = "ok")
      BY <2>3 DEF FinishProbe, GiveUp
    <3> QED
      BY <3>1 DEF Reply, ProbeInv, ProbeTypeOK
  <2>4. ASSUME probe' = probe, task' = task PROVE Fair
    BY <2>4 DEF ProbeInv, ProbeTypeOK
  <2>5. ASSUME UNCHANGED probeVars PROVE probe' = probe /\ task' = task
    BY <2>5 DEF probeVars
  <2> HIDE DEF Fair
  <2> QED
    BY <2>1, <2>2, <2>3, <2>4, <2>5 DEF ReadyNext, allVars, Request, WorkerTask
<1>6. ASSUME NEW p \in Probes, probe'[p] = "ready" PROVE Outcome(p)' = "ok"
  BY <1>2, <1>4, <1>5, <1>6 DEF Outcome
<1>7. ProbeTypeOK'
  BY <1>2, <1>5 DEF ProbeInv, ProbeTypeOK
<1>8. WedgedSilent'
  BY <1>2, <1>4, <1>5 DEF ProbeInv, WedgedSilent
<1> QED
  BY <1>5, <1>6, <1>7, <1>8 DEF ProbeInv

\* api_health.rs: a probe is answered with 200 only after its own inference came back
\* with a vector, in either mode, for every number of probes and requests.
THEOREM ReadyServed == ReadySpec => []ReadyMeansServed
<1>1. ReadyInit => ProbeInv
  BY DEF ReadyInit, Init, ProbeInv, ProbeTypeOK, WedgedSilent
<1>2. ProbeInv => ReadyMeansServed
  BY ProbesAssumption DEF ProbeInv, ProbeTypeOK, WedgedSilent, ReadyMeansServed, Outcome
<1> QED
  BY <1>1, <1>2, ReadyInvariant, ProbeStep, PTL DEF ReadySpec

===============================================================================
