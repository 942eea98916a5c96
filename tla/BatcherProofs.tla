---------------------------- MODULE BatcherProofs ----------------------------
(***************************************************************************)
(* Proofs about Batcher, for every set of requests, every shape and every   *)
(* setting of the caps.                                                     *)
(***************************************************************************)
EXTENDS Batcher, ListLemmas, SequenceTheorems, TLAPS

AccumType == [items : Nat, max_len : Nat, total_tokens : Nat]

\* push keeps the aggregate typed.
LEMMA PushType ==
    ASSUME NEW acc \in AccumType, NEW r \in Requests
    PROVE  Push(acc, r) \in AccumType
BY BatcherAssumption DEF Push, AccumType, ShapeType, MaxOf

\* So is a new one.
LEMMA EmptyAccumType == EmptyAccum \in AccumType
BY DEF EmptyAccum, AccumType

\* A new batcher.
LEMMA InitType == Init => TypeOK
<1> SUFFICES ASSUME Init PROVE TypeOK
  OBVIOUS
<1>1. queue = <<>> /\ queue \in Seq(Requests) /\ Len(queue) <= MaxQueue
  BY BatcherAssumption DEF Init
<1>2. accum \in [items : Nat, max_len : Nat, total_tokens : Nat]
  BY EmptyAccumType DEF Init, AccumType
<1> QED
  BY <1>1, <1>2 DEF Init, TypeOK, CallStates

\* embed_tokens keeps the types.
LEMMA CallerType ==
    ASSUME TypeOK, NEW r \in Requests, Caller(r)
    PROVE  TypeOK'
<1>1. CASE EmbedEmpty(r)
  BY <1>1 DEF TypeOK, EmbedEmpty, CallStates, carryVars, drainVars
<1>2. CASE PassGate(r)
  BY <1>2 DEF TypeOK, PassGate, CallStates, carryVars, drainVars
<1>3. CASE RejectAtGate(r)
  BY <1>3 DEF TypeOK, RejectAtGate, CallStates, carryVars, drainVars
<1>4. CASE TrySend(r)
  <2>1. queue' \in Seq(Requests) /\ Len(queue') <= MaxQueue
    BY <1>4, BatcherAssumption DEF TypeOK, TrySend, Depth
  <2>2. call' \in [Requests -> CallStates] /\ ticket' \in [Requests -> Nat] /\ tickets' \in Nat
    BY <1>4 DEF TypeOK, TrySend, CallStates
  <2>3. UNCHANGED <<answer, carry, carry_pending, batch, accum, kept, worker, drain, carry_lost>>
    BY <1>4 DEF TrySend, carryVars, drainVars
  <2> QED
    BY <2>1, <2>2, <2>3 DEF TypeOK
<1>5. CASE TrySendFull(r)
  BY <1>5 DEF TypeOK, TrySendFull, CallStates, carryVars, drainVars
<1>6. CASE Disconnect(r)
  BY <1>6 DEF TypeOK, Disconnect, CallStates, carryVars, drainVars
<1> QED
  BY <1>1, <1>2, <1>3, <1>4, <1>5, <1>6 DEF Caller

\* run_worker keeps the types.
LEMMA WorkerType == TypeOK /\ WorkerStep => TypeOK'
<1> SUFFICES ASSUME TypeOK, WorkerStep PROVE TypeOK'
  OBVIOUS
<1> USE DEF clientVars, carryVars, drainVars
<1>a. queue # <<>> => /\ Head(queue) \in Requests
                      /\ Tail(queue) \in Seq(Requests)
                      /\ Len(Tail(queue)) <= MaxQueue
  BY BatcherAssumption DEF TypeOK
<1>1. CASE TakeCarry
  <2>1. carry \in Requests
    BY <1>1 DEF TakeCarry, TypeOK
  <2>2. Push(EmptyAccum, carry) \in AccumType
    BY <2>1, PushType, EmptyAccumType
  <2> QED
    <3>1. batch' \in Seq(Requests) /\ accum' \in AccumType
      BY <1>1, <2>1, <2>2 DEF TakeCarry, StartBatch
    <3> QED
      BY <1>1, <3>1 DEF TakeCarry, StartBatch, TypeOK, AccumType
<1>2. CASE RecvFirst
  <2>1. Push(EmptyAccum, Head(queue)) \in AccumType
    BY <1>2, <1>a, PushType, EmptyAccumType DEF RecvFirst
  <2> QED
    BY <1>2, <1>a, <2>1 DEF RecvFirst, StartBatch, TypeOK, AccumType
<1>3. CASE WorkerExit
  BY <1>3 DEF WorkerExit, TypeOK
<1>4. CASE SkipClosed
  BY <1>4, <1>a DEF SkipClosed, CanRecv, TypeOK
<1>5. CASE CarryOver
  BY <1>5, <1>a DEF CarryOver, CanRecv, TypeOK
<1>6. CASE Coalesce
  <2>1. Push(accum, Head(queue)) \in AccumType
    BY <1>6, <1>a, PushType DEF Coalesce, CanRecv, TypeOK, AccumType
  <2>2. batch' \in Seq(Requests) /\ accum' \in AccumType
    BY <1>6, <1>a, <2>1 DEF Coalesce, CanRecv, TypeOK
  <2>3. queue' \in Seq(Requests) /\ Len(queue') <= MaxQueue
    BY <1>6, <1>a DEF Coalesce, CanRecv
  <2>4. UNCHANGED <<call, answer, ticket, tickets, carry, carry_pending, kept, worker,
                    drain, carry_lost>>
    BY <1>6 DEF Coalesce
  <2> QED
    BY <2>2, <2>3, <2>4 DEF TypeOK, AccumType
<1>7. CASE WindowEnds
  BY <1>7 DEF WindowEnds, TypeOK
<1>8. CASE Cut
  <2>1. kept' \in SUBSET Requests
    BY <1>8 DEF Cut, TypeOK, Range
  <2>2. /\ batch' \in Seq(Requests)
        /\ accum' \in AccumType
        /\ worker' \in {"top", "dispatch"}
    <3>1. CASE kept' = {}
      <4>1. batch' = <<>> /\ accum' = EmptyAccum /\ worker' = "top"
        BY <1>8, <3>1 DEF Cut
      <4> QED
        BY <4>1, EmptyAccumType
    <3>2. CASE kept' # {}
      BY <1>8, <3>2 DEF Cut, TypeOK, AccumType
    <3> QED
      BY <3>1, <3>2
  <2> QED
    BY <1>8, <2>1, <2>2 DEF Cut, TypeOK, AccumType
<1> QED
  BY <1>1, <1>2, <1>3, <1>4, <1>5, <1>6, <1>7, <1>8 DEF WorkerStep

\* dispatch_batch keeps the types.
LEMMA EmbedEndsType == TypeOK /\ EmbedEnds => TypeOK'
<1> SUFFICES ASSUME TypeOK, EmbedEnds PROVE TypeOK'
  OBVIOUS
<1>1. /\ call' \in [Requests -> CallStates]
      /\ DOMAIN answer' = Requests
  BY DEF EmbedEnds, EmbedReturns, EmbedFails, FanOut, Reply, TypeOK, CallStates
<1>2. NextBatch /\ UNCHANGED <<ticket, tickets, queue, carryVars, drainVars>>
  BY DEF EmbedEnds, EmbedReturns, EmbedFails
<1> QED
  BY <1>1, <1>2, EmptyAccumType DEF NextBatch, TypeOK, AccumType, carryVars, drainVars

\* shutdown keeps the types.
LEMMA ShutdownType == TypeOK /\ Shutdown => TypeOK'
<1> SUFFICES ASSUME TypeOK, Shutdown PROVE TypeOK'
  OBVIOUS
<1> USE DEF clientVars, carryVars, drainVars
<1>1. CASE BeginShutdown
  BY <1>1 DEF BeginShutdown, TypeOK
<1>2. CASE ShutdownJoins
  BY <1>2 DEF ShutdownJoins, TypeOK
<1>3. CASE ShutdownExpires
  BY <1>3 DEF ShutdownExpires, TypeOK
<1>4. CASE RequestAbort
  BY <1>4 DEF RequestAbort, TypeOK
<1>5. CASE AbortLands
  BY <1>5, EmptyAccumType, BatcherAssumption
     DEF AbortLands, TypeOK, AccumType, CallStates
<1> QED
  BY <1>1, <1>2, <1>3, <1>4, <1>5 DEF Shutdown

\* So does doing nothing.
LEMMA StutterType == TypeOK /\ UNCHANGED vars => TypeOK'
BY DEF TypeOK, vars, clientVars, carryVars, drainVars

\* Every step keeps the types.
LEMMA NextType == TypeOK /\ [Next]_vars => TypeOK'
BY CallerType, WorkerType, EmbedEndsType, ShutdownType, StutterType DEF Next, Stopped

\* Every variable keeps its type, and the channel holds at most max_queue items
\* although the depth check and try_send of embed_tokens are two steps.
THEOREM TypeCorrect == Spec => []TypeOK
BY InitType, NextType, PTL DEF Spec

------------------------------------------------------------------------------
(***************************************************************************)
(* The inductive invariant.  NoLostRequest and InOrder are not inductive:   *)
(* sending needs to know that the new item is nowhere yet and that its      *)
(* ticket is the largest, cutting a batch that the carry slot is free while *)
(* the batch grows, and the abort that nobody waits once drain has begun.   *)
(***************************************************************************)

\* An item in the channel, the carry slot or the batch has been sent.
Sent(r) == call[r] \notin {"new", "gated"} /\ Shape[r].n_texts > 0

OnlySentItems == /\ \A i \in DOMAIN queue : Sent(queue[i])
                 /\ \A i \in DOMAIN batch : Sent(batch[i])
                 /\ carry # None => Sent(carry)
                 /\ \A r \in Requests : call[r] = "gated" => Shape[r].n_texts > 0

TicketsBounded == \A r \in Requests : ticket[r] <= tickets

WorkerHolds == /\ worker = "top" => batch = <<>>
               /\ carry # None => worker \in {"top", "cut", "dispatch"}
               /\ worker = "aborted" => drain = "aborting"
               /\ worker = "finished" => drain # "open"
               /\ worker = "dispatch" => kept \subseteq Range(batch)

NobodyWaitsInDrain ==
    drain # "open" => \A r \in Requests : call[r] \notin {"gated", "waiting"}

CarryFlag == worker # "aborted" => carry_pending = (carry # None)

CarryCounted == drain \in {"expired", "aborting"} /\ carry # None => carry_lost

IInv == /\ TypeOK
        /\ OnlySentItems
        /\ TicketsBounded
        /\ WorkerHolds
        /\ NobodyWaitsInDrain
        /\ CarryFlag
        /\ CarryCounted
        /\ NobodyShutDown
        /\ NoLostRequest
        /\ InOrder

\* The invariant holds of a new batcher.
LEMMA InitInv == Init => IInv
<1> SUFFICES ASSUME Init PROVE IInv
  OBVIOUS
<1>1. TypeOK
  BY InitType
<1>2. DOMAIN queue = {} /\ DOMAIN batch = {}
  BY DEF Init
<1> QED
  <2>1. OnlySentItems /\ TicketsBounded /\ InOrder
    BY <1>1, <1>2 DEF Init, OnlySentItems, TicketsBounded, InOrder, TypeOK
  <2>2. WorkerHolds /\ NobodyWaitsInDrain /\ CarryCounted /\ NobodyShutDown /\ NoLostRequest
    BY DEF Init, WorkerHolds, NobodyWaitsInDrain, CarryCounted, NobodyShutDown, NoLostRequest
  <2>3. CarryFlag
    BY DEF Init, CarryFlag
  <2> QED
    BY <1>1, <2>1, <2>2, <2>3 DEF IInv

\* A caller's step that only moves its own call on, without sending and
\* without waiting, leaves the items where they are.
LEMMA QuietCaller ==
    ASSUME IInv, TypeOK', NEW r \in Requests,
           NEW to \in CallStates \ {"new", "waiting", "shutdown"},
           call[r] \notin {"waiting"} \/ to # "gated",
           call' = [call EXCEPT ![r] = to],
           to = "gated" => Shape[r].n_texts > 0 /\ call[r] = "new" /\ drain = "open",
           UNCHANGED <<answer, ticket, tickets, queue, carryVars, batch, accum, kept,
                       worker, drainVars>>
    PROVE  IInv'
<1> USE DEF IInv, carryVars, drainVars
<1>1. OnlySentItems'
  BY DEF OnlySentItems, Sent, TypeOK
<1>2. NobodyWaitsInDrain' /\ NobodyShutDown'
  BY DEF NobodyWaitsInDrain, NobodyShutDown, TypeOK, CallStates
<1>3. NoLostRequest'
  BY DEF NoLostRequest, TypeOK
<1>4. InOrder'
  BY DEF InOrder
<1>5. TicketsBounded' /\ WorkerHolds' /\ CarryFlag' /\ CarryCounted'
  BY DEF TicketsBounded, WorkerHolds, CarryFlag, CarryCounted
<1> QED
  BY <1>1, <1>2, <1>3, <1>4, <1>5

\* try_send appends behind everything else.
LEMMA TrySendInv ==
    ASSUME IInv, TypeOK', NEW r \in Requests, TrySend(r)
    PROVE  IInv'
<1> USE DEF IInv, carryVars, drainVars
<1>1. /\ call[r] = "gated" /\ queue' = Append(queue, r)
      /\ call' = [call EXCEPT ![r] = "waiting"]
      /\ ticket' = [ticket EXCEPT ![r] = tickets + 1]
      /\ tickets' = tickets + 1
      /\ UNCHANGED <<carry, carry_pending, batch, kept, worker, drain, carry_lost>>
  BY DEF TrySend
<1>2. /\ DOMAIN queue = 1..Len(queue) /\ DOMAIN queue' = 1..(Len(queue) + 1)
      /\ \A i \in 1..Len(queue) : queue'[i] = queue[i]
      /\ queue'[Len(queue) + 1] = r
  BY <1>1 DEF TypeOK
<1>3. drain = "open"
  BY <1>1 DEF NobodyWaitsInDrain
<1>4. /\ \A i \in DOMAIN queue : queue[i] \in Requests /\ queue[i] # r
      /\ \A i \in DOMAIN batch : batch[i] \in Requests /\ batch[i] # r
      /\ carry # None => carry \in Requests /\ carry # r
  BY <1>1 DEF OnlySentItems, Sent, TypeOK
<1>5. OnlySentItems'
  <2>1. call \in [Requests -> CallStates]
    BY DEF TypeOK
  <2>2. /\ Sent(r)' /\ \A x \in Requests : Sent(x) => Sent(x)'
        /\ \A x \in Requests : call'[x] = "gated" => call[x] = "gated"
    BY <1>1, <2>1 DEF Sent, OnlySentItems
  <2>3. (\A i \in DOMAIN queue : Sent(queue[i]))'
    <3> SUFFICES ASSUME NEW i \in DOMAIN queue' PROVE Sent(queue[i])'
      OBVIOUS
    <3>0. Len(queue) \in Nat
      BY DEF TypeOK
    <3>1. Len(queue) \in Nat /\ \A k \in DOMAIN queue : Sent(queue[k])
      BY <3>0 DEF OnlySentItems
    <3> HIDE DEF IInv
    <3>2. CASE i \in 1..Len(queue)
      BY <1>2, <1>4, <2>2, <3>1, <3>2 DEF Sent
    <3>3. CASE i = Len(queue) + 1
      BY <1>2, <2>2, <3>3 DEF Sent
    <3> QED
      BY <1>2, <3>1, <3>2, <3>3
  <2>4. /\ (\A i \in DOMAIN batch : Sent(batch[i]))'
        /\ (carry # None => Sent(carry))'
    BY <1>1, <1>4, <2>2 DEF OnlySentItems, Sent
  <2>5. (\A x \in Requests : call[x] = "gated" => Shape[x].n_texts > 0)'
    BY <2>2 DEF OnlySentItems
  <2> QED
    BY <2>3, <2>4, <2>5 DEF OnlySentItems
<1>6. TicketsBounded'
  BY <1>1 DEF TicketsBounded, TypeOK
<1>7. InOrder'
  <2>1. /\ \A i \in DOMAIN queue : ticket'[queue[i]] = ticket[queue[i]] /\ ticket[queue[i]] < tickets + 1
        /\ \A i \in DOMAIN batch : ticket'[batch[i]] = ticket[batch[i]] /\ ticket[batch[i]] < tickets + 1
        /\ carry # None => ticket'[carry] = ticket[carry] /\ ticket[carry] < tickets + 1
        /\ ticket'[r] = tickets + 1
    <3>1. /\ ticket \in [Requests -> Nat] /\ tickets \in Nat
          /\ \A x \in Requests : ticket[x] <= tickets
      BY DEF TicketsBounded, TypeOK
    <3>2. /\ ticket'[r] = tickets + 1
          /\ \A x \in Requests : x # r => ticket'[x] = ticket[x]
      BY <1>1, <3>1
    <3> HIDE DEF IInv
    <3> QED
      BY <1>4, <3>1, <3>2
  <2>0. InOrder /\ Len(queue) \in Nat
    BY DEF TypeOK
  <2> HIDE DEF IInv
  <2>2. \A i, j \in DOMAIN batch' : i < j => ticket'[batch'[i]] < ticket'[batch'[j]]
    BY <1>1, <2>1, <2>0 DEF InOrder
  <2>3. \A i, j \in DOMAIN queue' : i < j => ticket'[queue'[i]] < ticket'[queue'[j]]
    <3> SUFFICES ASSUME NEW i \in DOMAIN queue', NEW j \in DOMAIN queue', i < j
                 PROVE  ticket'[queue'[i]] < ticket'[queue'[j]]
      OBVIOUS
    <3>1. /\ Len(queue) \in Nat /\ i \in 1..Len(queue) /\ queue'[i] = queue[i]
      BY <1>2, <2>0
    <3>2. CASE j \in 1..Len(queue)
      BY <1>2, <2>1, <3>1, <3>2, <2>0 DEF InOrder
    <3>3. CASE j = Len(queue) + 1
      BY <1>2, <2>1, <3>1, <3>3
    <3> QED
      BY <1>2, <2>0, <3>2, <3>3
  <2>4. \A i \in DOMAIN batch', j \in DOMAIN queue' : ticket'[batch'[i]] < ticket'[queue'[j]]
    <3> SUFFICES ASSUME NEW i \in DOMAIN batch, NEW j \in DOMAIN queue'
                 PROVE  ticket'[batch[i]] < ticket'[queue'[j]]
      BY <1>1
    <3>1. CASE j \in 1..Len(queue)
      BY <1>2, <2>1, <3>1, <2>0 DEF InOrder
    <3>2. CASE j = Len(queue) + 1
      BY <1>2, <2>1, <3>2
    <3> QED
      BY <1>2, <2>0, <3>1, <3>2
  <2>5. ASSUME carry' # None
        PROVE  /\ \A i \in DOMAIN batch' : ticket'[batch'[i]] < ticket'[carry']
               /\ \A j \in DOMAIN queue' : ticket'[carry'] < ticket'[queue'[j]]
    <3>1. \A i \in DOMAIN batch' : ticket'[batch'[i]] < ticket'[carry']
      BY <1>1, <2>1, <2>5, <2>0 DEF InOrder
    <3>2. ASSUME NEW j \in DOMAIN queue'
          PROVE  ticket'[carry'] < ticket'[queue'[j]]
      <4>1. CASE j \in 1..Len(queue)
        BY <1>1, <1>2, <2>1, <2>5, <4>1, <2>0 DEF InOrder
      <4>2. CASE j = Len(queue) + 1
        BY <1>1, <1>2, <2>1, <2>5, <4>2
      <4> QED
        BY <1>2, <2>0, <4>1, <4>2
    <3> QED
      BY <3>1, <3>2
  <2> QED
    BY <2>2, <2>3, <2>4, <2>5 DEF InOrder
<1>8. NoLostRequest'
  <2>1. \A x \in Range(queue) : x \in Range(queue')
    BY <1>2 DEF Range
  <2>2. r \in Range(queue')
    <3>1. Len(queue) + 1 \in DOMAIN queue'
      BY <1>2 DEF TypeOK
    <3> QED
      BY <1>2, <3>1 DEF Range
  <2> QED
    BY <1>1, <2>1, <2>2 DEF NoLostRequest, TypeOK
<1>9. NobodyWaitsInDrain' /\ NobodyShutDown' /\ WorkerHolds' /\ CarryFlag' /\ CarryCounted'
  BY <1>1, <1>3 DEF NobodyWaitsInDrain, NobodyShutDown, WorkerHolds, CarryFlag,
     CarryCounted, TypeOK
<1> QED
  BY <1>5, <1>6, <1>7, <1>8, <1>9

\* embed_tokens and a client that leaves preserve the invariant.
LEMMA CallerInv ==
    ASSUME IInv, NEW r \in Requests, Caller(r)
    PROVE  IInv'
<1>0. TypeOK /\ TypeOK'
  BY CallerType DEF IInv
<1>1. CASE EmbedEmpty(r)
  BY <1>0, <1>1, QuietCaller DEF EmbedEmpty, CanCall, CallStates
<1>2. CASE PassGate(r)
  BY <1>0, <1>2, QuietCaller DEF PassGate, CanCall, CallStates
<1>3. CASE RejectAtGate(r)
  BY <1>0, <1>3, QuietCaller DEF RejectAtGate, CanCall, CallStates
<1>4. CASE TrySend(r)
  BY <1>0, <1>4, TrySendInv
<1>5. CASE TrySendFull(r)
  BY <1>0, <1>5, QuietCaller DEF TrySendFull, CallStates
<1>6. CASE Disconnect(r)
  BY <1>0, <1>6, QuietCaller DEF Disconnect, CallStates
<1> QED
  BY <1>1, <1>2, <1>3, <1>4, <1>5, <1>6 DEF Caller

------------------------------------------------------------------------------
(* The worker's steps.                                                      *)

\* Taking the head off the channel keeps the order of what is left, and the
\* head is older than all of it.
LEMMA TakeHead ==
    ASSUME IInv, queue # <<>>
    PROVE  /\ Head(queue) \in Requests
           /\ Head(queue) = queue[1] /\ 1 \in DOMAIN queue
           /\ Len(queue) > 0 /\ Tail(queue) \in Seq(Requests)
           /\ DOMAIN queue = 1..Len(queue)
           /\ DOMAIN Tail(queue) = 1..(Len(queue) - 1)
           /\ \A i \in 1..(Len(queue) - 1) : Tail(queue)[i] = queue[i + 1]
           /\ Sent(Head(queue))
           /\ \A i \in DOMAIN Tail(queue) : Sent(Tail(queue)[i])
           /\ \A i \in DOMAIN Tail(queue) : ticket[Head(queue)] < ticket[Tail(queue)[i]]
           /\ \A i, j \in DOMAIN Tail(queue) :
                  i < j => ticket[Tail(queue)[i]] < ticket[Tail(queue)[j]]
           /\ \A i \in DOMAIN batch, j \in DOMAIN Tail(queue) :
                  ticket[batch[i]] < ticket[Tail(queue)[j]]
           /\ carry # None =>
                  \A j \in DOMAIN Tail(queue) : ticket[carry] < ticket[Tail(queue)[j]]
           /\ \A r \in Range(queue) : r = Head(queue) \/ r \in Range(Tail(queue))
<1>1. /\ Head(queue) \in Requests
      /\ Head(queue) = queue[1] /\ 1 \in DOMAIN queue
      /\ Len(queue) > 0 /\ Len(queue) \in Nat /\ Tail(queue) \in Seq(Requests)
      /\ DOMAIN queue = 1..Len(queue)
      /\ DOMAIN Tail(queue) = 1..(Len(queue) - 1)
      /\ \A i \in 1..(Len(queue) - 1) : Tail(queue)[i] = queue[i + 1]
  BY DEF IInv, TypeOK
<1>2. \A i \in 1..(Len(queue) - 1) : i + 1 \in DOMAIN queue /\ 1 < i + 1
  BY <1>1
<1>3. /\ Sent(Head(queue))
      /\ \A i \in DOMAIN Tail(queue) : Sent(Tail(queue)[i])
  BY <1>1, <1>2 DEF IInv, OnlySentItems
<1>4. /\ \A i \in DOMAIN Tail(queue) : ticket[Head(queue)] < ticket[Tail(queue)[i]]
      /\ \A i, j \in DOMAIN Tail(queue) :
             i < j => ticket[Tail(queue)[i]] < ticket[Tail(queue)[j]]
      /\ \A i \in DOMAIN batch, j \in DOMAIN Tail(queue) :
             ticket[batch[i]] < ticket[Tail(queue)[j]]
      /\ carry # None =>
             \A j \in DOMAIN Tail(queue) : ticket[carry] < ticket[Tail(queue)[j]]
  <2>1. InOrder
    BY DEF IInv
  <2>2. \A i \in DOMAIN Tail(queue) : /\ Tail(queue)[i] = queue[i + 1]
                                     /\ i + 1 \in DOMAIN queue
                                     /\ 1 < i + 1 /\ i \in Int
    BY <1>1, <1>2
  <2>3. \A i \in DOMAIN Tail(queue) : ticket[Head(queue)] < ticket[Tail(queue)[i]]
    BY <1>1, <2>1, <2>2 DEF InOrder
  <2>4. ASSUME NEW i \in DOMAIN Tail(queue), NEW j \in DOMAIN Tail(queue), i < j
        PROVE  ticket[Tail(queue)[i]] < ticket[Tail(queue)[j]]
    <3>1. i + 1 < j + 1
      BY <2>2, <2>4
    <3> QED
      BY <2>1, <2>2, <3>1 DEF InOrder
  <2>5. /\ \A i \in DOMAIN batch, j \in DOMAIN Tail(queue) :
               ticket[batch[i]] < ticket[Tail(queue)[j]]
        /\ carry # None =>
               \A j \in DOMAIN Tail(queue) : ticket[carry] < ticket[Tail(queue)[j]]
    BY <2>1, <2>2 DEF InOrder
  <2> QED
    BY <2>3, <2>4, <2>5
<1>5. ASSUME NEW r \in Range(queue)
      PROVE  r = Head(queue) \/ r \in Range(Tail(queue))
  <2>1. PICK i \in DOMAIN queue : queue[i] = r
    BY DEF Range
  <2>2. CASE i = 1
    BY <1>1, <2>1, <2>2
  <2>3. CASE i # 1
    <3>1. i - 1 \in DOMAIN Tail(queue) /\ Tail(queue)[i - 1] = r
      BY <1>1, <2>1, <2>3
    <3> QED
      BY <3>1 DEF Range
  <2> QED
    BY <2>2, <2>3
<1> QED
  BY <1>1, <1>3, <1>4, <1>5

\* The carry is the first of the next batch.
LEMMA TakeCarryInv == IInv /\ TypeOK' /\ TakeCarry => IInv'
<1> SUFFICES ASSUME IInv, TypeOK', TakeCarry PROVE IInv'
  OBVIOUS
<1> USE DEF IInv, clientVars, drainVars
<1>1. /\ worker = "top" /\ carry # None /\ batch = <<>> /\ carry \in Requests
      /\ carry' = None /\ carry_pending' = FALSE /\ batch' = <<carry>>
      /\ worker' = "coalesce" /\ drain' = drain /\ carry_lost' = carry_lost
      /\ UNCHANGED <<call, ticket, tickets, queue, kept>>
  BY DEF TakeCarry, StartBatch, WorkerHolds, TypeOK
<1>2. DOMAIN batch' = {1} /\ batch'[1] = carry /\ DOMAIN batch = {} /\ Range(batch') = {carry}
  BY <1>1 DEF Range
<1>3. OnlySentItems' /\ TicketsBounded'
  BY <1>1, <1>2 DEF OnlySentItems, Sent, TicketsBounded
<1>4. WorkerHolds' /\ NobodyWaitsInDrain' /\ CarryCounted' /\ NobodyShutDown'
  BY <1>1 DEF WorkerHolds, NobodyWaitsInDrain, CarryCounted, NobodyShutDown
<1>5. CarryFlag'
  BY <1>1 DEF CarryFlag
<1>6. NoLostRequest'
  BY <1>1, <1>2 DEF NoLostRequest, Range
<1>7. InOrder'
  BY <1>1, <1>2 DEF InOrder
<1> QED
  BY <1>3, <1>4, <1>5, <1>6, <1>7

\* The head of the channel is the first of the next batch.
LEMMA RecvFirstInv == IInv /\ TypeOK' /\ RecvFirst => IInv'
<1> SUFFICES ASSUME IInv, TypeOK', RecvFirst PROVE IInv'
  OBVIOUS
<1>1. /\ worker = "top" /\ carry = None /\ queue # <<>> /\ batch = <<>>
      /\ batch' = <<Head(queue)>> /\ queue' = Tail(queue)
      /\ worker' = "coalesce" /\ drain' = drain /\ carry_lost' = carry_lost
      /\ UNCHANGED <<call, ticket, tickets, kept, carry, carry_pending>>
  BY DEF RecvFirst, StartBatch, WorkerHolds, IInv, clientVars, carryVars, drainVars
<1>2. /\ DOMAIN batch' = {1} /\ batch'[1] = Head(queue) /\ DOMAIN batch = {}
      /\ Range(batch') = {Head(queue)}
  BY <1>1 DEF Range
<1>3. OnlySentItems' /\ TicketsBounded'
  BY <1>1, <1>2, TakeHead DEF OnlySentItems, Sent, TicketsBounded, IInv
<1>4. WorkerHolds' /\ NobodyWaitsInDrain' /\ CarryCounted' /\ NobodyShutDown'
  BY <1>1 DEF WorkerHolds, NobodyWaitsInDrain, CarryCounted, NobodyShutDown, IInv
<1>5. CarryFlag'
  BY <1>1 DEF CarryFlag, IInv
<1>6. NoLostRequest'
  <2>1. \A r \in Range(queue) : r = Head(queue) \/ r \in Range(Tail(queue))
    BY <1>1, TakeHead
  <2>2. \A r \in Requests : call[r] = "waiting" => r \in Range(queue)
    BY <1>1, BatcherAssumption DEF IInv, NoLostRequest, Range
  <2> QED
    BY <1>1, <1>2, <2>1, <2>2 DEF NoLostRequest
<1>7. InOrder'
  <2>1. /\ \A i \in DOMAIN Tail(queue) : ticket[Head(queue)] < ticket[Tail(queue)[i]]
        /\ \A i, j \in DOMAIN Tail(queue) :
               i < j => ticket[Tail(queue)[i]] < ticket[Tail(queue)[j]]
    BY <1>1, TakeHead
  <2> QED
    BY <1>1, <1>2, <2>1 DEF InOrder
<1> QED
  BY <1>3, <1>4, <1>5, <1>6, <1>7 DEF IInv

\* An item nobody waits for is dropped from the channel.
LEMMA SkipClosedInv == IInv /\ TypeOK' /\ SkipClosed => IInv'
<1> SUFFICES ASSUME IInv, TypeOK', SkipClosed PROVE IInv'
  OBVIOUS
<1>1. /\ worker = "coalesce" /\ queue # <<>> /\ call[Head(queue)] # "waiting"
      /\ queue' = Tail(queue)
      /\ UNCHANGED <<call, ticket, tickets, batch, kept, worker, carry, carry_pending,
                     drain, carry_lost>>
  BY DEF SkipClosed, CanRecv, Closed, clientVars, carryVars, drainVars
<1>2. OnlySentItems' /\ TicketsBounded'
  BY <1>1, TakeHead DEF OnlySentItems, Sent, TicketsBounded, IInv
<1>3. WorkerHolds' /\ NobodyWaitsInDrain' /\ CarryCounted' /\ NobodyShutDown' /\ CarryFlag'
  BY <1>1 DEF WorkerHolds, NobodyWaitsInDrain, CarryCounted, NobodyShutDown, CarryFlag, IInv
<1>4. NoLostRequest'
  BY <1>1, TakeHead DEF NoLostRequest, IInv
<1>5. InOrder'
  BY <1>1, TakeHead DEF InOrder, IInv
<1> QED
  BY <1>2, <1>3, <1>4, <1>5 DEF IInv

\* An item that does not fit becomes the carry.
LEMMA CarryOverInv == IInv /\ TypeOK' /\ CarryOver => IInv'
<1> SUFFICES ASSUME IInv, TypeOK', CarryOver PROVE IInv'
  OBVIOUS
<1>1. /\ worker = "coalesce" /\ queue # <<>> /\ call[Head(queue)] = "waiting"
      /\ queue' = Tail(queue) /\ carry' = Head(queue) /\ carry_pending' = TRUE
      /\ worker' = "cut" /\ drain' = drain /\ carry_lost' = carry_lost
      /\ UNCHANGED <<call, ticket, tickets, batch, kept>>
  BY DEF CarryOver, CanRecv, Closed, clientVars, drainVars
<1>2. carry = None /\ drain = "open"
  BY <1>1, TakeHead DEF IInv, WorkerHolds, NobodyWaitsInDrain
<1>3. OnlySentItems' /\ TicketsBounded'
  BY <1>1, TakeHead DEF OnlySentItems, Sent, TicketsBounded, IInv
<1>4. WorkerHolds' /\ NobodyWaitsInDrain' /\ CarryCounted' /\ NobodyShutDown'
  BY <1>1, <1>2 DEF WorkerHolds, NobodyWaitsInDrain, CarryCounted, NobodyShutDown, IInv
<1>5. CarryFlag'
  <2>1. carry' # None
    BY <1>1, TakeHead, BatcherAssumption
  <2> QED
    BY <1>1, <2>1 DEF CarryFlag
<1>6. NoLostRequest'
  BY <1>1, <1>2, TakeHead, BatcherAssumption DEF NoLostRequest, IInv
<1>7. InOrder'
  BY <1>1, <1>2, TakeHead DEF InOrder, IInv
<1> QED
  BY <1>3, <1>4, <1>5, <1>6, <1>7 DEF IInv

\* An item that fits joins the batch.
LEMMA CoalesceInv == IInv /\ TypeOK' /\ Coalesce => IInv'
<1> SUFFICES ASSUME IInv, TypeOK', Coalesce PROVE IInv'
  OBVIOUS
<1>1. /\ worker = "coalesce" /\ queue # <<>> /\ queue' = Tail(queue)
      /\ batch' = Append(batch, Head(queue))
      /\ UNCHANGED <<call, ticket, tickets, kept, worker, carry, carry_pending, drain,
                     carry_lost>>
  BY DEF Coalesce, CanRecv, clientVars, carryVars, drainVars
<1>2. carry = None
  BY <1>1 DEF IInv, WorkerHolds
<1>3. /\ Len(batch) \in Nat /\ DOMAIN batch = 1..Len(batch)
      /\ DOMAIN batch' = 1..(Len(batch) + 1)
      /\ \A i \in 1..Len(batch) : batch'[i] = batch[i]
      /\ batch'[Len(batch) + 1] = Head(queue)
  BY <1>1, TakeHead DEF IInv, TypeOK
<1>4. Len(batch) + 1 \in DOMAIN batch'
  BY <1>3
<1>5. OnlySentItems' /\ TicketsBounded'
  BY <1>1, <1>2, <1>3, TakeHead DEF OnlySentItems, Sent, TicketsBounded, IInv
<1>6. WorkerHolds' /\ NobodyWaitsInDrain' /\ CarryCounted' /\ NobodyShutDown' /\ CarryFlag'
  BY <1>1 DEF WorkerHolds, NobodyWaitsInDrain, CarryCounted, NobodyShutDown, CarryFlag, IInv
<1>7. NoLostRequest'
  <2>1. \A r \in Range(batch) : r \in Range(batch')
    BY <1>3 DEF Range
  <2>2. Head(queue) \in Range(batch')
    BY <1>3, <1>4 DEF Range
  <2> QED
    BY <1>1, <2>1, <2>2, TakeHead DEF NoLostRequest, IInv
<1>8. InOrder'
  <2>1. \A i \in DOMAIN batch : ticket[batch[i]] < ticket[Head(queue)]
    BY <1>1, TakeHead DEF InOrder, IInv
  <2> QED
    BY <1>1, <1>2, <1>3, <2>1, TakeHead DEF InOrder, IInv
<1> QED
  BY <1>5, <1>6, <1>7, <1>8 DEF IInv

\* retain drops only items nobody waits for.
LEMMA CutInv == IInv /\ TypeOK' /\ Cut => IInv'
<1> SUFFICES ASSUME IInv, TypeOK', Cut PROVE IInv'
  OBVIOUS
<1>1. /\ worker = "cut" /\ kept' = {r \in Range(batch) : call[r] = "waiting"}
      /\ UNCHANGED <<call, ticket, tickets, queue, carry, carry_pending, drain, carry_lost>>
  BY DEF Cut, Closed, clientVars, carryVars, drainVars
<1>2. \/ kept' = {} /\ batch' = <<>> /\ worker' = "top"
      \/ batch' = batch /\ worker' = "dispatch"
  BY DEF Cut
<1>3. DOMAIN batch' \subseteq DOMAIN batch /\ \A i \in DOMAIN batch' : batch'[i] = batch[i]
  BY <1>2
<1>4. OnlySentItems' /\ TicketsBounded' /\ InOrder'
  BY <1>1, <1>3 DEF OnlySentItems, Sent, TicketsBounded, InOrder, IInv
<1>5. WorkerHolds' /\ NobodyWaitsInDrain' /\ CarryCounted' /\ NobodyShutDown' /\ CarryFlag'
  BY <1>1, <1>2 DEF WorkerHolds, NobodyWaitsInDrain, CarryCounted, NobodyShutDown, CarryFlag, IInv
<1>6. NoLostRequest'
  BY <1>1, <1>2 DEF NoLostRequest, IInv
<1> QED
  BY <1>4, <1>5, <1>6 DEF IInv

\* run_worker preserves the invariant.
LEMMA WorkerInv == IInv /\ WorkerStep => IInv'
<1> SUFFICES ASSUME IInv, WorkerStep PROVE IInv'
  OBVIOUS
<1>0. TypeOK'
  BY WorkerType DEF IInv
<1>1. CASE WorkerExit \/ WindowEnds
  <2>1. /\ UNCHANGED <<call, ticket, tickets, queue, carry, carry_pending, batch, kept,
                       drain, carry_lost>>
        /\ \/ worker = "top" /\ carry = None /\ drain # "open" /\ worker' = "finished"
           \/ worker = "coalesce" /\ worker' = "cut"
    BY <1>1 DEF WorkerExit, WindowEnds, clientVars, carryVars, drainVars
  <2>2. OnlySentItems' /\ TicketsBounded' /\ InOrder'
    BY <2>1 DEF OnlySentItems, Sent, TicketsBounded, InOrder, IInv
  <2>3. WorkerHolds' /\ NobodyWaitsInDrain' /\ CarryCounted' /\ NobodyShutDown' /\ CarryFlag'
    BY <2>1 DEF WorkerHolds, NobodyWaitsInDrain, CarryCounted, NobodyShutDown, CarryFlag, IInv
  <2>4. NoLostRequest'
    BY <2>1 DEF NoLostRequest, IInv
  <2> QED
    BY <1>0, <2>2, <2>3, <2>4 DEF IInv
<1> QED
  BY <1>0, <1>1, TakeCarryInv, RecvFirstInv, SkipClosedInv, CarryOverInv, CoalesceInv, CutInv
     DEF WorkerStep

\* What the end of an inference does to the calls, whatever the outcome.
LEMMA EmbedEndsCalls ==
    ASSUME IInv, EmbedEnds
    PROVE  \E outcome \in {"ok", "inference"} :
               /\ worker = "dispatch" /\ worker' = "top" /\ batch' = <<>> /\ kept' = {}
               /\ call' = [r \in Requests |-> IF r \in kept /\ call[r] = "waiting"
                                              THEN outcome ELSE call[r]]
               /\ UNCHANGED <<ticket, tickets, queue, carry, carry_pending, drain, carry_lost>>
BY DEF EmbedEnds, EmbedReturns, EmbedFails, FanOut, Closed, NextBatch, carryVars, drainVars

\* dispatch_batch answers everybody in the batch.
LEMMA EmbedEndsInv == IInv /\ EmbedEnds => IInv'
<1> SUFFICES ASSUME IInv, EmbedEnds PROVE IInv'
  OBVIOUS
<1>0. TypeOK'
  BY EmbedEndsType DEF IInv
<1>1. PICK outcome \in {"ok", "inference"} :
          /\ worker = "dispatch" /\ worker' = "top" /\ batch' = <<>> /\ kept' = {}
          /\ call' = [r \in Requests |-> IF r \in kept /\ call[r] = "waiting"
                                         THEN outcome ELSE call[r]]
          /\ UNCHANGED <<ticket, tickets, queue, carry, carry_pending, drain, carry_lost>>
  BY EmbedEndsCalls
<1>2. DOMAIN batch' = {}
  BY <1>1
<1>3. \A r \in Requests : /\ Sent(r) => Sent(r)'
                          /\ call'[r] = "gated" => call[r] = "gated"
                          /\ call'[r] = "waiting" => call[r] = "waiting" /\ r \notin kept
                          /\ call'[r] = "shutdown" => call[r] = "shutdown"
  BY <1>1 DEF Sent
<1>4. OnlySentItems' /\ TicketsBounded' /\ InOrder'
  BY <1>1, <1>2, <1>3 DEF OnlySentItems, TicketsBounded, InOrder, IInv, TypeOK
<1>5. WorkerHolds' /\ NobodyWaitsInDrain' /\ CarryCounted' /\ NobodyShutDown' /\ CarryFlag'
  BY <1>1, <1>3 DEF WorkerHolds, NobodyWaitsInDrain, CarryCounted, NobodyShutDown, CarryFlag, IInv
<1>6. NoLostRequest'
  BY <1>1, <1>3 DEF NoLostRequest, IInv
<1> QED
  BY <1>0, <1>4, <1>5, <1>6 DEF IInv

\* shutdown preserves the invariant.
LEMMA ShutdownInv == IInv /\ Shutdown => IInv'
<1> SUFFICES ASSUME IInv, Shutdown PROVE IInv'
  OBVIOUS
<1>0. TypeOK'
  BY ShutdownType DEF IInv
<1>1. CASE AbortLands
  <2>1. drain = "aborting" /\ \A r \in Requests : call[r] \notin {"gated", "waiting"}
    BY <1>1 DEF AbortLands, IInv, NobodyWaitsInDrain
  <2>2. /\ \A r \in Requests : call'[r] = call[r]
        /\ queue' = <<>> /\ carry' = None /\ batch' = <<>> /\ worker' = "aborted"
        /\ UNCHANGED <<ticket, tickets, drain>>
    BY <1>1, <2>1 DEF AbortLands, drainVars
  <2>3. DOMAIN queue' = {} /\ DOMAIN batch' = {}
    BY <2>2
  <2>4. OnlySentItems' /\ TicketsBounded' /\ InOrder'
    BY <2>1, <2>2, <2>3 DEF OnlySentItems, TicketsBounded, InOrder, IInv
  <2>5. WorkerHolds' /\ NobodyWaitsInDrain' /\ CarryCounted' /\ NobodyShutDown' /\ CarryFlag'
    BY <2>1, <2>2 DEF WorkerHolds, NobodyWaitsInDrain, CarryCounted, NobodyShutDown,
       CarryFlag, IInv
  <2>6. NoLostRequest'
    BY <2>1, <2>2 DEF NoLostRequest
  <2> QED
    BY <1>0, <2>4, <2>5, <2>6 DEF IInv
<1>2. CASE BeginShutdown \/ ShutdownJoins \/ ShutdownExpires \/ RequestAbort
  <2>1. /\ UNCHANGED <<call, ticket, tickets, queue, carry, carry_pending, batch, kept, worker>>
        /\ \/ drain = "open" /\ drain' = "draining" /\ carry_lost' = carry_lost
              /\ \A r \in Requests : call[r] \notin {"gated", "waiting"}
           \/ drain = "draining" /\ drain' = "joined" /\ worker = "finished"
           \/ drain = "draining" /\ drain' = "expired" /\ carry_lost' = carry_pending
           \/ drain = "expired" /\ drain' = "aborting" /\ carry_lost' = carry_lost
    BY <1>2 DEF BeginShutdown, ShutdownJoins, ShutdownExpires, RequestAbort,
       clientVars, carryVars
  <2>2. OnlySentItems' /\ TicketsBounded' /\ InOrder' /\ NoLostRequest' /\ NobodyShutDown'
    BY <2>1 DEF OnlySentItems, Sent, TicketsBounded, InOrder, NoLostRequest,
       NobodyShutDown, IInv
  <2>3. WorkerHolds' /\ NobodyWaitsInDrain'
    BY <2>1 DEF WorkerHolds, NobodyWaitsInDrain, IInv
  <2>4. CarryFlag' /\ CarryCounted'
    <3>1. CarryFlag'
      BY <2>1 DEF CarryFlag, IInv
    <3>2. drain = "draining" /\ carry # None => carry_pending
      BY DEF CarryFlag, WorkerHolds, IInv
    <3>3. CarryCounted'
      BY <2>1, <3>2 DEF CarryCounted, IInv
    <3> QED
      BY <3>1, <3>3
  <2> QED
    BY <1>0, <2>2, <2>3, <2>4 DEF IInv
<1> QED
  BY <1>1, <1>2 DEF Shutdown

\* So does doing nothing.
LEMMA StutterInv == IInv /\ UNCHANGED vars => IInv'
<1> SUFFICES ASSUME IInv, UNCHANGED vars PROVE IInv'
  OBVIOUS
<1> QED
  BY StutterType DEF vars, clientVars, carryVars, drainVars, IInv, OnlySentItems, Sent,
     TicketsBounded, WorkerHolds, NobodyWaitsInDrain, CarryFlag, CarryCounted,
     NobodyShutDown, NoLostRequest, InOrder

\* The invariant is inductive.
LEMMA NextInv == IInv /\ [Next]_vars => IInv'
BY CallerInv, WorkerInv, EmbedEndsInv, ShutdownInv, StutterInv DEF Next, Stopped

\* It holds in every reachable state.
LEMMA Invariance == Spec => []IInv
BY InitInv, NextInv, PTL DEF Spec

\* While a caller awaits its reply its item is in the channel, the carry slot
\* or the batch: run_worker never drops a live item.
THEOREM NothingLost == Spec => []NoLostRequest
<1>1. IInv => NoLostRequest
  BY DEF IInv
<1> QED
  BY <1>1, Invariance, PTL

\* run_worker serves items in the order in which try_send accepted them: the
\* carried item goes after its batch and before the channel.
THEOREM ArrivalOrder == Spec => []InOrder
<1>1. IInv => InOrder
  BY DEF IInv
<1> QED
  BY <1>1, Invariance, PTL

\* embed_tokens never returns BatchError::Shutdown to a caller.
THEOREM ShutdownUnseen == Spec => []NobodyShutDown
<1>1. IInv => NobodyShutDown
  BY DEF IInv
<1> QED
  BY <1>1, Invariance, PTL

\* An abort that discards a carried item has been counted by shutdown, whose
\* read of carry_pending comes before the abort.
THEOREM LossCounted == Spec => LostCarryIsCounted
<1>1. IInv /\ [Next]_vars => [worker' = "aborted" /\ carry # None => carry_lost]_vars
  <2> SUFFICES ASSUME IInv, [Next]_vars, worker' = "aborted", carry # None
               PROVE  carry_lost \/ UNCHANGED vars
    OBVIOUS
  <2>1. CASE AbortLands
    BY <2>1 DEF AbortLands, IInv, CarryCounted
  <2>2. CASE worker = "aborted"
    BY <2>2 DEF IInv, WorkerHolds
  <2>3. CASE \E r \in Requests : Caller(r)
    BY <2>2, <2>3 DEF Caller, EmbedEmpty, PassGate, RejectAtGate, TrySend, TrySendFull, Disconnect
  <2>4. CASE WorkerStep
    <3>1. ~Cut
      BY DEF Cut
    <3> QED
      BY <2>2, <2>4, <3>1 DEF WorkerStep, TakeCarry, RecvFirst, StartBatch, WorkerExit,
         SkipClosed, CarryOver, Coalesce, WindowEnds
  <2>5. CASE EmbedEnds
    BY <2>5 DEF EmbedEnds, EmbedReturns, EmbedFails, NextBatch
  <2>6. CASE BeginShutdown \/ ShutdownJoins \/ ShutdownExpires \/ RequestAbort
    BY <2>2, <2>6 DEF BeginShutdown, ShutdownJoins, ShutdownExpires, RequestAbort
  <2> QED
    BY <2>1, <2>3, <2>4, <2>5, <2>6 DEF Next, Shutdown, Stopped
<1> QED
  BY <1>1, Invariance, PTL DEF Spec, LostCarryIsCounted

------------------------------------------------------------------------------
(* The batcher implements FifoService.                                      *)

\* The end of an inference is one service of a group.
LEMMA ServeStep ==
    ASSUME IInv, EmbedEnds
    PROVE  [Fifo!Next]_(Fifo!vars)
<1>1. PICK outcome \in {"ok", "inference"} :
          /\ worker = "dispatch" /\ worker' = "top" /\ batch' = <<>> /\ kept' = {}
          /\ call' = [r \in Requests |-> IF r \in kept /\ call[r] = "waiting"
                                         THEN outcome ELSE call[r]]
          /\ UNCHANGED <<ticket, tickets, queue, carry, carry_pending, drain, carry_lost>>
  BY EmbedEndsCalls
<1> DEFINE S == {r \in kept : call[r] = "waiting"}
<1>2. S \subseteq Fifo!Waiting
  BY DEF Fifo!Waiting, IInv, TypeOK
<1>3. call' = [r \in Requests |-> IF r \in S THEN outcome ELSE call[r]]
  BY <1>1
<1>4. CASE S = {}
  <2>1. call' = call
    BY <1>3, <1>4 DEF IInv, TypeOK
  <2> QED
    BY <1>1, <2>1 DEF Fifo!vars
<1>5. CASE S # {}
  <2>1. ASSUME NEW s \in S, NEW w \in Fifo!Waiting \ S
        PROVE  ticket[s] < ticket[w]
    <3>1. PICK i \in DOMAIN batch : batch[i] = s
      BY <1>1 DEF IInv, WorkerHolds, Range
    <3>2. w \in Range(queue) \/ (carry = w /\ carry # None)
      BY <1>1, BatcherAssumption DEF IInv, NoLostRequest, Fifo!Waiting
    <3> QED
      BY <3>1, <3>2 DEF IInv, InOrder, Range
  <2>2. Fifo!Serve(S, outcome)
    <3>1. Fifo!IsOldest(S)
      BY <2>1 DEF Fifo!IsOldest
    <3> HIDE DEF S
    <3> QED
      BY <1>1, <1>2, <1>3, <1>5, <3>1 DEF Fifo!Serve
  <2>3. S \in SUBSET Requests
    BY DEF IInv, TypeOK
  <2> HIDE DEF S
  <2> QED
    BY <2>2, <2>3 DEF Fifo!Next
<1> QED
  BY <1>4, <1>5

\* Every step is one of the service or leaves it as it is.
LEMMA RefinementStep == IInv /\ [Next]_vars => [Fifo!Next]_(Fifo!vars)
<1> SUFFICES ASSUME IInv, [Next]_vars PROVE [Fifo!Next]_(Fifo!vars)
  OBVIOUS
<1>1. ASSUME NEW r \in Requests, Caller(r)
      PROVE  Fifo!Next
  <2>1. CASE EmbedEmpty(r)
    BY <2>1 DEF EmbedEmpty, CanCall, Fifo!Trivial, Fifo!Next
  <2>2. CASE PassGate(r)
    BY <2>2 DEF PassGate, CanCall, Fifo!Gate, Fifo!Next
  <2>3. CASE RejectAtGate(r)
    BY <2>3 DEF RejectAtGate, CanCall, Fifo!Reject, Fifo!Next
  <2>4. CASE TrySend(r)
    BY <2>4 DEF TrySend, Fifo!Admit, Fifo!Next
  <2>5. CASE TrySendFull(r)
    BY <2>5 DEF TrySendFull, Fifo!Reject, Fifo!Next
  <2>6. CASE Disconnect(r)
    BY <2>6 DEF Disconnect, Fifo!Abandon, Fifo!Next
  <2> QED
    BY <1>1, <2>1, <2>2, <2>3, <2>4, <2>5, <2>6 DEF Caller
<1>2. CASE WorkerStep
  BY <1>2 DEF WorkerStep, TakeCarry, RecvFirst, StartBatch, WorkerExit, SkipClosed, CarryOver,
     Coalesce, WindowEnds, Cut, clientVars, Fifo!vars
<1>3. CASE Shutdown
  <2>1. CASE AbortLands
    <3>1. \A r \in Requests : call[r] # "waiting"
      BY <2>1 DEF AbortLands, IInv, NobodyWaitsInDrain
    <3>2. call' = call
      BY <2>1, <3>1 DEF AbortLands, IInv, TypeOK
    <3> QED
      BY <2>1, <3>2 DEF AbortLands, Fifo!vars
  <2>2. CASE ~AbortLands
    BY <1>3, <2>2 DEF Shutdown, BeginShutdown, ShutdownJoins, ShutdownExpires, RequestAbort,
       clientVars, Fifo!vars
  <2> QED
    BY <2>1, <2>2
<1>4. CASE UNCHANGED vars
  BY <1>4 DEF vars, clientVars, Fifo!vars
<1> QED
  BY <1>1, <1>2, <1>3, <1>4, ServeStep DEF Next, Stopped

\* Queue, carry slot, batching, cancellation and shutdown together give every
\* caller first-come-first-served group service.
THEOREM Refinement == Spec => RefinesFifo
<1>1. Init => Fifo!Init
  BY DEF Init, Fifo!Init
<1> QED
  BY <1>1, RefinementStep, Invariance, PTL DEF Spec, RefinesFifo, Fifo!Spec

------------------------------------------------------------------------------
(* The caps of a shared batch, for the running aggregate that run_worker      *)
(* keeps and reports.                                                         *)

\* As soon as two requests share a batch, the aggregate is within the item
\* cap and the token budget and no request is above the sequence cap.
SharedWithinCaps ==
    Len(batch) >= 2 => /\ accum.items <= MaxBatchItems
                       /\ Cost(accum) < MaxBatchTokens
                       /\ \A i \in DOMAIN batch : Shape[batch[i]].max_seq_len <= MaxBatchSeq

\* The aggregate covers the longest request and is above zero, which is what
\* makes the sequence gate fire for every item after the first.
AccumCovers == /\ \A i \in DOMAIN batch : Shape[batch[i]].max_seq_len <= accum.max_len
               /\ Len(batch) >= 1 => accum.items > 0
               /\ Len(batch) >= 2 => /\ accum.items <= MaxBatchItems
                                     /\ Cost(accum) < MaxBatchTokens
                                     /\ accum.max_len <= MaxBatchSeq

\* A batch of one is covered by its aggregate.
LEMMA StartCovers ==
    ASSUME TypeOK, NEW r \in Requests, Sent(r), StartBatch(r)
    PROVE  AccumCovers'
<1>1. /\ batch' = <<r>> /\ Len(batch') = 1 /\ DOMAIN batch' = {1} /\ batch'[1] = r
      /\ accum' = Push(EmptyAccum, r)
  BY DEF StartBatch
<1>2. Shape[r] \in ShapeType
  BY BatcherAssumption
<1>3. /\ Push(EmptyAccum, r).max_len >= Shape[r].max_seq_len
      /\ Push(EmptyAccum, r).items > 0
  BY <1>2 DEF Push, EmptyAccum, MaxOf, ShapeType, Sent
<1> QED
  BY <1>1, <1>3 DEF AccumCovers

\* One item more still is.
LEMMA CoalesceCovers ==
    ASSUME IInv, AccumCovers, Coalesce
    PROVE  AccumCovers'
<1> DEFINE r == Head(queue)
<1>1. /\ queue # <<>> /\ ~Overflows(accum, r) /\ batch' = Append(batch, r)
      /\ accum' = Push(accum, r)
  BY DEF Coalesce, CanRecv
<1>2. r \in Requests /\ Sent(r)
  BY <1>1, TakeHead
<1>3. Shape[r] \in ShapeType /\ accum \in AccumType
  BY <1>2, BatcherAssumption DEF IInv, TypeOK, AccumType
<1>4. /\ Push(accum, r).max_len >= accum.max_len
      /\ Push(accum, r).max_len >= Shape[r].max_seq_len
      /\ Push(accum, r).items > 0
      /\ Push(accum, r).max_len \in Nat
  BY <1>2, <1>3 DEF Push, MaxOf, ShapeType, AccumType, Sent
<1>5. /\ Len(batch) \in Nat /\ DOMAIN batch = 1..Len(batch)
      /\ Len(batch') = Len(batch) + 1 /\ DOMAIN batch' = 1..(Len(batch) + 1)
      /\ \A i \in 1..Len(batch) : batch'[i] = batch[i] /\ batch[i] \in Requests
      /\ batch'[Len(batch) + 1] = r
  BY <1>1, <1>2 DEF IInv, TypeOK
<1>6. Fits(accum, r) /\ (accum.items > 0 => ~SeqCappedBy(accum, r))
  BY <1>1 DEF Overflows
<1>7. \A i \in DOMAIN batch' : Shape[batch'[i]].max_seq_len <= accum'.max_len
  <2>1. ASSUME NEW i \in 1..Len(batch)
        PROVE  Shape[batch'[i]].max_seq_len <= accum'.max_len
    <3>1. Shape[batch[i]] \in ShapeType
      BY <1>5, BatcherAssumption
    <3>2. Shape[batch[i]].max_seq_len \in Nat
      BY <3>1 DEF ShapeType
    <3> QED
      BY <1>1, <1>3, <1>4, <1>5, <3>2 DEF AccumCovers, AccumType
  <2> QED
    BY <1>1, <1>4, <1>5, <2>1
<1>8. Len(batch') >= 2 => accum.items > 0
  BY <1>5 DEF AccumCovers
<1> HIDE DEF r
<1> QED
  BY <1>1, <1>3, <1>4, <1>6, <1>7, <1>8, BatcherAssumption
     DEF AccumCovers, Fits, SeqCappedBy, AccumType

\* The aggregate covers every item of the batch.
LEMMA NextCovers == IInv /\ AccumCovers /\ [Next]_vars => AccumCovers'
<1> SUFFICES ASSUME IInv, AccumCovers, [Next]_vars PROVE AccumCovers'
  OBVIOUS
<1>1. CASE UNCHANGED <<batch, accum>>
  BY <1>1 DEF AccumCovers, Cost
<1>2. CASE batch' = <<>>
  BY <1>2 DEF AccumCovers
<1>3. CASE TakeCarry
  BY <1>3, StartCovers DEF TakeCarry, IInv, OnlySentItems, TypeOK
<1>4. CASE RecvFirst
  BY <1>4, StartCovers, TakeHead DEF RecvFirst, IInv
<1>5. CASE Coalesce
  BY <1>5, CoalesceCovers
<1>6. CASE Cut
  BY <1>1, <1>2, <1>6 DEF Cut
<1>7. CASE EmbedEnds
  BY <1>2, <1>7 DEF EmbedEnds, EmbedReturns, EmbedFails, NextBatch
<1>8. CASE WorkerExit \/ SkipClosed \/ CarryOver \/ WindowEnds
  BY <1>1, <1>8 DEF WorkerExit, SkipClosed, CarryOver, WindowEnds
<1>9. CASE \E r \in Requests : Caller(r)
  BY <1>1, <1>9 DEF Caller, EmbedEmpty, PassGate, RejectAtGate, TrySend, TrySendFull, Disconnect
<1>10. CASE Shutdown
  BY <1>1, <1>2, <1>10 DEF Shutdown, BeginShutdown, ShutdownJoins, ShutdownExpires, RequestAbort,
     AbortLands
<1>11. CASE UNCHANGED vars
  BY <1>1, <1>11 DEF vars
<1> QED
  BY <1>3, <1>4, <1>5, <1>6, <1>7, <1>8, <1>9, <1>10, <1>11 DEF Next, WorkerStep, Stopped

\* Only a batch of a single request may exceed BATCH_MAX, BATCH_MAX_TOKENS or
\* BATCH_MAX_SEQ: the starvation guard of run_worker never lets a second one in.
THEOREM BatchCaps == Spec => []SharedWithinCaps
<1>1. Init => AccumCovers
  <2>1. Init => DOMAIN batch = {} /\ Len(batch) = 0
    BY DEF Init
  <2> QED
    BY <2>1 DEF AccumCovers
<1>2. IInv /\ AccumCovers => SharedWithinCaps
  <2> SUFFICES ASSUME IInv, AccumCovers, Len(batch) >= 2, NEW i \in DOMAIN batch
               PROVE  Shape[batch[i]].max_seq_len <= MaxBatchSeq
    BY DEF AccumCovers, SharedWithinCaps
  <2>1. batch[i] \in Requests
    BY DEF IInv, TypeOK
  <2>2. Shape[batch[i]] \in ShapeType
    BY <2>1, BatcherAssumption
  <2>3. Shape[batch[i]].max_seq_len \in Nat /\ accum.max_len \in Nat
    BY <2>2 DEF ShapeType, IInv, TypeOK
  <2> QED
    BY <2>3, BatcherAssumption DEF AccumCovers
<1> QED
  BY <1>1, <1>2, NextCovers, Invariance, PTL DEF Spec

------------------------------------------------------------------------------
(* Whose vectors a reply carries.  Offsets are sums of the counts before: by   *)
(* induction on the items, the k-th stretch of the flattened texts starts at    *)
(* the sum of the first k - 1 counts, which is where reply k drains.            *)

\* Totals is a recursive function: it exists, and is what its equations say.
LEMMA TotalsDef ==
    ASSUME NEW ns \in Seq(Nat)
    PROVE  /\ Totals(ns) \in [0..Len(ns) -> Nat]
           /\ Totals(ns)[0] = 0
           /\ \A i \in 1..Len(ns) : Totals(ns)[i] = Totals(ns)[i - 1] + ns[i]
<1> DEFINE n == Len(ns)
           step == [p \in Nat \X Nat |-> IF p[1] \in 1..n THEN p[2] + ns[p[1]] ELSE 0]
<1>1. n \in Nat /\ \A i \in 1..n : ns[i] \in Nat
  OBVIOUS
<1>2. step \in [Nat \X Nat -> Nat]
  <2>1. ASSUME NEW p \in Nat \X Nat
        PROVE  (IF p[1] \in 1..n THEN p[2] + ns[p[1]] ELSE 0) \in Nat
    BY <1>1
  <2> QED
    BY <2>1
<1>3. \A i \in 1..n, x \in Nat : step[<<i, x>>] = x + ns[i]
  BY <1>1
<1> HIDE DEF step
<1>4. PICK g \in [0..n -> Nat] : g[0] = 0 /\ \A i \in 1..n : g[i] = step[<<i, g[i - 1]>>]
  <2> DEFINE S == Nat
             zero == 0
  <2>1. n \in Nat /\ zero \in S /\ step \in [Nat \X S -> S]
    BY <1>2
  <2> HIDE DEF n, S, zero
  <2>2. \E g : Run(g, n, S, zero, step)
    BY <2>1, Iterates
  <2> QED
    BY <2>2 DEF S, zero, Run
<1>5. ASSUME NEW i \in 1..n PROVE i - 1 \in 0..n /\ g[i] = g[i - 1] + ns[i]
  <2>1. i - 1 \in 0..n
    BY <1>1
  <2> QED
    BY <2>1, <1>3, <1>4
<1>6. g = [i \in 0..n |-> IF i = 0 THEN 0 ELSE g[i - 1] + ns[i]]
  <2>1. ASSUME NEW i \in 0..n PROVE g[i] = IF i = 0 THEN 0 ELSE g[i - 1] + ns[i]
    <3>1. i # 0 => i \in 1..n
      BY <1>1
    <3> QED
      BY <1>4, <1>5, <3>1
  <2> QED
    BY <2>1
<1>7. Totals(ns) = [i \in 0..n |-> IF i = 0 THEN 0 ELSE Totals(ns)[i - 1] + ns[i]]
  BY <1>6 DEF Totals
<1> DEFINE t == Totals(ns)
<1> HIDE DEF t
<1>8. /\ DOMAIN t = 0..n /\ t[0] = 0
      /\ \A i \in 1..n : t[i] = t[i - 1] + ns[i]
  <2>1. t = [i \in 0..n |-> IF i = 0 THEN 0 ELSE t[i - 1] + ns[i]]
    BY <1>7 DEF t
  <2>2. 0 \in 0..n /\ \A i \in 1..n : i \in 0..n /\ i # 0
    BY <1>1
  <2> QED
    BY <2>1, <2>2
<1>9. 0..n \subseteq {i \in 0..n : t[i] = g[i]}
  <2> DEFINE P == {i \in 0..n : t[i] = g[i]}
  <2>1. 0 \in P
    BY <1>1, <1>4, <1>8
  <2>2. ASSUME NEW i \in 1..n, i - 1 \in P PROVE i \in P
    BY <2>2, <1>5, <1>8
  <2> HIDE DEF P, n
  <2>3. 0..n \subseteq P
    BY <2>1, <2>2, <1>1, UpTo
  <2> QED
    BY <2>3 DEF P
<1>10. t = [i \in 0..n |-> t[i]] /\ g = [i \in 0..n |-> g[i]]
  BY <1>7, <1>8 DEF t
<1>11. t = g
  BY <1>9, <1>10
<1> QED
  BY <1>8, <1>11 DEF t

\* `retain` keeps every item it is asked to keep.
LEMMA RetainedDef ==
    ASSUME NEW items \in Seq(Requests), NEW keep
    PROVE  /\ Retained(items, keep) \in Seq(Requests)
           /\ \A k \in 1..Len(items) : items[k] \in keep =>
                 \E j \in 1..Len(Retained(items, keep)) : Retained(items, keep)[j] = items[k]
<1> DEFINE n == Len(items)
           S == Seq(Requests)
           Longer(s, i) == IF items[i] \in keep THEN Append(s, items[i]) ELSE s
           step == [p \in Nat \X S |-> IF p[1] \in 1..n THEN Longer(p[2], p[1]) ELSE <<>>]
           empty == <<>>
           left[i \in 0..Len(items)] ==
               IF i = 0 THEN <<>>
               ELSE IF items[i] \in keep THEN Append(left[i - 1], items[i]) ELSE left[i - 1]
<1>0. Retained(items, keep) = left[n]
  BY DEF Retained
<1>1. n \in Nat /\ empty \in S /\ \A i \in 1..n : items[i] \in Requests
  OBVIOUS
<1>2. \A i \in 1..n, s \in S : Longer(s, i) \in S
  BY <1>1
<1>3. /\ step \in [Nat \X S -> S]
      /\ \A i \in 1..n, s \in S : step[<<i, s>>] = Longer(s, i)
  <2> HIDE DEF Longer, S, n
  <2>1. ASSUME NEW p \in Nat \X S
        PROVE  (IF p[1] \in 1..n THEN Longer(p[2], p[1]) ELSE <<>>) \in S
    BY <1>1, <1>2 DEF empty
  <2>2. \A i \in 1..n : i \in Nat
    BY <1>1
  <2> QED
    BY <2>1, <2>2
<1>4. PICK g : Run(g, n, S, empty, step)
  <2> HIDE DEF n, S, empty, step
  <2> QED
    BY <1>1, <1>3, Iterates
<1> HIDE DEF step, S
<1>5. ASSUME NEW i \in 1..n PROVE g[i - 1] \in S /\ g[i] = Longer(g[i - 1], i)
  <2>1. i - 1 \in 0..n
    BY <1>1
  <2> QED
    BY <2>1, <1>3, <1>4 DEF Run
<1>6. g = [i \in 0..Len(items) |-> IF i = 0 THEN <<>>
               ELSE IF items[i] \in keep THEN Append(g[i - 1], items[i]) ELSE g[i - 1]]
  <2>1. ASSUME NEW i \in 0..n
        PROVE  g[i] = IF i = 0 THEN <<>> ELSE Longer(g[i - 1], i)
    <3>1. i # 0 => i \in 1..n
      BY <1>1
    <3> QED
      BY <1>4, <1>5, <3>1 DEF Run
  <2> QED
    BY <2>1, <1>4 DEF Run
<1>7. left = [i \in 0..Len(items) |-> IF i = 0 THEN <<>>
               ELSE IF items[i] \in keep THEN Append(left[i - 1], items[i]) ELSE left[i - 1]]
  BY <1>6
<1> HIDE DEF left
<1>8. left[0] = <<>> /\ \A i \in 1..n : left[i] = Longer(left[i - 1], i)
  <2>1. 0 \in 0..n /\ \A i \in 1..n : i \in 0..n /\ i # 0
    BY <1>1
  <2> QED
    BY <1>7, <2>1
<1> DEFINE Has(s, k) == items[k] \in keep => \E j \in 1..Len(s) : s[j] = items[k]
           P == {m \in 0..n : left[m] \in Seq(Requests) /\ \A k \in 1..m : Has(left[m], k)}
<1>9. 0 \in P
  <2>1. left[0] \in Seq(Requests) /\ 0 \in 0..n /\ 1..0 = {}
    BY <1>1, <1>8
  <2> QED
    BY <2>1
<1>10. ASSUME NEW m \in 1..n, m - 1 \in P PROVE m \in P
  <2> DEFINE s == left[m - 1]
             u == left[m]
  <2>1. s \in Seq(Requests) /\ u = Longer(s, m) /\ items[m] \in Requests
    BY <1>10, <1>8, <1>1
  <2>2. \A k \in 1..(m - 1) : Has(s, k)
    BY <1>10
  <2> HIDE DEF s, u
  <2>3. /\ u \in Seq(Requests)
        /\ \A j \in 1..Len(s) : j \in 1..Len(u) /\ u[j] = s[j]
        /\ items[m] \in keep => Len(u) \in 1..Len(u) /\ u[Len(u)] = items[m]
    BY <2>1
  <2>4. ASSUME NEW k \in 1..m PROVE Has(u, k)
    <3>1. CASE k = m
      BY <3>1, <2>3
    <3>2. CASE k # m
      <4>1. k \in 1..(m - 1)
        BY <3>2
      <4> QED
        BY <4>1, <2>2, <2>3
    <3> QED
      BY <3>1, <3>2
  <2>5. m \in 0..n
    BY <1>1
  <2> QED
    BY <2>3, <2>4, <2>5 DEF u
<1>11. 0..n \subseteq P
  <2> HIDE DEF P, n
  <2> QED
    BY <1>1, <1>9, <1>10, UpTo
<1>12. n \in P
  BY <1>1, <1>11
<1> QED
  BY <1>0, <1>12

\* A number more adds itself to the sum.
LEMMA SumAppend ==
    ASSUME NEW ns \in Seq(Nat), NEW x \in Nat
    PROVE  Sum(Append(ns, x)) = Sum(ns) + x
<1> DEFINE n == Len(ns)
           ms == Append(ns, x)
           P == {i \in 0..n : Totals(ms)[i] = Totals(ns)[i]}
<1>1. /\ ms \in Seq(Nat) /\ Len(ms) = n + 1 /\ n \in Nat /\ ms[n + 1] = x
      /\ \A i \in 1..n : ms[i] = ns[i]
  OBVIOUS
<1> HIDE DEF ms
<1>2. /\ Totals(ms)[0] = 0
      /\ \A i \in 1..(n + 1) : Totals(ms)[i] = Totals(ms)[i - 1] + ms[i]
  BY <1>1, TotalsDef
<1>3. Totals(ns)[0] = 0 /\ \A i \in 1..n : Totals(ns)[i] = Totals(ns)[i - 1] + ns[i]
  BY TotalsDef
<1>4. 0 \in P
  BY <1>1, <1>2, <1>3
<1>5. ASSUME NEW i \in 1..n, i - 1 \in P PROVE i \in P
  <2>1. i \in 1..(n + 1) /\ i \in 0..n
    BY <1>1
  <2> QED
    BY <2>1, <1>1, <1>2, <1>3, <1>5
<1>6. 0..n \subseteq P
  <2> HIDE DEF P, n
  <2> QED
    BY <1>1, <1>4, <1>5, UpTo
<1>7. n \in P /\ n + 1 \in 1..(n + 1) /\ (n + 1) - 1 = n
  BY <1>1, <1>6
<1> QED
  BY <1>1, <1>2, <1>7 DEF Sum, ms

\* The texts of item i, which Flatten puts one after the other.
Stretch(items, i) == [j \in 1..Counts(items)[i] |-> <<items[i], j>>]

\* The flat list of texts is made of one stretch for each item.
LEMMA Stretches ==
    ASSUME NEW items \in Seq(Requests)
    PROVE  /\ Counts(items) \in Seq(Nat) /\ Len(Counts(items)) = Len(items)
           /\ \A i \in 1..Len(items) : /\ Counts(items)[i] = Shape[items[i]].n_texts
                                       /\ Stretch(items, i) \in Seq(Requests \X Nat)
                                       /\ Len(Stretch(items, i)) = Counts(items)[i]
<1>1. DOMAIN items = 1..Len(items) /\ Len(items) \in Nat
  OBVIOUS
<1>2. ASSUME NEW i \in 1..Len(items)
      PROVE  Shape[items[i]].n_texts \in Nat /\ items[i] \in Requests
  BY BatcherAssumption DEF ShapeType
<1>3. /\ Counts(items) \in Seq(Nat) /\ Len(Counts(items)) = Len(items)
      /\ \A i \in 1..Len(items) : Counts(items)[i] = Shape[items[i]].n_texts
  BY <1>1, <1>2 DEF Counts
<1>4. ASSUME NEW i \in 1..Len(items)
      PROVE  /\ Stretch(items, i) \in Seq(Requests \X Nat)
             /\ Len(Stretch(items, i)) = Counts(items)[i]
  <2> DEFINE c == Counts(items)[i]
  <2>1. c \in Nat
    BY <1>2, <1>3
  <2> HIDE DEF c
  <2>2. [j \in 1..c |-> <<items[i], j>>] \in Seq(Requests \X Nat)
    BY <1>2, <2>1
  <2>3. Len([j \in 1..c |-> <<items[i], j>>]) = c
    BY <2>1
  <2> QED
    BY <2>2, <2>3 DEF c, Stretch
<1> QED
  BY <1>3, <1>4

\* Flatten is reached by appending one stretch after the other.
LEMMA FlattenRun ==
    ASSUME NEW items \in Seq(Requests)
    PROVE  \E g : /\ g \in [0..Len(items) -> Seq(Requests \X Nat)]
                  /\ g[0] = <<>> /\ g[Len(items)] = Flatten(items)
                  /\ \A i \in 1..Len(items) : g[i] = g[i - 1] \o Stretch(items, i)
<1> DEFINE n == Len(items)
           S == Seq(Requests \X Nat)
           seqs == [i \in DOMAIN items |-> [j \in 1..Counts(items)[i] |-> <<items[i], j>>]]
           step == [p \in Nat \X S |-> IF p[1] \in 1..n THEN p[2] \o Stretch(items, p[1]) ELSE <<>>]
           empty == <<>>
           flatten[i \in 1..Len(seqs)] == IF i = 1 THEN seqs[i] ELSE flatten[i-1] \o seqs[i]
<1>1. n \in Nat /\ empty \in S /\ DOMAIN items = 1..n
  OBVIOUS
<1>2. /\ Len(seqs) = n /\ DOMAIN seqs = 1..n
      /\ \A i \in 1..n : seqs[i] = Stretch(items, i) /\ seqs[i] \in S
  BY <1>1, Stretches DEF Stretch
<1>3. Flatten(items) = IF n = 0 THEN seqs ELSE flatten[n]
  <2>1. Flatten(items) = IF Len(seqs) = 0 THEN seqs ELSE flatten[Len(seqs)]
    BY DEF Flatten, FlattenSeq
  <2> HIDE DEF seqs, flatten
  <2> QED
    BY <1>2, <2>1
<1> HIDE DEF seqs
<1>4. \A i \in 1..n, s \in S : s \o Stretch(items, i) \in S
  BY Stretches
<1> HIDE DEF S, n
<1>5. /\ step \in [Nat \X S -> S]
      /\ \A i \in 1..n, s \in S : step[<<i, s>>] = s \o Stretch(items, i)
  <2>1. ASSUME NEW p \in Nat \X S
        PROVE  (IF p[1] \in 1..n THEN p[2] \o Stretch(items, p[1]) ELSE <<>>) \in S
    BY <1>1, <1>4 DEF empty
  <2>2. \A i \in 1..n : i \in Nat
    BY <1>1
  <2> QED
    BY <2>1, <2>2
<1>6. PICK g : Run(g, n, S, empty, step)
  <2> HIDE DEF empty, step
  <2> QED
    BY <1>1, <1>5, Iterates
<1> HIDE DEF step
<1>7. ASSUME NEW i \in 1..n PROVE g[i - 1] \in S /\ g[i] = g[i - 1] \o Stretch(items, i)
  <2>1. i - 1 \in 0..n
    BY <1>1
  <2> QED
    BY <2>1, <1>5, <1>6 DEF Run
<1>8. 1 \in 1..n => g[1] = Stretch(items, 1)
  <2> SUFFICES ASSUME 1 \in 1..n PROVE g[1] = Stretch(items, 1)
    OBVIOUS
  <2>1. g[1] = g[0] \o Stretch(items, 1) /\ g[0] = <<>>
    <3>1. g[1] = g[1 - 1] \o Stretch(items, 1)
      BY <1>7
    <3>2. 1 - 1 = 0
      OBVIOUS
    <3> QED
      BY <3>1, <3>2, <1>6 DEF Run, empty
  <2>2. Stretch(items, 1) \in Seq(Requests \X Nat)
    BY Stretches DEF n
  <2> QED
    BY <2>1, <2>2
<1> DEFINE h == [i \in 1..Len(seqs) |-> g[i]]
<1>9. h = [i \in 1..Len(seqs) |-> IF i = 1 THEN seqs[i] ELSE h[i-1] \o seqs[i]]
  <2>1. ASSUME NEW i \in 1..n PROVE h[i] = IF i = 1 THEN seqs[i] ELSE h[i - 1] \o seqs[i]
    <3>1. i # 1 => i - 1 \in 1..n
      BY <1>1
    <3> QED
      BY <1>2, <1>7, <1>8, <3>1
  <2> QED
    BY <2>1, <1>2
<1>10. flatten = [i \in 1..Len(seqs) |-> IF i = 1 THEN seqs[i] ELSE flatten[i-1] \o seqs[i]]
  BY <1>9
<1> HIDE DEF flatten
<1> DEFINE P == {i \in 0..n : i # 0 => flatten[i] = g[i]}
<1>11. 0 \in P
  BY <1>1
<1>12. ASSUME NEW i \in 1..n, i - 1 \in P PROVE i \in P
  <2>1. flatten[i] = IF i = 1 THEN seqs[i] ELSE flatten[i-1] \o seqs[i]
    BY <1>2, <1>10
  <2>2. i # 1 => i - 1 # 0
    BY <1>1
  <2> QED
    <3>1. i \in 0..n
      BY <1>1
    <3>2. CASE i = 1
      BY <3>1, <3>2, <1>2, <1>8, <2>1
    <3>3. CASE i # 1
      BY <3>1, <3>3, <1>2, <1>7, <1>12, <2>1, <2>2
    <3> QED
      BY <3>2, <3>3
<1>13. 0..n \subseteq P
  <2> HIDE DEF P
  <2> QED
    BY <1>1, <1>11, <1>12, UpTo
<1>14. g[n] = Flatten(items)
  <2>1. CASE n = 0
    <3>1. seqs = <<>>
      BY <1>2, <2>1 DEF seqs
    <3> QED
      BY <2>1, <3>1, <1>3, <1>6 DEF Run, empty
  <2>2. CASE n # 0
    BY <2>2, <1>1, <1>3, <1>13
  <2> QED
    BY <2>1, <2>2
<1> QED
  BY <1>6, <1>7, <1>14 DEF Run, empty, n, S

\* What SubSeq cuts out behind the first o elements.
LEMMA Slice ==
    ASSUME NEW S, NEW s \in Seq(S), NEW o \in Nat, NEW n \in Nat, o + n <= Len(s)
    PROVE  SubSeq(s, o + 1, o + n) = [j \in 1..n |-> s[o + j]]
<1> DEFINE lo == o + 1
           hi == o + n
           u == SubSeq(s, lo, hi)
<1>1. /\ lo \in Int /\ hi \in Int /\ hi - lo + 1 = n
      /\ (IF lo <= hi THEN hi - lo + 1 ELSE 0) = n
  OBVIOUS
<1>2. \A k \in lo..hi : s[k] \in S
  OBVIOUS
<1> HIDE DEF lo, hi
<1>3. /\ u \in Seq(S)
      /\ Len(u) = IF lo <= hi THEN hi - lo + 1 ELSE 0
      /\ \A j \in 1..(hi - lo + 1) : u[j] = s[lo + j - 1]
  BY <1>1, <1>2, SubSeqProperties
<1> HIDE DEF u
<1>4. u = [j \in 1..n |-> u[j]]
  BY <1>1, <1>3
<1>5. ASSUME NEW j \in 1..n PROVE u[j] = s[o + j]
  <2>1. lo + j - 1 = o + j
    BY DEF lo
  <2> QED
    BY <2>1, <1>1, <1>3
<1> QED
  BY <1>4, <1>5 DEF u, lo, hi

\* Reply i drains exactly the texts of request i.
LEMMA DrainedOwn ==
    ASSUME NEW items \in Seq(Requests), NEW i \in 1..Len(items)
    PROVE  Drained(items, Flatten(items), i) = [j \in 1..Shape[items[i]].n_texts |-> <<items[i], j>>]
<1> DEFINE n == Len(items)
           t == Totals(Counts(items))
           c == Counts(items)
<1>1. PICK g : /\ g \in [0..n -> Seq(Requests \X Nat)]
               /\ g[0] = <<>> /\ g[n] = Flatten(items)
               /\ \A k \in 1..n : g[k] = g[k - 1] \o Stretch(items, k)
  BY FlattenRun
<1>2. /\ n \in Nat /\ t \in [0..n -> Nat] /\ t[0] = 0
      /\ \A k \in 1..n : t[k] = t[k - 1] + c[k] /\ c[k] \in Nat
  BY Stretches, TotalsDef
<1>3. \A k \in 1..n : /\ Stretch(items, k) \in Seq(Requests \X Nat)
                       /\ Len(Stretch(items, k)) = c[k]
                       /\ \A j \in 1..c[k] : Stretch(items, k)[j] = <<items[k], j>>
  BY Stretches DEF Stretch
<1> HIDE DEF t, c, n
<1> DEFINE Own(m) == \A j \in 1..c[i] : /\ t[i - 1] + j \in 1..t[m]
                                         /\ g[m][t[i - 1] + j] = <<items[i], j>>
           P == {m \in 0..n : Len(g[m]) = t[m] /\ (i <= m => t[i] <= t[m] /\ Own(m))}
<1>4. i \in 1..n /\ i \in Nat /\ i - 1 \in 0..n
  BY <1>2 DEF n
<1>5. 0 \in P
  BY <1>1, <1>2, <1>4
<1>6. ASSUME NEW m \in 1..n, m - 1 \in P PROVE m \in P
  <2> DEFINE a == g[m - 1]
             b == Stretch(items, m)
             u == g[m]
  <2>1. m \in 0..n /\ m - 1 \in 0..n
    BY <1>2
  <2>2. /\ a \in Seq(Requests \X Nat) /\ b \in Seq(Requests \X Nat) /\ u = a \o b
        /\ Len(a) = t[m - 1] /\ Len(b) = c[m]
    BY <2>1, <1>1, <1>3, <1>6
  <2>3. \A j \in 1..c[m] : b[j] = <<items[m], j>>
    BY <1>3
  <2>4. t[m - 1] \in Nat /\ c[m] \in Nat /\ t[m] = t[m - 1] + c[m]
    BY <1>2, <2>1
  <2> HIDE DEF a, b, u
  <2>5. /\ Len(u) = t[m]
        /\ \A k \in 1..t[m - 1] : u[k] = a[k]
        /\ \A k \in 1..c[m] : u[t[m - 1] + k] = b[k]
    <3> DEFINE p == t[m - 1]
               q == c[m]
    <3>1. p \in Nat /\ q \in Nat /\ Len(a) = p /\ Len(b) = q /\ t[m] = p + q
      BY <2>2, <2>4
    <3> HIDE DEF p, q
    <3>2. /\ Len(u) = Len(a) + Len(b)
          /\ \A k \in 1..(Len(a) + Len(b)) : u[k] = IF k <= Len(a) THEN a[k] ELSE b[k - Len(a)]
      <4>1. a \in Seq(Requests \X Nat) /\ b \in Seq(Requests \X Nat) /\ u = a \o b
        BY <2>2
      <4> QED
        BY ONLY <4>1, ConcatProperties
    <3>3. /\ Len(u) = p + q
          /\ \A k \in 1..(p + q) : u[k] = IF k <= p THEN a[k] ELSE b[k - p]
      BY <3>1, <3>2
    <3>4. ASSUME NEW k \in 1..p PROVE u[k] = a[k]
      <4>1. k \in 1..(p + q) /\ k <= p
        BY <3>1
      <4> QED
        BY <3>3, <4>1
    <3>5. ASSUME NEW k \in 1..q PROVE u[p + k] = b[k]
      <4>1. /\ p + k \in 1..(p + q) /\ ~(p + k <= p) /\ (p + k) - p = k
        BY <3>1
      <4> QED
        BY <3>3, <4>1
    <3> QED
      BY <3>1, <3>3, <3>4, <3>5 DEF p, q
  <2>6. ASSUME i <= m, NEW j \in 1..c[i]
        PROVE  t[i - 1] + j \in 1..t[m] /\ u[t[i - 1] + j] = <<items[i], j>>
    <3>1. c[i] \in Nat /\ t[i - 1] \in Nat
      BY <1>2, <1>4
    <3>2. CASE i = m
      <4>1. j \in 1..c[m] /\ t[m - 1] + j \in 1..t[m]
        BY <3>2, <2>4
      <4>2. u[t[m - 1] + j] = b[j] /\ b[j] = <<items[m], j>>
        BY <4>1, <2>3, <2>5
      <4> QED
        BY <3>2, <4>1, <4>2
    <3>3. CASE i # m
      <4>1. i <= m - 1
        BY <3>3, <2>6, <1>4
      <4>2. t[i - 1] + j \in 1..t[m - 1] /\ a[t[i - 1] + j] = <<items[i], j>>
        BY <4>1, <1>6 DEF a
      <4>3. t[i - 1] + j \in 1..t[m]
        BY <4>2, <2>4
      <4> QED
        BY <4>2, <4>3, <2>5
    <3> QED
      BY <3>2, <3>3
  <2>7. ASSUME i <= m PROVE t[i] <= t[m]
    <3>1. t[i] \in Nat
      BY <1>2, <1>4
    <3>2. CASE i = m
      BY <3>1, <3>2, <2>4
    <3>3. CASE i # m
      <4>1. i <= m - 1
        BY <3>3, <2>7, <1>4
      <4> QED
        BY <3>1, <4>1, <1>6, <2>4
    <3> QED
      BY <3>2, <3>3
  <2> QED
    BY <2>1, <2>5, <2>6, <2>7 DEF u
<1>7. 0..n \subseteq P
  <2> HIDE DEF P
  <2> QED
    BY <1>2, <1>5, <1>6, UpTo
<1>8. Len(g[n]) = t[n] /\ t[i] <= t[n] /\ Own(n)
  <2>1. n \in P /\ i <= n
    BY <1>2, <1>4, <1>7
  <2> QED
    BY <2>1
<1> DEFINE F == Flatten(items)
           lo == t[i - 1] + 1
           hi == t[i - 1] + c[i]
<1>9. F \in Seq(Requests \X Nat) /\ F = g[n]
  BY <1>1, <1>2
<1>10. t[i - 1] \in Nat /\ c[i] \in Nat /\ c[i] = Shape[items[i]].n_texts
  BY <1>2, <1>4, Stretches DEF c
<1>11. Drained(items, F, i) = SubSeq(F, lo, hi)
  BY DEF Drained, t, c
<1> HIDE DEF F
<1>12. SubSeq(F, lo, hi) = [j \in 1..c[i] |-> F[t[i - 1] + j]]
  <2>1. t[n] \in Nat /\ t[i] = t[i - 1] + c[i]
    BY <1>2, <1>4
  <2>2. t[i - 1] + c[i] <= Len(F)
    BY <1>8, <1>9, <2>1
  <2> DEFINE o == t[i - 1]
             k == c[i]
             S == Requests \X Nat
  <2>3. F \in Seq(S) /\ o \in Nat /\ k \in Nat /\ o + k <= Len(F)
    BY <1>9, <1>10, <2>2
  <2> HIDE DEF o, k, S
  <2>4. SubSeq(F, o + 1, o + k) = [j \in 1..k |-> F[o + j]]
    BY <2>3, Slice
  <2> QED
    BY <2>4 DEF o, k
<1>13. \A j \in 1..c[i] : F[t[i - 1] + j] = <<items[i], j>>
  BY <1>8, <1>9
<1> QED
  BY <1>10, <1>11, <1>12, <1>13 DEF F

\* A full set of vectors is the whole output of the model.
LEMMA FullSet ==
    ASSUME NEW S, NEW s \in Seq(S), NEW short \in {0, 1},
           Len(SubSeq(s, 1, Len(s) - short)) = Len(s)
    PROVE  SubSeq(s, 1, Len(s) - short) = s
<1>0. Len(s) \in Nat /\ s = [j \in 1..Len(s) |-> s[j]]
  OBVIOUS
<1>1. ASSUME NEW n \in Nat, n <= Len(s) PROVE SubSeq(s, 1, n) = [j \in 1..n |-> s[j]]
  <2> DEFINE o == 0
  <2>1. o \in Nat /\ o + n <= Len(s)
    BY <1>1
  <2> HIDE DEF o
  <2>2. SubSeq(s, o + 1, o + n) = [j \in 1..n |-> s[o + j]]
    BY <2>1, Slice
  <2>3. o + 1 = 1 /\ o + n = n /\ \A j \in 1..n : o + j = j
    BY DEF o
  <2> QED
    BY <2>2, <2>3
<1>2. CASE short = 0
  BY <1>0, <1>1, <1>2
<1>3. CASE short = 1 /\ Len(s) = 0
  <2>1. Len(s) - short = -1
    BY <1>3
  <2>2. SubSeq(s, 1, -1) = <<>>
    BY SubSeqEmpty
  <2> QED
    BY <1>3, <2>1, <2>2
<1>4. CASE short = 1 /\ Len(s) # 0
  <2> DEFINE n == Len(s) - 1
  <2>1. n \in Nat /\ n <= Len(s) /\ Len(s) - short = n /\ n # Len(s)
    <3> DEFINE l == Len(s)
    <3>1. l \in Nat /\ l # 0 /\ short = 1
      BY <1>0, <1>4
    <3> HIDE DEF l
    <3>2. l - 1 \in Nat /\ l - 1 <= l /\ l - short = l - 1 /\ l - 1 # l
      BY <3>1
    <3> QED
      BY <3>2 DEF l
  <2> HIDE DEF n
  <2>2. Len([j \in 1..n |-> s[j]]) = n
    BY <2>1
  <2> QED
    BY <1>1, <2>1, <2>2
<1> QED
  BY <1>2, <1>3, <1>4

\* A call that has not been made has no answer.
Unanswered == \A r \in Requests : call[r] = "new" => answer[r] = <<>>

\* fan_ok: the reply of r drains the texts of r, wherever retain has moved it.
LEMMA EmbedEndsOwn ==
    ASSUME IInv, OwnVectors, EmbedEnds
    PROVE  OwnVectors'
<1> SUFFICES ASSUME NEW r \in Requests, call'[r] = "ok"
             PROVE  answer'[r] = [j \in 1..Shape[r].n_texts |-> <<r, j>>]
  BY DEF OwnVectors
<1>0. worker = "dispatch"
  BY DEF EmbedEnds, EmbedReturns, EmbedFails
<1>1. kept \subseteq Range(batch) /\ batch \in Seq(Requests)
  BY <1>0 DEF IInv, WorkerHolds, TypeOK
<1>2. Dispatched \in Seq(Requests) /\ \A q \in kept : \E i \in DOMAIN Dispatched : Dispatched[i] = q
  <2>1. Dispatched \in Seq(Requests)
    BY <1>1, RetainedDef DEF Dispatched
  <2>2. ASSUME NEW q \in kept PROVE \E i \in DOMAIN Dispatched : Dispatched[i] = q
    <3>1. PICK k \in 1..Len(batch) : batch[k] = q
      BY <1>1 DEF Range
    <3>2. \E j \in 1..Len(Dispatched) : Dispatched[j] = batch[k]
      BY <1>1, <3>1, RetainedDef DEF Dispatched
    <3> QED
      BY <2>1, <3>1, <3>2
  <2> QED
    BY <2>1, <2>2
<1> DEFINE F == Flatten(Dispatched)
<1>3. F \in Seq(Requests \X Nat)
  <2>1. PICK g : /\ g \in [0..Len(Dispatched) -> Seq(Requests \X Nat)]
                 /\ g[Len(Dispatched)] = F
    BY <1>2, FlattenRun
  <2> QED
    BY <1>2, <2>1
<1>4. ASSUME NEW short \in {0, 1}, EmbedReturns(SubSeq(F, 1, Len(F) - short))
      PROVE  answer'[r] = [j \in 1..Shape[r].n_texts |-> <<r, j>>]
  <2> DEFINE vecs == SubSeq(F, 1, Len(F) - short)
  <2>1. CASE Len(vecs) # Len(F)
    <3>1. FanOut("inference") /\ UNCHANGED answer
      BY <1>4, <2>1 DEF EmbedReturns
    <3>2. call[r] = "ok"
      BY <3>1 DEF FanOut
    <3> QED
      BY <3>1, <3>2 DEF OwnVectors
  <2>2. CASE Len(vecs) = Len(F)
    <3>1. vecs = F
      BY <1>3, <2>2, FullSet
    <3> HIDE DEF vecs, F
    <3>2. FanOut("ok") /\ Reply(F)
      BY <1>4, <2>2, <3>1 DEF EmbedReturns, vecs, F
    <3>3. CASE r \in kept /\ ~Closed(r)
      <4> DEFINE i == CHOOSE i \in DOMAIN Dispatched : Dispatched[i] = r
      <4>1. i \in DOMAIN Dispatched /\ Dispatched[i] = r
        BY <1>2, <3>3
      <4>2. answer'[r] = Drained(Dispatched, F, i)
        BY <3>2, <3>3 DEF Reply
      <4> HIDE DEF i
      <4>3. i \in 1..Len(Dispatched)
        BY <1>2, <4>1
      <4> QED
        BY <1>2, <4>1, <4>2, <4>3, DrainedOwn DEF F
    <3>4. CASE ~(r \in kept /\ ~Closed(r))
      <4>1. answer'[r] = answer[r]
        BY <3>2, <3>4 DEF Reply
      <4>2. call'[r] = call[r]
        BY <3>2, <3>4 DEF FanOut
      <4> QED
        BY <4>1, <4>2 DEF OwnVectors
    <3> QED
      BY <3>3, <3>4
  <2> QED
    BY <2>1, <2>2
<1>5. CASE EmbedFails
  <2>1. call[r] = "ok" /\ UNCHANGED answer
    BY <1>5 DEF EmbedFails, FanOut
  <2> QED
    BY <2>1 DEF OwnVectors
<1> QED
  BY <1>4, <1>5 DEF EmbedEnds

\* Whoever has an answer keeps its own.
LEMMA NextOwn ==
    ASSUME IInv, Unanswered, OwnVectors, [Next]_vars
    PROVE  Unanswered' /\ OwnVectors'
<1> USE DEF clientVars
<1>0. call \in [Requests -> CallStates] /\ DOMAIN answer = Requests
  BY DEF IInv, TypeOK
<1>1. ASSUME NEW r \in Requests, EmbedEmpty(r) PROVE Unanswered' /\ OwnVectors'
  <2>1. /\ call[r] = "new" /\ Shape[r].n_texts = 0 /\ UNCHANGED answer
        /\ call' = [call EXCEPT ![r] = "ok"]
    BY <1>1 DEF EmbedEmpty, CanCall
  <2>2. answer[r] = [j \in 1..0 |-> <<r, j>>]
    <3>1. answer[r] = <<>>
      BY <2>1 DEF Unanswered
    <3> QED
      BY <3>1
  <2> QED
    BY <1>0, <2>1, <2>2 DEF Unanswered, OwnVectors
<1>2. CASE /\ UNCHANGED answer
           /\ \A r \in Requests : /\ call'[r] = "new" => call[r] = "new"
                                  /\ call'[r] = "ok" => call[r] = "ok"
  BY <1>2 DEF Unanswered, OwnVectors
<1>3. ASSUME NEW r \in Requests, Caller(r), ~EmbedEmpty(r) PROVE Unanswered' /\ OwnVectors'
  <2>1. /\ UNCHANGED answer
        /\ \E s \in {"gated", "queue_full", "waiting", "dropped"} : call' = [call EXCEPT ![r] = s]
    BY <1>3 DEF Caller, PassGate, RejectAtGate, TrySend, TrySendFull, Disconnect
  <2> QED
    BY <1>0, <1>2, <2>1
<1>4. CASE WorkerStep
  BY <1>2, <1>4 DEF WorkerStep, TakeCarry, RecvFirst, StartBatch, WorkerExit, SkipClosed, CarryOver,
     Coalesce, WindowEnds, Cut
<1>5. CASE EmbedEnds
  <2>1. ASSUME NEW r \in Requests, call'[r] = "new" PROVE call[r] = "new" /\ answer'[r] = answer[r]
    <3>1. PICK outcome \in {"ok", "inference"} :
              call' = [q \in Requests |-> IF q \in kept /\ call[q] = "waiting"
                                         THEN outcome ELSE call[q]]
      BY <1>5, EmbedEndsCalls
    <3>2. call[r] = "new"
      BY <2>1, <3>1
    <3> QED
      BY <1>0, <1>5, <3>2 DEF EmbedEnds, EmbedReturns, EmbedFails, Reply, Closed
  <2> QED
    BY <1>5, <2>1, EmbedEndsOwn DEF Unanswered
<1>6. CASE Shutdown
  BY <1>2, <1>6 DEF Shutdown, BeginShutdown, ShutdownJoins, ShutdownExpires, RequestAbort, AbortLands
<1>7. CASE UNCHANGED vars
  BY <1>2, <1>7 DEF vars
<1> QED
  BY <1>1, <1>3, <1>4, <1>5, <1>6, <1>7 DEF Next, Stopped

\* Every caller dispatch_batch answers gets the vectors of its own texts, in their
\* order: dropping cancelled items before the counts are taken keeps counts, texts
\* and replies aligned, and a short set of vectors is never handed out.
THEOREM AnswersAreOwn == Spec => []OwnVectors
<1>1. Init => Unanswered /\ OwnVectors
  BY DEF Init, Unanswered, OwnVectors
<1> QED
  BY <1>1, NextOwn, Invariance, PTL DEF Spec

------------------------------------------------------------------------------
(* The caps of a shared batch, counted afresh from the requests in it: the      *)
(* aggregate is exact.                                                          *)

TokensOf(items) == [i \in DOMAIN items |-> Shape[items[i]].total_tokens]

\* The aggregate is what a count over the items would give.
Exact(acc, items) ==
    /\ acc.items = Sum(Counts(items))
    /\ acc.total_tokens = Sum(TokensOf(items))
    /\ acc.max_len # 0 => \E i \in DOMAIN items : Shape[items[i]].max_seq_len = acc.max_len

\* The aggregate of an empty batch.
LEMMA EmptyExact == Exact(EmptyAccum, <<>>)
<1> DEFINE ns == <<>>
<1>1. ns \in Seq(Nat) /\ Len(ns) = 0 /\ Counts(<<>>) = ns /\ TokensOf(<<>>) = ns
  BY DEF Counts, TokensOf
<1> HIDE DEF ns
<1>2. Sum(ns) = 0
  BY <1>1, TotalsDef DEF Sum
<1> QED
  BY <1>1, <1>2 DEF Exact, EmptyAccum

\* BatchAccum::push keeps it exact.
LEMMA PushExact ==
    ASSUME NEW items \in Seq(Requests), NEW acc \in AccumType, NEW r \in Requests, Exact(acc, items)
    PROVE  Exact(Push(acc, r), Append(items, r))
<1> DEFINE more == Append(items, r)
           n == Len(items)
<1>1. /\ n \in Nat /\ DOMAIN items = 1..n /\ DOMAIN more = 1..(n + 1)
      /\ \A i \in 1..n : more[i] = items[i] /\ items[i] \in Requests
      /\ more[n + 1] = r
  OBVIOUS
<1>2. \A q \in Requests : Shape[q].n_texts \in Nat /\ Shape[q].total_tokens \in Nat
                          /\ Shape[q].max_seq_len \in Nat
  BY BatcherAssumption DEF ShapeType
<1> HIDE DEF more, n
<1>3. /\ Counts(items) \in Seq(Nat) /\ TokensOf(items) \in Seq(Nat)
      /\ Len(Counts(items)) = n /\ Len(TokensOf(items)) = n
  <2>1. Counts(items) \in Seq(Nat) /\ Len(Counts(items)) = n
    BY Stretches DEF n
  <2>2. TokensOf(items) = [i \in 1..n |-> Shape[items[i]].total_tokens]
    BY <1>1 DEF TokensOf
  <2>3. \A i \in 1..n : Shape[items[i]].total_tokens \in Nat
    BY <1>1, <1>2
  <2> QED
    BY <1>1, <2>1, <2>2, <2>3
<1>4. Counts(more) = Append(Counts(items), Shape[r].n_texts)
  BY <1>1, <1>2, <1>3 DEF Counts
<1>5. TokensOf(more) = Append(TokensOf(items), Shape[r].total_tokens)
  BY <1>1, <1>2, <1>3 DEF TokensOf
<1>6. /\ Sum(Counts(more)) = Sum(Counts(items)) + Shape[r].n_texts
      /\ Sum(TokensOf(more)) = Sum(TokensOf(items)) + Shape[r].total_tokens
  BY <1>2, <1>3, <1>4, <1>5, SumAppend
<1>7. /\ Push(acc, r).items = acc.items + Shape[r].n_texts
      /\ Push(acc, r).total_tokens = acc.total_tokens + Shape[r].total_tokens
      /\ Push(acc, r).max_len \in {acc.max_len, Shape[r].max_seq_len}
  BY DEF Push, MaxOf
<1>8. ASSUME Push(acc, r).max_len # 0
      PROVE  \E i \in DOMAIN more : Shape[more[i]].max_seq_len = Push(acc, r).max_len
  <2>1. CASE Push(acc, r).max_len = Shape[r].max_seq_len
    <3>1. n + 1 \in 1..(n + 1)
      BY <1>1
    <3> QED
      BY <2>1, <3>1, <1>1
  <2>2. CASE Push(acc, r).max_len = acc.max_len
    <3>1. PICK i \in DOMAIN items : Shape[items[i]].max_seq_len = acc.max_len
      BY <1>8, <2>2 DEF Exact
    <3>2. i \in 1..(n + 1) /\ i \in 1..n
      BY <1>1
    <3> QED
      BY <1>1, <2>2, <3>1, <3>2
  <2> QED
    BY <1>7, <2>1, <2>2
<1> QED
  BY <1>6, <1>7, <1>8 DEF Exact, more

\* Every step keeps the aggregate exact.
LEMMA NextExact == IInv /\ Exact(accum, batch) /\ [Next]_vars => Exact(accum, batch)'
<1> SUFFICES ASSUME IInv, Exact(accum, batch), [Next]_vars PROVE Exact(accum', batch')
  BY DEF Exact, Counts, TokensOf, Sum, Totals
<1>1. CASE UNCHANGED <<batch, accum>>
  BY <1>1
<1>2. CASE batch' = <<>> /\ accum' = EmptyAccum
  BY <1>2, EmptyExact
<1>3. ASSUME NEW r \in Requests, StartBatch(r) PROVE Exact(accum', batch')
  <2> DEFINE none == <<>>
  <2>1. none \in Seq(Requests) /\ Append(none, r) = <<r>> /\ Exact(EmptyAccum, none)
    BY EmptyExact
  <2>2. batch' = Append(none, r) /\ accum' = Push(EmptyAccum, r)
    BY <1>3, <2>1 DEF StartBatch
  <2> HIDE DEF none
  <2> QED
    BY <2>1, <2>2, EmptyAccumType, PushExact
<1>4. CASE TakeCarry
  BY <1>3, <1>4 DEF TakeCarry, IInv, TypeOK
<1>5. CASE RecvFirst
  BY <1>3, <1>5, TakeHead DEF RecvFirst, IInv
<1>6. CASE Coalesce
  <2>1. queue # <<>> /\ batch' = Append(batch, Head(queue)) /\ accum' = Push(accum, Head(queue))
    BY <1>6 DEF Coalesce, CanRecv
  <2>2. Head(queue) \in Requests /\ batch \in Seq(Requests) /\ accum \in AccumType
    BY <2>1, TakeHead DEF IInv, TypeOK, AccumType
  <2> QED
    BY <2>1, <2>2, PushExact
<1>7. CASE Cut
  BY <1>1, <1>2, <1>7 DEF Cut
<1>8. CASE EmbedEnds
  BY <1>2, <1>8 DEF EmbedEnds, EmbedReturns, EmbedFails, NextBatch
<1>9. CASE WorkerExit \/ SkipClosed \/ CarryOver \/ WindowEnds
  BY <1>1, <1>9 DEF WorkerExit, SkipClosed, CarryOver, WindowEnds
<1>10. CASE \E r \in Requests : Caller(r)
  BY <1>1, <1>10 DEF Caller, EmbedEmpty, PassGate, RejectAtGate, TrySend, TrySendFull, Disconnect
<1>11. CASE Shutdown
  BY <1>1, <1>2, <1>11 DEF Shutdown, BeginShutdown, ShutdownJoins, ShutdownExpires, RequestAbort,
     AbortLands
<1>12. CASE UNCHANGED vars
  BY <1>1, <1>12 DEF vars
<1> QED
  BY <1>4, <1>5, <1>6, <1>7, <1>8, <1>9, <1>10, <1>11, <1>12 DEF Next, WorkerStep, Stopped

\* No sequence of pushes, carries and cuts makes the aggregate drift from the
\* batch: two requests share an inference only within BATCH_MAX, BATCH_MAX_TOKENS
\* and BATCH_MAX_SEQ, recounted over the requests themselves.
THEOREM BatchBudget == Spec => []BudgetRespected
<1>1. Init => AccumCovers /\ Exact(accum, batch)
  <2>1. Init => DOMAIN batch = {} /\ Len(batch) = 0 /\ batch = <<>> /\ accum = EmptyAccum
    BY DEF Init
  <2> QED
    BY <2>1, EmptyExact DEF AccumCovers
<1>2. ASSUME IInv, AccumCovers, Exact(accum, batch) PROVE BudgetRespected
  <2> SUFFICES ASSUME Len(batch) >= 2 PROVE BudgetRespected
    BY DEF BudgetRespected
  <2> DEFINE Longest == {Shape[r].max_seq_len : r \in Range(batch)}
             longest == CHOOSE m \in Longest : \A r \in Range(batch) : Shape[r].max_seq_len <= m
  <2>1. /\ batch \in Seq(Requests) /\ accum.items \in Nat /\ accum.max_len \in Nat
        /\ DOMAIN batch = 1..Len(batch) /\ Len(batch) \in Nat /\ Range(batch) \subseteq Requests
    BY <1>2 DEF IInv, TypeOK, Range
  <2>2. \A r \in Range(batch) : /\ Shape[r].max_seq_len \in Nat
                                /\ Shape[r].max_seq_len <= accum.max_len
    <3>1. \A r \in Requests : Shape[r].max_seq_len \in Nat
      BY BatcherAssumption DEF ShapeType
    <3> QED
      BY <1>2, <2>1, <3>1 DEF AccumCovers, Range
  <2>3. accum.max_len \in Longest
    <3>1. CASE accum.max_len # 0
      <4>1. PICK i \in DOMAIN batch : Shape[batch[i]].max_seq_len = accum.max_len
        BY <3>1, <1>2 DEF Exact
      <4> QED
        BY <4>1 DEF Range
    <3>2. CASE accum.max_len = 0
      <4>1. 1 \in DOMAIN batch /\ batch[1] \in Range(batch)
        BY <2>1 DEF Range
      <4>2. Shape[batch[1]].max_seq_len = 0
        BY <3>2, <4>1, <2>2
      <4> QED
        BY <3>2, <4>1, <4>2
    <3> QED
      BY <3>1, <3>2
  <2>4. longest = accum.max_len
    <3>1. longest \in Longest /\ \A r \in Range(batch) : Shape[r].max_seq_len <= longest
      BY <2>2, <2>3
    <3>2. PICK r \in Range(batch) : longest = Shape[r].max_seq_len
      BY <3>1
    <3>3. PICK q \in Range(batch) : accum.max_len = Shape[q].max_seq_len
      BY <2>3
    <3> HIDE DEF longest
    <3> QED
      BY <2>1, <2>2, <3>1, <3>2, <3>3
  <2>5. /\ accum.items = Sum([i \in DOMAIN batch |-> Shape[batch[i]].n_texts])
        /\ accum.total_tokens = Sum([i \in DOMAIN batch |-> Shape[batch[i]].total_tokens])
    BY <1>2 DEF Exact, Counts, TokensOf
  <2>6. /\ accum.items <= MaxBatchItems /\ accum.max_len <= MaxBatchSeq
        /\ (IF PaddedModel THEN accum.max_len * accum.items ELSE accum.total_tokens) < MaxBatchTokens
    BY <1>2 DEF AccumCovers, Cost
  <2>7. accum.max_len * accum.items = accum.items * accum.max_len
    BY <2>1
  <2> HIDE DEF longest
  <2>8. /\ accum.items <= MaxBatchItems /\ longest <= MaxBatchSeq
        /\ (IF PaddedModel THEN accum.items * longest ELSE accum.total_tokens) < MaxBatchTokens
    BY <2>4, <2>6, <2>7
  <2> QED
    BY <2>5, <2>8 DEF BudgetRespected, longest
<1> QED
  BY <1>1, <1>2, NextCovers, NextExact, Invariance, PTL DEF Spec
==============================================================================
