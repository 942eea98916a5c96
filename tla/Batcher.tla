------------------------------- MODULE Batcher -------------------------------
(***************************************************************************)
(* DynamicBatcher (src/src/batcher.rs): callers of embed_tokens put items   *)
(* on a bounded channel; one worker task coalesces them into batches under  *)
(* an item cap, a token budget, a sequence cap and a length-ratio gate,     *)
(* carries the item that overflows to the next batch, runs one inference    *)
(* per batch and fans the vectors out; shutdown drops the channel, waits    *)
(* for the worker and aborts it when the timeout expires first.             *)
(*                                                                         *)
(* Callers, the worker task and the shutdown task run on different threads. *)
(* An action is what one of them does between two points at which another   *)
(* can observe it.  Token ids are reduced to what the gates read of them:   *)
(* how many texts, the longest one and the total.                           *)
(***************************************************************************)
EXTENDS Naturals, SequencesExt

CONSTANTS Requests,         \* one per call of embed_tokens
          None,             \* no item
          Shape,            \* what the gates read of a request's token ids
          MaxQueue,         \* channel capacity (MAX_QUEUE_SIZE)
          MaxBatchTokens,   \* BATCH_MAX_TOKENS
          MaxBatchItems,    \* BATCH_MAX
          MaxBatchSeq,      \* BATCH_MAX_SEQ
          PaddedModel,      \* every text is padded to the longest one
          RatioNum,         \* BATCH_LENGTH_RATIO_THRESHOLD is the fraction
          RatioDen          \* RatioNum / RatioDen; 0 disables the gate

ShapeType == [n_texts : Nat, max_seq_len : Nat, total_tokens : Nat]

ASSUME BatcherAssumption ==
    /\ None \notin Requests
    /\ Shape \in [Requests -> ShapeType]
    /\ MaxQueue \in Nat \ {0}
    /\ {MaxBatchTokens, MaxBatchItems, MaxBatchSeq, RatioNum} \subseteq Nat
    /\ PaddedModel \in BOOLEAN
    /\ RatioDen \in Nat \ {0}

VARIABLES
    call,           \* progress and result of each embed_tokens call
    answer,         \* the vectors a call has returned
    ticket,         \* history: order in which items entered the channel
    tickets,        \* history: items that ever entered the channel
    queue,          \* the mpsc channel
    carry,          \* run_worker's carry
    carry_pending,  \* the flag shared with shutdown
    batch,          \* run_worker's batch, in the order of push
    accum,          \* BatchAccum over batch
    kept,           \* items of batch that survived `retain` and were dispatched
    worker,         \* where the worker task is
    drain,          \* where shutdown is
    carry_lost      \* embed_batcher_carry_lost_total has been incremented

clientVars == <<call, answer, ticket, tickets>>
carryVars  == <<carry, carry_pending>>
drainVars  == <<drain, carry_lost>>
vars == <<clientVars, queue, carryVars, batch, accum, kept, worker, drainVars>>

------------------------------------------------------------------------------
(* BatchAccum and its gates.                                                *)

MaxOf(a, b) == IF a >= b THEN a ELSE b

EmptyAccum == [items |-> 0, max_len |-> 0, total_tokens |-> 0]

\* BatchAccum::push
Push(acc, r) == [items        |-> acc.items + Shape[r].n_texts,
                 max_len      |-> MaxOf(acc.max_len, Shape[r].max_seq_len),
                 total_tokens |-> acc.total_tokens + Shape[r].total_tokens]

\* The tokens a batch is charged for: padded product, or the plain sum.
Cost(acc) == IF PaddedModel THEN acc.max_len * acc.items ELSE acc.total_tokens

\* Fault: a batch exactly at the budget is admitted.
Fits_AtBudget(acc, r) == /\ Push(acc, r).items <= MaxBatchItems
                         /\ Cost(Push(acc, r)) <= MaxBatchTokens

Fits(acc, r) == /\ Push(acc, r).items <= MaxBatchItems
                /\ Cost(Push(acc, r)) < MaxBatchTokens

SeqCappedBy(acc, r) == Push(acc, r).max_len > MaxBatchSeq

\* Padded models only, and only when the threshold is above 0.0.
RatioOverflow(acc, r) == /\ PaddedModel
                         /\ RatioNum > 0
                         /\ acc.max_len > 0
                         /\ Shape[r].max_seq_len * RatioDen > acc.max_len * RatioNum

\* The three overflow gates of the coalesce loop, in the order of the code.
Overflows(acc, r) == \/ acc.items > 0 /\ SeqCappedBy(acc, r)
                     \/ acc.items > 0 /\ RatioOverflow(acc, r)
                     \/ ~Fits(acc, r)

\* No further item is possible: the loop stops waiting for one.
Saturated(acc) == acc.items >= MaxBatchItems \/ Cost(acc) >= MaxBatchTokens

------------------------------------------------------------------------------
(* Callers: embed_tokens.                                                   *)

\* The reply channel of r is closed: nobody awaits its receiver any more.
Closed(r) == call[r] # "waiting"

\* `max_queue * 8 / 10` in integer arithmetic.
Threshold == (MaxQueue * 8) \div 10

Depth == Len(queue)

\* A batcher that shutdown has consumed can no longer be called.
CanCall(r) == call[r] = "new" /\ drain = "open"

EmbedEmpty(r) == /\ CanCall(r)
                 /\ Shape[r].n_texts = 0
                 /\ call' = [call EXCEPT ![r] = "ok"]
                 /\ UNCHANGED <<answer, ticket, tickets, queue, carryVars, batch,
                                accum, kept, worker, drainVars>>

\* Reading the depth and sending are two steps; other callers run between.
PassGate(r) == /\ CanCall(r)
               /\ Shape[r].n_texts > 0
               /\ Depth < Threshold
               /\ call' = [call EXCEPT ![r] = "gated"]
               /\ UNCHANGED <<answer, ticket, tickets, queue, carryVars, batch,
                              accum, kept, worker, drainVars>>

RejectAtGate(r) == /\ CanCall(r)
                   /\ Shape[r].n_texts > 0
                   /\ Depth >= Threshold
                   /\ call' = [call EXCEPT ![r] = "queue_full"]
                   /\ UNCHANGED <<answer, ticket, tickets, queue, carryVars, batch,
                                  accum, kept, worker, drainVars>>

\* Fault: the channel is unbounded.
TrySend_Unbounded(r) == /\ call[r] = "gated"
                        /\ queue'   = Append(queue, r)
                        /\ call'    = [call EXCEPT ![r] = "waiting"]
                        /\ ticket'  = [ticket EXCEPT ![r] = tickets + 1]
                        /\ tickets' = tickets + 1
                        /\ UNCHANGED <<answer, carryVars, batch, accum, kept, worker,
                                       drainVars>>

TrySend(r) ==
    /\ call[r] = "gated"
    /\ Depth < MaxQueue
    /\ queue'   = Append(queue, r)
    /\ call'    = [call EXCEPT ![r] = "waiting"]
    /\ ticket'  = [ticket EXCEPT ![r] = tickets + 1]
    /\ tickets' = tickets + 1
    /\ UNCHANGED <<answer, carryVars, batch, accum, kept, worker, drainVars>>

TrySendFull(r) == /\ call[r] = "gated"
                  /\ Depth = MaxQueue
                  /\ call' = [call EXCEPT ![r] = "queue_full"]
                  /\ UNCHANGED <<answer, ticket, tickets, queue, carryVars, batch,
                                 accum, kept, worker, drainVars>>

\* The HTTP client disconnects: the handler's future, and with it the
\* receiver of the reply, is dropped.  The item stays where it is.
Disconnect(r) == /\ call[r] = "waiting"
                 /\ call' = [call EXCEPT ![r] = "dropped"]
                 /\ UNCHANGED <<answer, ticket, tickets, queue, carryVars, batch,
                                accum, kept, worker, drainVars>>

------------------------------------------------------------------------------
(* The worker task: run_worker and dispatch_batch.                          *)

\* A fresh batch admits its first item whatever its size.
StartBatch(r) == /\ batch'  = <<r>>
                 /\ accum'  = Push(EmptyAccum, r)
                 /\ worker' = "coalesce"
                 /\ UNCHANGED <<clientVars, kept, drainVars>>

\* Fault: a carried item must fit an empty batch.
TakeCarry_MustFit == /\ worker = "top"
                     /\ carry # None
                     /\ Fits(EmptyAccum, carry)
                     /\ StartBatch(carry)
                     /\ carry' = None
                     /\ carry_pending' = FALSE
                     /\ UNCHANGED queue

TakeCarry == /\ worker = "top"
             /\ carry # None
             /\ StartBatch(carry)
             /\ carry' = None
             /\ carry_pending' = FALSE
             /\ UNCHANGED queue

\* Fault: the channel is read before the carry slot.
RecvFirst_BeforeCarry == /\ worker = "top"
                         /\ queue # <<>>
                         /\ StartBatch(Head(queue))
                         /\ queue' = Tail(queue)
                         /\ UNCHANGED carryVars

RecvFirst == /\ worker = "top"
             /\ carry = None
             /\ queue # <<>>
             /\ StartBatch(Head(queue))
             /\ queue' = Tail(queue)
             /\ UNCHANGED carryVars

\* recv returns None: the sender is gone and the channel is empty.
WorkerExit == /\ worker = "top"
              /\ carry = None
              /\ queue = <<>>
              /\ drain # "open"
              /\ worker' = "finished"
              /\ UNCHANGED <<clientVars, queue, carryVars, batch, accum, kept, drainVars>>

CanRecv == worker = "coalesce" /\ ~Saturated(accum) /\ queue # <<>>

\* Fault: items are skipped without looking at their reply channel.
SkipClosed_Blind == /\ CanRecv
                    /\ queue' = Tail(queue)
                    /\ UNCHANGED <<clientVars, carryVars, batch, accum, kept, worker,
                                   drainVars>>

SkipClosed == /\ CanRecv
              /\ Closed(Head(queue))
              /\ queue' = Tail(queue)
              /\ UNCHANGED <<clientVars, carryVars, batch, accum, kept, worker, drainVars>>

CarryOver == /\ CanRecv
             /\ ~Closed(Head(queue))
             /\ Overflows(accum, Head(queue))
             /\ carry'  = Head(queue)
             /\ carry_pending' = TRUE
             /\ queue'  = Tail(queue)
             /\ worker' = "cut"
             /\ UNCHANGED <<clientVars, batch, accum, kept, drainVars>>

Coalesce == /\ CanRecv
            /\ ~Closed(Head(queue))
            /\ ~Overflows(accum, Head(queue))
            /\ batch' = Append(batch, Head(queue))
            /\ accum' = Push(accum, Head(queue))
            /\ queue' = Tail(queue)
            /\ UNCHANGED <<clientVars, carryVars, kept, worker, drainVars>>

\* The batch is full, the coalesce window is over, or the channel is closed
\* and empty.  The window is a timer: it may end at any time.
WindowEnds == /\ worker = "coalesce"
              /\ worker' = "cut"
              /\ UNCHANGED <<clientVars, queue, carryVars, batch, accum, kept, drainVars>>

\* `batch.retain(|it| !it.reply.is_closed())`; an empty batch is not run.
Cut == /\ worker = "cut"
       /\ kept' = {r \in Range(batch) : ~Closed(r)}
       /\ IF kept' = {}
          THEN batch' = <<>> /\ accum' = EmptyAccum /\ worker' = "top"
          ELSE UNCHANGED <<batch, accum>> /\ worker' = "dispatch"
       /\ UNCHANGED <<clientVars, queue, carryVars, drainVars>>

\* The item list handed to dispatch_batch, what `retain` leaves of the batch.
Retained(items, keep) ==
    LET left[i \in 0..Len(items)] ==
            IF i = 0 THEN <<>>
            ELSE IF items[i] \in keep THEN Append(left[i - 1], items[i]) ELSE left[i - 1]
    IN  left[Len(items)]

Dispatched == Retained(batch, kept)

\* Fault: the counts are taken before `retain`.
Counts_BeforeRetain(items) == [i \in DOMAIN items |-> Shape[batch[i]].n_texts]

\* `counts`, and the texts flattened into one list: text j of request r.
Counts(items) == [i \in DOMAIN items |-> Shape[items[i]].n_texts]

Flatten(items) ==
    FlattenSeq([i \in DOMAIN items |-> [j \in 1..Counts(items)[i] |-> <<items[i], j>>]])

\* The sum of the first i numbers, for every i.
Totals(ns) == LET total[i \in 0..Len(ns)] == IF i = 0 THEN 0 ELSE total[i - 1] + ns[i]
              IN  total

\* Reply i drains the next counts[i] vectors, after those of replies before it.
Drained(items, vecs, i) ==
    LET offset == Totals(Counts(items))[i - 1]
    IN  SubSeq(vecs, offset + 1, offset + Counts(items)[i])

\* Reply i carries what it drained; a send on a closed reply is ignored.
Reply(vecs) ==
    answer' = [r \in Requests |->
        IF r \in kept /\ ~Closed(r)
        THEN LET i == CHOOSE i \in DOMAIN Dispatched : Dispatched[i] = r
             IN  Drained(Dispatched, vecs, i)
        ELSE answer[r]]

NextBatch == batch' = <<>> /\ accum' = EmptyAccum /\ kept' = {} /\ worker' = "top"

\* Fault: the outcome overwrites what a caller who left has seen.
FanOut_Everyone(outcome) ==
    call' = [r \in Requests |-> IF r \in kept THEN outcome ELSE call[r]]

FanOut(outcome) ==
    call' = [r \in Requests |-> IF r \in kept /\ ~Closed(r) THEN outcome ELSE call[r]]

\* embed_fn returns vecs; only a full set is handed out.
EmbedReturns(vecs) ==
    /\ worker = "dispatch"
    /\ IF Len(vecs) = Len(Flatten(Dispatched))
       THEN FanOut("ok") /\ Reply(vecs)
       ELSE FanOut("inference") /\ UNCHANGED answer
    /\ NextBatch
    /\ UNCHANGED <<ticket, tickets, queue, carryVars, drainVars>>

\* embed_fn returns an error or its task panics: fan_err to every reply.
EmbedFails == /\ worker = "dispatch"
              /\ FanOut("inference")
              /\ NextBatch
              /\ UNCHANGED <<answer, ticket, tickets, queue, carryVars, drainVars>>

------------------------------------------------------------------------------
(* shutdown(self, timeout).                                                 *)

\* Fault: shutdown does not need to own the batcher.
BeginShutdown_Shared == /\ drain = "open"
                        /\ drain' = "draining"
                        /\ UNCHANGED <<clientVars, queue, carryVars, batch, accum, kept,
                                       worker, carry_lost>>

\* shutdown consumes the batcher: drain_batchers gets it by Arc::try_unwrap,
\* which fails while a handler that awaits embed_tokens still shares it.
BeginShutdown == /\ drain = "open"
                 /\ \A r \in Requests : call[r] \notin {"gated", "waiting"}
                 /\ drain' = "draining"
                 /\ UNCHANGED <<clientVars, queue, carryVars, batch, accum, kept,
                                worker, carry_lost>>

ShutdownJoins == /\ drain = "draining"
                 /\ worker = "finished"
                 /\ drain' = "joined"
                 /\ UNCHANGED <<clientVars, queue, carryVars, batch, accum, kept,
                                worker, carry_lost>>

\* The timeout wins the select; the flag is read before the abort.
ShutdownExpires == /\ drain = "draining"
                   /\ worker # "finished"
                   /\ drain' = "expired"
                   /\ carry_lost' = carry_pending
                   /\ UNCHANGED <<clientVars, queue, carryVars, batch, accum, kept, worker>>

\* Fault: the JoinHandle is dropped, which detaches the task.
RequestAbort_Detaches == /\ drain = "expired"
                         /\ drain' = "joined"
                         /\ UNCHANGED <<clientVars, queue, carryVars, batch, accum, kept,
                                        worker, carry_lost>>

RequestAbort == /\ drain = "expired"
                /\ drain' = "aborting"
                /\ UNCHANGED <<clientVars, queue, carryVars, batch, accum, kept,
                               worker, carry_lost>>

\* The abort lands where the worker task awaits: everything it holds is
\* dropped, and an embed_tokens call whose reply is dropped gets Shutdown.
AwaitPoint == \/ worker = "top" /\ carry = None
              \/ worker = "coalesce" /\ ~Saturated(accum)
              \/ worker = "dispatch"

AbortLands == /\ drain = "aborting"
              /\ AwaitPoint
              /\ worker' = "aborted"
              /\ call'   = [r \in Requests |-> IF call[r] = "waiting" THEN "shutdown"
                                                                      ELSE call[r]]
              /\ queue'  = <<>>
              /\ carry'  = None
              /\ batch'  = <<>>
              /\ accum'  = EmptyAccum
              /\ kept'   = {}
              /\ UNCHANGED <<answer, ticket, tickets, carry_pending, drainVars>>

------------------------------------------------------------------------------

Init == /\ call    = [r \in Requests |-> "new"]
        /\ answer  = [r \in Requests |-> <<>>]
        /\ ticket  = [r \in Requests |-> 0]
        /\ tickets = 0
        /\ queue   = <<>>
        /\ carry   = None
        /\ carry_pending = FALSE
        /\ batch   = <<>>
        /\ accum   = EmptyAccum
        /\ kept    = {}
        /\ worker  = "top"
        /\ drain   = "open"
        /\ carry_lost = FALSE

Caller(r) == \/ EmbedEmpty(r)
             \/ PassGate(r)
             \/ RejectAtGate(r)
             \/ TrySend(r)
             \/ TrySendFull(r)
             \/ Disconnect(r)

\* embed_fn keeps the order of its input, but may return a vector too few.
EmbedEnds == \/ \E short \in {0, 1} :
                   EmbedReturns(SubSeq(Flatten(Dispatched), 1,
                                       Len(Flatten(Dispatched)) - short))
             \/ EmbedFails

WorkerStep == \/ TakeCarry
              \/ RecvFirst
              \/ WorkerExit
              \/ SkipClosed
              \/ CarryOver
              \/ Coalesce
              \/ WindowEnds
              \/ Cut

Shutdown == \/ BeginShutdown
            \/ ShutdownJoins
            \/ ShutdownExpires
            \/ RequestAbort
            \/ AbortLands

\* The process ends once shutdown has returned and the task is gone.
Stopped == /\ drain \in {"joined", "aborting"}
           /\ worker \in {"finished", "aborted"}
           /\ UNCHANGED vars

Next == \/ \E r \in Requests : Caller(r)
        \/ WorkerStep
        \/ EmbedEnds
        \/ Shutdown
        \/ Stopped

Spec == Init /\ [][Next]_vars

\* tokio runs a ready task and fires a due timer, and embed_tokens does not
\* await between its gate and try_send.  Nothing bounds an inference, so FairSpec
\* does not assume that it returns.
TaskFairness == /\ WF_vars(WorkerStep)
                /\ WF_vars(ShutdownJoins \/ ShutdownExpires \/ RequestAbort \/ AbortLands)
                /\ \A r \in Requests : WF_vars(TrySend(r) \/ TrySendFull(r))

FairSpec == Spec /\ TaskFairness

InferencesReturn == WF_vars(EmbedEnds)

------------------------------------------------------------------------------
(* Properties.                                                              *)

CallStates == {"new", "gated", "waiting", "ok", "inference", "queue_full",
               "shutdown", "dropped"}

\* Every variable has its type, and the channel never holds more than
\* max_queue items.
TypeOK == /\ call \in [Requests -> CallStates]
          /\ DOMAIN answer = Requests
          /\ ticket \in [Requests -> Nat]
          /\ tickets \in Nat
          /\ queue \in Seq(Requests)
          /\ Len(queue) <= MaxQueue
          /\ carry \in Requests \cup {None}
          /\ carry_pending \in BOOLEAN
          /\ batch \in Seq(Requests)
          /\ accum \in [items : Nat, max_len : Nat, total_tokens : Nat]
          /\ kept \in SUBSET Requests
          /\ worker \in {"top", "coalesce", "cut", "dispatch", "finished", "aborted"}
          /\ drain \in {"open", "draining", "joined", "expired", "aborting"}
          /\ carry_lost \in BOOLEAN

\* No request is lost: while a caller awaits its reply, its item is still in
\* the channel, in the carry slot, or in the batch (and among the items handed
\* to dispatch_batch once the batch has been cut).
NoLostRequest ==
    \A r \in Requests : call[r] = "waiting" =>
        \/ r \in Range(queue)
        \/ carry = r
        \/ r \in Range(batch) /\ (worker = "dispatch" => r \in kept)

\* No overtaking: batch, then carry, then channel is the order of arrival,
\* without repetition.  The carried item is older than everything behind it
\* and younger than everything in the batch it did not fit.
InOrder ==
    /\ \A i, j \in DOMAIN batch : i < j => ticket[batch[i]] < ticket[batch[j]]
    /\ \A i, j \in DOMAIN queue : i < j => ticket[queue[i]] < ticket[queue[j]]
    /\ \A i \in DOMAIN batch, j \in DOMAIN queue : ticket[batch[i]] < ticket[queue[j]]
    /\ carry # None =>
          /\ \A i \in DOMAIN batch : ticket[batch[i]] < ticket[carry]
          /\ \A j \in DOMAIN queue : ticket[carry] < ticket[queue[j]]

Sum(ns) == Totals(ns)[Len(ns)]

\* Only a batch of one request may exceed the caps: as soon as two requests
\* share an inference, the item cap, the token budget and the sequence cap
\* all hold of the requests in the batch, counted afresh.
BudgetRespected ==
    Len(batch) >= 2 =>
        LET texts  == Sum([i \in DOMAIN batch |-> Shape[batch[i]].n_texts])
            tokens == Sum([i \in DOMAIN batch |-> Shape[batch[i]].total_tokens])
            longest == CHOOSE m \in {Shape[r].max_seq_len : r \in Range(batch)} :
                           \A r \in Range(batch) : Shape[r].max_seq_len <= m
        IN  /\ texts <= MaxBatchItems
            /\ (IF PaddedModel THEN texts * longest ELSE tokens) < MaxBatchTokens
            /\ longest <= MaxBatchSeq

\* A request that is answered gets the vectors of its own texts, in order,
\* whatever was cancelled around it before the batch was cut or while it ran.
OwnVectors ==
    \A r \in Requests : call[r] = "ok" =>
        answer[r] = [j \in 1..Shape[r].n_texts |-> <<r, j>>]

\* Shutdown leaves no caller behind: embed_tokens never returns Shutdown,
\* because the batcher is consumed only when no call is in progress.
NobodyShutDown == \A r \in Requests : call[r] # "shutdown"

\* Every carried item that an abort throws away has been counted in
\* embed_batcher_carry_lost_total, although the flag is read before the abort
\* and the worker runs on between the two.
LostCarryIsCounted ==
    [][worker' = "aborted" /\ carry # None => carry_lost]_vars

\* If inferences return, every accepted request is answered unless its caller
\* leaves: carrying an item never starves it, however large it is.
EveryCallerServed ==
    InferencesReturn => \A r \in Requests : call[r] = "waiting" ~> call[r] # "waiting"

\* Shutdown terminates even when the inference in progress never returns.
ShutdownEnds == drain = "draining" ~> worker \in {"finished", "aborted"}

Fifo == INSTANCE FifoService WITH Requests <- Requests,
                                  call <- call, ticket <- ticket, tickets <- tickets

\* The batcher implements first-come-first-served group service.
RefinesFifo == Fifo!Spec

==============================================================================
