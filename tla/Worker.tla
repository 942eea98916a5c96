-------------------------------- MODULE Worker --------------------------------
(***************************************************************************)
(* A worker process that serves inference over a socket (bin/worker.rs) and   *)
(* the clients that call it (ipc/client.rs).                                *)
(*                                                                         *)
(* A call takes a permit of its client, opens a connection of its own and   *)
(* sends one frame.  Every respawn makes a new client for the same socket   *)
(* (supervisor/handle.rs), and a call that still holds an older one         *)
(* connects to the new worker with a permit of the older one.  For every    *)
(* connection the worker runs a task that counts the request, waits for a   *)
(* permit of its own, infers and answers.  A caller may give up at any      *)
(* time: its connection closes and its client permit is free, but the       *)
(* worker's task does not notice before it writes.                          *)
(***************************************************************************)
EXTENDS Naturals, Sequences, FiniteSets, SequencesExt

CONSTANTS Calls,
          Clients,    \* the client of this worker and those from before a respawn
          ClientOf,   \* the client a call has cloned
          PoolSize,   \* sessions of the worker; also `conns` of a client
          PerModel,   \* EMBED_MAX_WAITERS_<KEY>
          Global,     \* EMBED_MAX_WAITERS
          Unset       \* a variable that is absent or not a number

ASSUME WorkerAssumption ==
    /\ IsFiniteSet(Calls) /\ ClientOf \in [Calls -> Clients]
    /\ PoolSize \in Nat \ {0}
    /\ Unset \notin Nat
    /\ PerModel \in Nat \cup {Unset} /\ Global \in Nat \cup {Unset}

------------------------------------------------------------------------------
(* worker_waiters.rs.                                                       *)

WAITERS_POOL_MULTIPLIER == 8
WAITERS_FLOOR == 16

formula_default == IF PoolSize * WAITERS_POOL_MULTIPLIER > WAITERS_FLOOR
                   THEN PoolSize * WAITERS_POOL_MULTIPLIER ELSE WAITERS_FLOOR

\* A zero would reject every request and is passed over.
Usable(v) == v # Unset /\ v # 0

max_waiters == IF Usable(PerModel) THEN PerModel
               ELSE IF Usable(Global) THEN Global
               ELSE formula_default

------------------------------------------------------------------------------

VARIABLES
    client,    \* each call
    lane,      \* calls waiting for a permit of each client, first come first
    conn,      \* the worker's task for the connection of a call
    reply,     \* what that task answers
    waiters,   \* WAITERS
    permits,   \* free permits of the worker's semaphore
    queue      \* tasks waiting for one, first come first

clientVars == <<client, lane>>
workerVars == <<conn, reply, waiters, permits, queue>>
vars == <<clientVars, workerVars>>

Init == /\ client  = [c \in Calls |-> "new"]
        /\ lane    = [k \in Clients |-> <<>>]
        /\ conn    = [c \in Calls |-> "none"]
        /\ reply   = [c \in Calls |-> "none"]
        /\ waiters = 0
        /\ permits = PoolSize
        /\ queue   = <<>>

------------------------------------------------------------------------------
(* WorkerClient::send_request.                                              *)

\* Calls that hold a permit of client k.
Live(k) == {c \in Calls : client[c] = "sent" /\ ClientOf[c] = k}

\* Fault: a client does not limit its connections.
CanSend_Always(k) == TRUE

CanSend(k) == Cardinality(Live(k)) < PoolSize

Call(c) == /\ client[c] = "new"
           /\ client' = [client EXCEPT ![c] = "queued"]
           /\ lane'   = [lane EXCEPT ![ClientOf[c]] = Append(@, c)]
           /\ UNCHANGED workerVars

\* The next permit of its client is for call c.
IsNext(c) == /\ lane[ClientOf[c]] # <<>> /\ c = Head(lane[ClientOf[c]])
             /\ CanSend(ClientOf[c])

\* With a permit the call connects and writes its frame.
Send(c) == /\ IsNext(c)
           /\ client' = [client EXCEPT ![c] = "sent"]
           /\ lane'   = [lane EXCEPT ![ClientOf[c]] = Tail(@)]
           /\ conn'   = [conn EXCEPT ![c] = "read"]
           /\ UNCHANGED <<reply, waiters, permits, queue>>

\* Nobody listens on the socket, or the frame would be larger than it may be.
SendFails(c) == /\ IsNext(c)
                /\ client' = [client EXCEPT ![c] = "err"]
                /\ lane'   = [lane EXCEPT ![ClientOf[c]] = Tail(@)]
                /\ UNCHANGED workerVars

\* The caller gives up: its future is dropped, and with it permit and stream.
Cancel(c) == /\ client[c] \in {"queued", "sent"}
             /\ client' = [client EXCEPT ![c] = "cancelled"]
             /\ lane'   = [lane EXCEPT ![ClientOf[c]] = RemoveFirst(@, c)]
             /\ UNCHANGED workerVars

------------------------------------------------------------------------------
(* The task of a connection.                                                *)

Goto(c, label) == conn' = [conn EXCEPT ![c] = label]

\* `read_frame` fails: the client has closed the connection, after its answer
\* or before its frame was complete.
Hangup(c) == /\ conn[c] = "read"
             /\ client[c] # "sent"
             /\ Goto(c, "closed")
             /\ UNCHANGED <<clientVars, reply, waiters, permits, queue>>

Overflows == waiters >= max_waiters

\* A request is counted before it is known whether it may wait.  One frame comes
\* on a connection; after its answer there is nothing more to read.
FetchAdd(c) == /\ conn[c] = "read" /\ reply[c] = "none"
               /\ waiters' = waiters + 1
               /\ Goto(c, IF Overflows THEN "overflow" ELSE "counted")
               /\ UNCHANGED <<clientVars, reply, permits, queue>>

\* Fault: a rejected request stays counted.
Reject_Counted(c) == /\ conn[c] = "overflow"
                     /\ reply' = [reply EXCEPT ![c] = "err"]
                     /\ Goto(c, "rejected")
                     /\ UNCHANGED <<clientVars, waiters, permits, queue>>

Reject(c) == /\ conn[c] = "overflow"
             /\ waiters' = waiters - 1
             /\ reply'   = [reply EXCEPT ![c] = "err"]
             /\ Goto(c, "rejected")
             /\ UNCHANGED <<clientVars, permits, queue>>

Enqueue(c) == /\ conn[c] = "counted"
              /\ queue' = Append(queue, c)
              /\ Goto(c, "waiting")
              /\ UNCHANGED <<clientVars, reply, waiters, permits>>

\* The semaphore hands its permits out in the order of the queue.
Acquire(c) == /\ queue # <<>> /\ c = Head(queue)
              /\ permits > 0
              /\ queue'   = Tail(queue)
              /\ permits' = permits - 1
              /\ Goto(c, "granted")
              /\ UNCHANGED <<clientVars, reply, waiters>>

FetchSub(c) == /\ conn[c] = "granted"
               /\ waiters' = waiters - 1
               /\ Goto(c, "running")
               /\ UNCHANGED <<clientVars, reply, permits, queue>>

\* The model answers, fails, or is of another kind than the request.
Infer(c) == /\ conn[c] = "running"
            /\ \E v \in {"ok", "err"} : reply' = [reply EXCEPT ![c] = v]
            /\ Goto(c, "answer")
            /\ UNCHANGED <<clientVars, waiters, permits, queue>>

\* The answer reaches the caller if it is still there.
Delivered(c) == IF client[c] = "sent" THEN [client EXCEPT ![c] = reply[c]] ELSE client

\* Fault: leaving the loop on a failed write keeps the permit.
Write_Leaks(c) == /\ conn[c] \in {"answer", "rejected"}
                  /\ client' = Delivered(c)
                  /\ Goto(c, IF client[c] = "sent" \/ conn[c] = "rejected" THEN "read" ELSE "closed")
                  /\ permits' = IF conn[c] = "answer" /\ client[c] = "sent" THEN permits + 1 ELSE permits
                  /\ UNCHANGED <<lane, reply, waiters, queue>>

\* A failed write ends the loop, except after a rejection, where it is ignored.
\* The permit is held until the iteration is over, the write included.
Write(c) == /\ conn[c] \in {"answer", "rejected"}
            /\ client' = Delivered(c)
            /\ Goto(c, IF client[c] = "sent" \/ conn[c] = "rejected" THEN "read" ELSE "closed")
            /\ permits' = IF conn[c] = "answer" THEN permits + 1 ELSE permits
            /\ UNCHANGED <<lane, reply, waiters, queue>>

\* The answer is larger than a frame may be: nothing is written and the connection
\* is closed, which the caller sees as an error.
WriteFails(c) == /\ conn[c] = "answer" /\ reply[c] = "ok"
                 /\ client'  = IF client[c] = "sent" THEN [client EXCEPT ![c] = "err"] ELSE client
                 /\ permits' = permits + 1
                 /\ Goto(c, "closed")
                 /\ UNCHANGED <<lane, reply, waiters, queue>>

------------------------------------------------------------------------------

Task(c) == \/ Hangup(c)
           \/ FetchAdd(c)
           \/ Reject(c)
           \/ Enqueue(c)
           \/ Acquire(c)
           \/ FetchSub(c)
           \/ Infer(c)
           \/ Write(c)
           \/ WriteFails(c)

Next == \E c \in Calls : Call(c) \/ Send(c) \/ SendFails(c) \/ Cancel(c) \/ Task(c)

\* Tasks are scheduled and inferences end.
Fairness == \A c \in Calls : WF_vars(Send(c)) /\ WF_vars(Task(c))

Spec == Init /\ [][Next]_vars /\ Fairness

------------------------------------------------------------------------------
(* Properties.                                                              *)

In(labels) == {c \in Calls : conn[c] \in labels}

\* bin/worker.rs: WAITERS counts exactly the requests that are waiting or about
\* to be turned away, so it never drifts and never wraps below zero.
WaitersExact == waiters = Cardinality(In({"counted", "overflow", "waiting", "granted"}))

\* bin/worker.rs: a permit is held from its grant to the end of the iteration
\* and given back once, so no more inferences run than there are sessions.
PermitsConserved == permits + Cardinality(In({"granted", "running", "answer"})) = PoolSize

\* A client has as many permits as the worker, so its own calls do not fill the
\* waiters: one that is still wanted is turned away only behind at least
\* max_waiters - (PoolSize - 1) calls that are abandoned or come from another client,
\* one of before a respawn.
OverflowNeedsOthers ==
    [][\A c \in Calls :
          client[c] = "sent" /\ conn[c] = "read" /\ conn'[c] = "overflow" =>
              Cardinality(In({"counted", "overflow", "waiting", "granted"}) \ Live(ClientOf[c]))
                  + PoolSize > max_waiters]_vars

==============================================================================
