------------------------------ MODULE Supervisor ------------------------------
(***************************************************************************)
(* One WorkerSupervisor (src/src/supervisor/handle.rs), the dispatchers of     *)
(* WorkerPool that use it (supervisor/pool.rs) and the client they share with  *)
(* the heartbeat (ipc/client.rs).                                              *)
(*                                                                            *)
(* The watchdog task owns the child process and publishes its pid and its      *)
(* client; the heartbeat task probes the worker and kills it when probes keep  *)
(* failing; dispatchers wait for a client, queue on its semaphore, open a      *)
(* connection by socket path and read one answer.  spawn_one returns the       *)
(* process and the client together, so one generation number names both.       *)
(*                                                                            *)
(* Time is abstracted: a timer may fire whenever its task sleeps, and `fresh`  *)
(* stands for last_success_ms > 0 and younger than the freshness window.       *)
(***************************************************************************)
EXTENDS Naturals, FiniteSets

CONSTANTS Callers,        \* concurrent dispatch_embed/rerank/splade calls
          PoolSize,       \* permits of a client's semaphore
          MaxFails,       \* heartbeat_max_fails
          InitialBackoff, \* INITIAL_BACKOFF
          MaxBackoff,     \* MAX_BACKOFF
          MaxGen,         \* bound on the generations in use at one time
          SessionsWedge   \* an inference may hang while the others go on

ASSUME SupervisorAssumption ==
    /\ PoolSize \in Nat \ {0}
    /\ MaxFails \in Nat \ {0}
    /\ InitialBackoff \in Nat \ {0}
    /\ MaxBackoff \in Nat /\ MaxBackoff >= InitialBackoff
    /\ MaxGen \in Nat \ {0}
    /\ SessionsWedge \in BOOLEAN

Gens == 1..MaxGen
None == 0             \* current_pid = 0, client_slot = None

VARIABLES
    proc,         \* the child process
    child,        \* its generation
    lost,         \* its sessions in which an inference hangs
    watchdog,     \* where launch and watchdog_loop are
    current_pid,
    client_slot,
    backoff,
    heartbeat,    \* where heartbeat_loop is
    probe,        \* the client the heartbeat has cloned
    target,       \* the pid the heartbeat has read
    consecutive_fails,
    fresh,        \* the last success is within the freshness window
    call,         \* where each dispatch is
    client        \* the client each dispatch has cloned

procVars  == <<proc, child, lost>>
slotVars  == <<current_pid, client_slot>>
beatVars  == <<heartbeat, probe, target, consecutive_fails>>
callVars  == <<call, client>>
vars == <<procVars, watchdog, slotVars, backoff, beatVars, fresh, callVars>>

Bound   == {"up", "wedged", "failing"}   \* the socket is bound
Running == Bound \cup {"loading"}

\* Some session of the worker computes real results.
Serving == proc = "up" /\ lost < PoolSize

Init == /\ proc = "loading"
        /\ child = 1
        /\ lost = 0
        /\ watchdog = "launching"
        /\ current_pid = None
        /\ client_slot = None
        /\ backoff = InitialBackoff
        /\ heartbeat = "off"
        /\ probe = None
        /\ target = None
        /\ consecutive_fails = 0
        /\ fresh = FALSE
        /\ call = [d \in Callers |-> "idle"]
        /\ client = [d \in Callers |-> None]

------------------------------------------------------------------------------
(* The worker process, as seen from the supervisor.                         *)

\* The connections to the process are reset when it goes; an answer that was
\* already written can still be read.
Reset(state) == IF state \in {"open", "hung"} THEN "broken" ELSE state

ProcessEnds(how) == /\ proc' = how
                    /\ call' = [d \in Callers |-> Reset(call[d])]
                    /\ heartbeat' = Reset(heartbeat)
                    /\ UNCHANGED <<child, lost, client, probe, target, consecutive_fails>>

Loaded == /\ proc = "loading"
          /\ proc' = "up"
          /\ UNCHANGED <<child, lost, watchdog, slotVars, backoff, beatVars, fresh, callVars>>

\* It spins without progress, or answers every request with an error.
Sickens == /\ proc = "up"
           /\ proc' \in {"wedged", "failing"}
           /\ UNCHANGED <<child, lost, watchdog, slotVars, backoff, beatVars, fresh, callVars>>

Crash == /\ proc \in Running
         /\ ProcessEnds("exited")
         /\ UNCHANGED <<watchdog, slotVars, backoff, fresh>>

------------------------------------------------------------------------------
(* launch.                                                                  *)

LaunchConnected == /\ watchdog = "launching"
                   /\ proc \in Bound
                   /\ client_slot' = child
                   /\ watchdog' = "launched"
                   /\ UNCHANGED <<procVars, current_pid, backoff, beatVars, fresh, callVars>>

\* The server exits when the first spawn fails.
LaunchFails == /\ watchdog = "launching"
               /\ watchdog' = "server_exit"
               /\ ProcessEnds("gone")
               /\ UNCHANGED <<slotVars, backoff, fresh>>

StartTasks == /\ watchdog = "launched"
              /\ current_pid' = child
              /\ watchdog' = "wait"
              /\ heartbeat' = "sleep"
              /\ UNCHANGED <<procVars, client_slot, backoff, probe, target, consecutive_fails,
                             fresh, callVars>>

------------------------------------------------------------------------------
(* watchdog_loop.                                                           *)

\* child.wait() returns and clear_on_exit zeroes the pid ...
WaitReturns == /\ watchdog = "wait"
               /\ proc = "exited"
               /\ proc' = "gone"
               /\ current_pid' = None
               /\ watchdog' = "clear"
               /\ UNCHANGED <<child, lost, client_slot, backoff, beatVars, fresh, callVars>>

\* Fault: the slot keeps the client of the dead worker.
ClearSlot_Keeps == /\ watchdog = "clear"
                   /\ watchdog' = "backoff"
                   /\ UNCHANGED <<procVars, slotVars, backoff, beatVars, fresh, callVars>>

\* ... and, once it has the write lock, the slot.
ClearSlot == /\ watchdog = "clear"
             /\ client_slot' = None
             /\ watchdog' = "backoff"
             /\ UNCHANGED <<procVars, current_pid, backoff, beatVars, fresh, callVars>>

\* Generations somebody still refers to.
InUse == {child, probe, target} \cup {client[d] : d \in Callers}

\* Fault: the pid is stored as soon as the process is forked.
Spawn_StoresPid == /\ watchdog = "backoff"
                   /\ proc' = "loading"
                   /\ lost' = 0
                   /\ child' \in Gens \ InUse
                   /\ current_pid' = child'
                   /\ watchdog' = "spawn"
                   /\ UNCHANGED <<client_slot, backoff, beatVars, fresh, callVars>>

\* sleep(backoff) is over: spawn_one removes the socket and forks.
Spawn == /\ watchdog = "backoff"
         /\ proc' = "loading"
         /\ lost' = 0
         /\ \E g \in Gens \ InUse : /\ \A h \in Gens \ InUse : g <= h
                                    /\ child' = g
         /\ watchdog' = "spawn"
         /\ UNCHANGED <<slotVars, backoff, beatVars, fresh, callVars>>

\* Fault: the delay is doubled without a cap.
next_backoff_Uncapped(current) == current * 2

next_backoff(current) == IF current * 2 < MaxBackoff THEN current * 2 ELSE MaxBackoff

\* No socket in time, the process exited, or connect failed; dropping the
\* Child kills the process.
SpawnFails == /\ watchdog = "spawn"
              /\ ProcessEnds("gone")
              /\ backoff' = next_backoff(backoff)
              /\ watchdog' = "backoff"
              /\ UNCHANGED <<slotVars, fresh>>

\* The socket is there and accepts: the pid is stored ...
SpawnConnected == /\ watchdog = "spawn"
                  /\ proc \in Bound
                  /\ current_pid' = child
                  /\ watchdog' = "publish"
                  /\ UNCHANGED <<procVars, client_slot, backoff, beatVars, fresh, callVars>>

\* Fault: the new client is not stored.
Publish_DropsClient == /\ watchdog = "publish"
                       /\ backoff' = InitialBackoff
                       /\ watchdog' = "wait"
                       /\ UNCHANGED <<procVars, slotVars, beatVars, fresh, callVars>>

\* ... then the client.
Publish == /\ watchdog = "publish"
           /\ client_slot' = child
           /\ backoff' = InitialBackoff
           /\ watchdog' = "wait"
           /\ UNCHANGED <<procVars, current_pid, beatVars, fresh, callVars>>

------------------------------------------------------------------------------
(* heartbeat_loop.  The probe shares the client's semaphore with dispatches. *)

HoldsPermit == {"open", "hung", "broken", "answered", "refused"}

Permits(g) == Cardinality({d \in Callers : client[d] = g /\ call[d] \in HoldsPermit})
              + (IF probe = g /\ heartbeat \in HoldsPermit THEN 1 ELSE 0)

\* Between respawns: no probe, and the next worker starts with no failures.
Skip == /\ heartbeat' = "sleep"
        /\ consecutive_fails' = 0
        /\ probe' = None

\* Fault: every tick starts with a clean fail counter.
TickBegins_Forgets == /\ heartbeat = "sleep"
                      /\ \/ client_slot = None /\ Skip
                         \/ /\ client_slot # None
                            /\ heartbeat' = "queued"
                            /\ probe' = client_slot
                            /\ consecutive_fails' = 0
                      /\ UNCHANGED <<procVars, watchdog, slotVars, backoff, target, fresh, callVars>>

TickBegins == /\ heartbeat = "sleep"
              /\ \/ client_slot = None /\ Skip
                 \/ /\ client_slot # None
                    /\ heartbeat' = "queued"
                    /\ probe' = client_slot
                    /\ UNCHANGED consecutive_fails
              /\ UNCHANGED <<procVars, watchdog, slotVars, backoff, target, fresh, callVars>>

\* A probe that finds no listener fails, as one that times out in the queue.
ProbeSent == /\ heartbeat = "queued"
             /\ Permits(probe) < PoolSize
             /\ proc \in Bound
             /\ heartbeat' = "open"
             /\ UNCHANGED <<procVars, watchdog, slotVars, backoff, probe, target,
                            consecutive_fails, fresh, callVars>>

\* The probe's own inference can hang, too.
ProbeHangs == /\ SessionsWedge
              /\ heartbeat = "open"
              /\ Serving
              /\ heartbeat' = "hung"
              /\ lost' = lost + 1
              /\ UNCHANGED <<proc, child, watchdog, slotVars, backoff, probe, target,
                             consecutive_fails, fresh, callVars>>

ProbeOk == /\ heartbeat = "open"
           /\ Serving
           /\ Skip
           /\ UNCHANGED <<procVars, watchdog, slotVars, backoff, target, fresh, callVars>>

\* Timeout, which a healthy but busy worker can cause too, error answer or
\* broken connection.  Suppressed while a real inference is recent; at the
\* fail budget the pid is read.
ProbeFails ==
    /\ heartbeat \in {"queued", "open", "hung", "broken"}
    /\ IF fresh
       THEN /\ heartbeat' = "sleep"
            /\ probe' = None
            /\ UNCHANGED <<target, consecutive_fails>>
       ELSE IF consecutive_fails + 1 < MaxFails
       THEN /\ heartbeat' = "sleep"
            /\ probe' = None
            /\ consecutive_fails' = consecutive_fails + 1
            /\ UNCHANGED target
       ELSE IF current_pid = None
       THEN Skip /\ UNCHANGED target
       ELSE /\ heartbeat' = "kill"
            /\ probe' = None
            /\ target' = current_pid
            /\ consecutive_fails' = consecutive_fails + 1
    /\ UNCHANGED <<procVars, watchdog, slotVars, backoff, fresh, callVars>>

\* SIGKILL; the watchdog may have reaped the process since the pid was read.
Kill == /\ heartbeat = "kill"
        /\ IF target = child /\ proc \in Running
           THEN proc' = "exited" /\ call' = [d \in Callers |-> Reset(call[d])]
           ELSE UNCHANGED <<proc, call>>
        /\ heartbeat' = "sleep"
        /\ target' = None
        /\ consecutive_fails' = 0
        /\ UNCHANGED <<child, lost, watchdog, slotVars, backoff, probe, fresh, client>>

\* The last success leaves the freshness window.
Stale == /\ fresh
         /\ fresh' = FALSE
         /\ UNCHANGED <<procVars, watchdog, slotVars, backoff, beatVars, callVars>>

------------------------------------------------------------------------------
(* WorkerPool::dispatch_* and WorkerClient::send_request.                    *)

CallMoves(d, where) == /\ call' = [call EXCEPT ![d] = where]
                       /\ UNCHANGED <<proc, child, watchdog, slotVars, backoff, beatVars>>

CallEnds(d) == /\ CallMoves(d, "idle")
               /\ client' = [client EXCEPT ![d] = None]
               /\ UNCHANGED lost

\* The pool knows the supervisor once launch has returned.
DispatchBegins(d) == /\ call[d] = "idle"
                     /\ watchdog \notin {"launching", "launched", "server_exit"}
                     /\ CallMoves(d, "polling")
                     /\ UNCHANGED <<lost, client, fresh>>

GotClient(d) == /\ call[d] = "polling"
                /\ client_slot # None
                /\ CallMoves(d, "queued")
                /\ client' = [client EXCEPT ![d] = client_slot]
                /\ UNCHANGED <<lost, fresh>>

\* DispatchError::Timeout
DispatchTimesOut(d) == /\ call[d] = "polling"
                       /\ client_slot = None
                       /\ CallEnds(d)
                       /\ UNCHANGED <<fresh>>

\* A permit of the client the call has cloned, then a connection to whatever
\* process is bound to the socket path.
SendRequest(d) == /\ call[d] = "queued"
                  /\ Permits(client[d]) < PoolSize
                  /\ \/ proc \in Bound /\ CallMoves(d, "open") /\ UNCHANGED <<lost, client>>
                     \/ proc \notin Bound /\ CallEnds(d)
                  /\ UNCHANGED <<fresh>>

\* The inference of the request hangs; it cannot be cancelled, so the session
\* is gone until the process is.
InferenceHangs(d) == /\ SessionsWedge
                     /\ call[d] = "open"
                     /\ Serving
                     /\ CallMoves(d, "hung")
                     /\ lost' = lost + 1
                     /\ UNCHANGED <<client, fresh>>

\* The worker writes its response frame.
WorkerAnswers(d) == /\ call[d] = "open"
                    /\ \/ Serving /\ CallMoves(d, "answered")
                       \/ proc = "failing" /\ CallMoves(d, "refused")
                    /\ UNCHANGED <<lost, client, fresh>>

\* Fault: an error answer stamps last_success_ms as well.
ReadAnswer_StampsErr(d) == /\ call[d] \in {"answered", "refused", "broken"}
                           /\ fresh' = (fresh \/ call[d] \in {"answered", "refused"})
                           /\ CallEnds(d)
          
\* The dispatcher reads the response or the error; only a real result stamps
\* last_success_ms.
ReadAnswer(d) == /\ call[d] \in {"answered", "refused", "broken"}
                 /\ fresh' = (fresh \/ call[d] = "answered")
                 /\ CallEnds(d)

\* The HTTP client goes away and axum drops the dispatch.
Cancel(d) == /\ call[d] # "idle"
             /\ CallEnds(d)
             /\ UNCHANGED <<fresh>>

------------------------------------------------------------------------------

Process   == Loaded \/ Sickens \/ Crash
Launch    == LaunchConnected \/ LaunchFails \/ StartTasks
Watchdog  == WaitReturns \/ ClearSlot \/ Spawn \/ SpawnFails \/ SpawnConnected \/ Publish
Heartbeat == TickBegins \/ ProbeSent \/ ProbeHangs \/ ProbeOk \/ ProbeFails \/ Kill
Dispatch(d) == \/ DispatchBegins(d) \/ GotClient(d) \/ DispatchTimesOut(d)
               \/ SendRequest(d) \/ InferenceHangs(d) \/ WorkerAnswers(d)
               \/ ReadAnswer(d) \/ Cancel(d)

Next == \/ watchdog # "server_exit" /\ (\/ Process
                                        \/ Launch
                                        \/ Watchdog
                                        \/ Heartbeat
                                        \/ Stale
                                        \/ \E d \in Callers : Dispatch(d))
        \/ watchdog = "server_exit" /\ UNCHANGED vars

Spec == Init /\ [][Next]_vars

\* Timers fire and tasks run; a worker that is started often enough comes up
\* some time; the semaphore serves its waiters in turn.
Fairness == /\ WF_vars(Launch)
            /\ WF_vars(Watchdog)
            /\ SF_vars(Loaded)
            /\ SF_vars(SpawnConnected)
            /\ WF_vars(TickBegins \/ Kill)
            /\ WF_vars(ProbeOk \/ ProbeFails)
            /\ WF_vars(Stale)
            /\ \A d \in Callers : /\ WF_vars(GotClient(d) \/ DispatchTimesOut(d))
                                  /\ SF_vars(SendRequest(d))
                                  /\ WF_vars(WorkerAnswers(d))
                                  /\ WF_vars(ReadAnswer(d))

FairSpec == Spec /\ Fairness

------------------------------------------------------------------------------
(* Properties.                                                              *)

CallStates == {"idle", "polling", "queued", "open", "hung", "broken", "answered", "refused"}

\* Every variable has its type; the delay between respawns stays within its cap.
TypeOK == /\ proc \in Running \cup {"exited", "gone"}
          /\ child \in Gens
          /\ lost \in 0..PoolSize
          /\ watchdog \in {"launching", "launched", "server_exit", "wait", "clear", "backoff",
                           "spawn", "publish"}
          /\ current_pid \in Gens \cup {None}
          /\ client_slot \in Gens \cup {None}
          /\ backoff \in InitialBackoff..MaxBackoff
          /\ heartbeat \in {"off", "sleep", "queued", "open", "hung", "broken", "kill"}
          /\ probe \in Gens \cup {None}
          /\ target \in Gens \cup {None}
          /\ consecutive_fails \in 0..MaxFails
          /\ fresh \in BOOLEAN
          /\ call \in [Callers -> CallStates]
          /\ client \in [Callers -> Gens \cup {None}]

\* What the watchdog publishes is the child it waits for: no dispatcher and no
\* probe can get the client, and no kill the pid, of an earlier worker from
\* the supervisor, and the pid goes before the client.
PublishedIsCurrent ==
    /\ current_pid # None => current_pid = child /\ proc # "gone"
    /\ client_slot # None => client_slot = child
    /\ client_slot # None /\ current_pid = None => watchdog \in {"launched", "clear"}

\* The heartbeat never ends a worker that is still loading its model, however long
\* ago it read the pid and whatever failed before: a process that its SIGKILL ends
\* has bound its socket and is the one the supervisor publishes.
KillsOnlyPublished ==
    [][Kill /\ proc' # proc => proc \in Bound /\ current_pid = child]_vars

\* A worker that has stopped making progress is always replaced: neither the
\* suppression by recent successes nor the resets of the fail counter keep the
\* heartbeat from killing it.
SickWorkerEnds == proc \in Bound /\ ~Serving ~> Serving \/ proc \notin Bound

\* After any exit the service comes back.
ServiceResumes == client_slot = None ~> client_slot # None \/ watchdog = "server_exit"

\* Every dispatch ends, also when the worker it talks to hangs or dies.
EveryCallEnds == \A d \in Callers : call[d] # "idle" ~> call[d] = "idle"

==============================================================================
