------------------------------- MODULE Ready -------------------------------
(***************************************************************************)
(* GET /ready (src/src/api_health.rs) over a worker: the probe embeds one     *)
(* word with the default model, through the client of its worker or, when     *)
(* models run in the server, in a task on a blocking thread, and gives up     *)
(* after a while.  A model may be wedged: no inference on it returns.         *)
(*                                                                         *)
(* What a probe that gave up has begun goes on: its request stays with the    *)
(* worker, its task keeps the thread and the session.                         *)
(***************************************************************************)
EXTENDS Worker

CONSTANT Probes   \* the calls that are probes; the others are requests

ASSUME ProbesAssumption == Probes \subseteq Calls

VARIABLES in_worker,  \* whether models run in worker processes
          wedged,     \* whether the default model is wedged
          probe,      \* "new", "waiting", "ready" (200) or "not ready" (503)
          task        \* the blocking task of a probe in the server

probeVars == <<in_worker, wedged, probe, task>>
allVars   == <<vars, probeVars>>

Reply(p, status) == probe' = [probe EXCEPT ![p] = status]

\* The server may have begun to shut down; that is looked at once, here.  The
\* default model is always there, see Config.
StartProbe(p) ==
    /\ probe[p] = "new"
    /\ \/ Reply(p, "not ready") /\ UNCHANGED <<vars, task>>
       \/ in_worker /\ Reply(p, "waiting") /\ Call(p) /\ UNCHANGED task
       \/ /\ ~in_worker /\ Reply(p, "waiting")
          /\ task' = [task EXCEPT ![p] = "running"]
          /\ UNCHANGED vars
    /\ UNCHANGED <<in_worker, wedged>>

\* The task tokenizes and infers; it can fail at either and it can panic.
TaskEnds(p) ==
    /\ task[p] = "running" /\ ~wedged
    /\ \E v \in {"ok", "err", "panic"} : task' = [task EXCEPT ![p] = v]
    /\ UNCHANGED <<vars, in_worker, wedged, probe>>

Outcome(p) == IF in_worker THEN client[p] ELSE task[p]

\* Fault: any result of the task counts, a failed inference too.
FinishProbe_AnyResult(p) ==
    /\ probe[p] = "waiting" /\ Outcome(p) \in {"ok", "err", "panic"}
    /\ Reply(p, IF Outcome(p) = "ok" \/ ~in_worker THEN "ready" ELSE "not ready")
    /\ UNCHANGED <<vars, in_worker, wedged, task>>

FinishProbe(p) ==
    /\ probe[p] = "waiting" /\ Outcome(p) \in {"ok", "err", "panic"}
    /\ Reply(p, IF Outcome(p) = "ok" THEN "ready" ELSE "not ready")
    /\ UNCHANGED <<vars, in_worker, wedged, task>>

\* Fault: the time runs only once the worker has been asked.
GiveUp_Sent(p) ==
    /\ probe[p] = "waiting"
    /\ Reply(p, "not ready")
    /\ \/ in_worker /\ client[p] = "sent" /\ Cancel(p)
       \/ ~in_worker /\ task[p] = "running" /\ UNCHANGED vars
    /\ UNCHANGED <<in_worker, wedged, task>>

\* The time is up, or the dispatch fails.
GiveUp(p) ==
    /\ probe[p] = "waiting"
    /\ Reply(p, "not ready")
    /\ \/ in_worker /\ Cancel(p)
       \/ ~in_worker /\ task[p] = "running" /\ UNCHANGED vars
    /\ UNCHANGED <<in_worker, wedged, task>>

\* A wedged model never comes back to a task of its worker.
WorkerTask(c) == (wedged => conn[c] # "running") /\ Task(c) /\ UNCHANGED probeVars

Request(c) == in_worker /\ (Call(c) \/ Cancel(c)) /\ UNCHANGED probeVars

ReadyInit ==
    /\ Init
    /\ in_worker \in BOOLEAN
    /\ wedged \in BOOLEAN
    /\ probe = [p \in Probes |-> "new"]
    /\ task  = [p \in Probes |-> "none"]

ReadyNext ==
    \/ \E p \in Probes : StartProbe(p) \/ TaskEnds(p) \/ FinishProbe(p) \/ GiveUp(p)
    \/ \E c \in Calls \ Probes : Request(c)
    \/ \E c \in Calls : ((Send(c) \/ SendFails(c)) /\ UNCHANGED probeVars) \/ WorkerTask(c)

\* The timer of a probe fires, tasks are scheduled, and inferences return unless
\* the model is wedged.
ReadySpec ==
    /\ ReadyInit /\ [][ReadyNext]_allVars
    /\ \A p \in Probes : WF_allVars(TaskEnds(p)) /\ WF_allVars(FinishProbe(p) \/ GiveUp(p))
    /\ \A c \in Calls : WF_allVars(Send(c) /\ UNCHANGED probeVars) /\ WF_allVars(WorkerTask(c))

------------------------------------------------------------------------------
(* Properties.                                                              *)

\* api_health.rs: a probe answers 200 only when its own inference has come back
\* with a vector, in either mode.  (Once, a failed inference in the server counted.)
ReadyMeansServed == \A p \in Probes : probe[p] = "ready" => Outcome(p) = "ok" /\ ~wedged

\* api_health.rs: a probe is answered in any case, behind a wedged model, behind
\* requests that fill the client, and behind the probes that gave up before it.
ProbeEnds == \A p \in Probes : probe[p] = "waiting" ~> probe[p] \in {"ready", "not ready"}

\* ipc/client.rs: unless the model is wedged a call that is not given up ends with
\* an answer, whatever the calls before it abandoned.
EveryCallAnswered ==
    \A c \in Calls : client[c] = "queued" /\ ~wedged ~> client[c] \in {"ok", "err", "cancelled"}
==============================================================================
