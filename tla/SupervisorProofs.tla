-------------------------- MODULE SupervisorProofs --------------------------
(***************************************************************************)
(* Proofs about Supervisor, for every number of callers, every pool size and *)
(* every setting of the heartbeat and of the backoff.                        *)
(***************************************************************************)
EXTENDS Supervisor, TLAPS

USE DEF procVars, slotVars, beatVars, callVars, vars, Gens, None, Bound, Running

\* What is published at each stage of launch and of watchdog_loop.
Stage ==
    /\ watchdog \in {"launching", "server_exit", "backoff", "spawn"} =>
          current_pid = None /\ client_slot = None
    /\ watchdog \in {"launched", "clear"} => current_pid = None /\ client_slot = child
    /\ watchdog = "publish" => current_pid = child /\ client_slot = None
    /\ watchdog = "wait" => current_pid = child /\ client_slot = child
    /\ watchdog \in {"launched", "publish", "wait"} => proc \notin {"loading", "gone"}

\* The fail budget is spent only while a kill is on its way; the heartbeat
\* starts with the watchdog.
Budget == /\ heartbeat # "kill" => consecutive_fails < MaxFails
          /\ watchdog \in {"launching", "launched"} => heartbeat = "off"

\* The heartbeat has a pid only on its way to the kill, and as long as it is the
\* child's the child has been published or is reaped.
Aim == /\ heartbeat # "kill" => target = None
       /\ target = child => /\ proc # "loading"
                            /\ proc # "gone" => watchdog \in {"publish", "wait"}

IInv == TypeOK /\ Stage /\ Budget /\ Aim

\* The delay stays between its initial and its largest value.
LEMMA BackoffInRange ==
  ASSUME NEW b \in InitialBackoff..MaxBackoff
  PROVE  next_backoff(b) \in InitialBackoff..MaxBackoff
  BY SupervisorAssumption DEF next_backoff

\* The reset of the heartbeat keeps the types.
LEMMA ResetType ==
  /\ \A s \in CallStates : Reset(s) \in CallStates
  /\ \A s \in {"off", "sleep", "queued", "open", "hung", "broken", "kill"} :
        Reset(s) \in {"off", "sleep", "queued", "open", "hung", "broken", "kill"}
  BY DEF Reset, CallStates

\* A supervisor before its first launch.
LEMMA InitIInv == Init => IInv
<1> SUFFICES ASSUME Init PROVE IInv
  OBVIOUS
<1>1. fresh \in BOOLEAN
  BY DEF Init
<1>2. TypeOK
  BY <1>1, SupervisorAssumption DEF Init, TypeOK, CallStates
<1>3. Stage /\ Budget /\ Aim
  BY SupervisorAssumption DEF Init, Stage, Budget, Aim
<1> QED
  BY <1>2, <1>3 DEF IInv

\* The end of the process keeps the types of what it touches.
LEMMA EndsType ==
  ASSUME TypeOK, NEW how \in {"exited", "gone"}, ProcessEnds(how)
  PROVE  /\ proc' \in Running \cup {"exited", "gone"}
         /\ call' \in [Callers -> CallStates]
         /\ heartbeat' \in {"off", "sleep", "queued", "open", "hung", "broken", "kill"}
  BY ResetType DEF ProcessEnds, TypeOK

\* Every step keeps the types.
LEMMA NextType == TypeOK /\ Budget /\ [Next]_vars => TypeOK'
<1> SUFFICES ASSUME TypeOK, Budget, [Next]_vars PROVE TypeOK'
  OBVIOUS
<1> USE SupervisorAssumption
<1>1. CASE Process
  <2>1. CASE Loaded \/ Sickens
    BY <2>1 DEF Loaded, Sickens, TypeOK
  <2>2. CASE Crash
    BY <2>2, EndsType DEF Crash, TypeOK, ProcessEnds
  <2> QED
    BY <1>1, <2>1, <2>2 DEF Process
<1>2. CASE Launch
  <2>1. CASE LaunchConnected \/ StartTasks
    BY <2>1 DEF LaunchConnected, StartTasks, TypeOK
  <2>2. CASE LaunchFails
    BY <2>2, EndsType DEF LaunchFails, TypeOK, ProcessEnds
  <2> QED
    BY <1>2, <2>1, <2>2 DEF Launch
<1>3. CASE Watchdog
  <2>1. CASE WaitReturns \/ ClearSlot \/ SpawnConnected \/ Publish
    BY <2>1 DEF WaitReturns, ClearSlot, SpawnConnected, Publish, TypeOK
  <2>2. CASE Spawn
    BY <2>2 DEF Spawn, TypeOK
  <2>3. CASE SpawnFails
    BY <2>3, EndsType, BackoffInRange DEF SpawnFails, TypeOK, ProcessEnds
  <2> QED
    BY <1>3, <2>1, <2>2, <2>3 DEF Watchdog
<1>4. CASE Heartbeat
  <2>1. CASE TickBegins
    BY <2>1 DEF TickBegins, Skip, TypeOK
  <2>2. CASE ProbeSent \/ ProbeOk
    BY <2>2 DEF ProbeSent, ProbeOk, Skip, TypeOK
  <2>3. CASE ProbeHangs
    BY <2>3 DEF ProbeHangs, Serving, TypeOK
  <2>4. CASE ProbeFails
    <3>1. /\ heartbeat' \in {"sleep", "kill"}
          /\ probe' = None
          /\ target' \in Gens \cup {None}
      BY <2>4 DEF ProbeFails, Skip, TypeOK
    <3>2. consecutive_fails' \in 0..MaxFails
      BY <2>4 DEF ProbeFails, Skip, TypeOK, Budget
    <3> QED
      BY <2>4, <3>1, <3>2 DEF ProbeFails, TypeOK
  <2>5. CASE Kill
    <3>1. proc' \in Running \cup {"exited", "gone"} /\ call' \in [Callers -> CallStates]
      BY <2>5, ResetType DEF Kill, TypeOK
    <3> QED
      BY <2>5, <3>1 DEF Kill, TypeOK
  <2> QED
    BY <1>4, <2>1, <2>2, <2>3, <2>4, <2>5 DEF Heartbeat
<1>5. CASE Stale
  <2>1. fresh' \in BOOLEAN
    BY <1>5 DEF Stale
  <2> QED
    BY <1>5, <2>1 DEF Stale, TypeOK
<1>6. ASSUME NEW d \in Callers, Dispatch(d) PROVE TypeOK'
  <2>1. CASE DispatchBegins(d) \/ GotClient(d)
    BY <2>1 DEF DispatchBegins, GotClient, CallMoves, TypeOK, CallStates
  <2>2. CASE DispatchTimesOut(d) \/ Cancel(d)
    BY <2>2 DEF DispatchTimesOut, Cancel, CallEnds, CallMoves, TypeOK, CallStates
  <2>3. CASE SendRequest(d)
    BY <2>3 DEF SendRequest, CallEnds, CallMoves, TypeOK, CallStates
  <2>4. CASE InferenceHangs(d)
    BY <2>4 DEF InferenceHangs, Serving, CallMoves, TypeOK, CallStates
  <2>5. CASE WorkerAnswers(d)
    BY <2>5 DEF WorkerAnswers, CallMoves, TypeOK, CallStates
  <2>6. CASE ReadAnswer(d)
    <3>1. fresh' \in BOOLEAN
      BY <2>6 DEF ReadAnswer, TypeOK
    <3> QED
      BY <2>6, <3>1 DEF ReadAnswer, CallEnds, CallMoves, TypeOK, CallStates
  <2> QED
    BY <1>6, <2>1, <2>2, <2>3, <2>4, <2>5, <2>6 DEF Dispatch
<1>7. CASE UNCHANGED vars
  BY <1>7 DEF TypeOK
<1> QED
  BY <1>1, <1>2, <1>3, <1>4, <1>5, <1>6, <1>7 DEF Next

\* Every step of the watchdog publishes what its stage says.
LEMMA NextStage == TypeOK /\ Stage /\ [Next]_vars => Stage'
<1> SUFFICES ASSUME TypeOK, Stage, [Next]_vars PROVE Stage'
  OBVIOUS
<1>1. CASE Process
  BY <1>1 DEF Process, Loaded, Sickens, Crash, ProcessEnds, Stage
<1>2. CASE Launch
  BY <1>2 DEF Launch, LaunchConnected, LaunchFails, StartTasks, ProcessEnds, Stage
<1>3. CASE Watchdog
  BY <1>3 DEF Watchdog, WaitReturns, ClearSlot, Spawn, SpawnFails, SpawnConnected, Publish,
              ProcessEnds, Stage
<1>4. CASE Heartbeat
  <2>1. UNCHANGED <<child, watchdog, slotVars>>
    BY <1>4 DEF Heartbeat, TickBegins, ProbeSent, ProbeHangs, ProbeOk, ProbeFails, Kill
  <2>2. proc' = proc \/ proc' = "exited"
    BY <1>4 DEF Heartbeat, TickBegins, ProbeSent, ProbeHangs, ProbeOk, ProbeFails, Kill
  <2> QED
    BY <2>1, <2>2 DEF Stage
<1>5. CASE Stale \/ UNCHANGED vars
  BY <1>5 DEF Stale, Stage
<1>6. ASSUME NEW d \in Callers, Dispatch(d) PROVE Stage'
  <2>1. UNCHANGED <<proc, child, watchdog, slotVars>>
    BY <1>6 DEF Dispatch, DispatchBegins, GotClient, DispatchTimesOut, SendRequest,
                InferenceHangs, WorkerAnswers, ReadAnswer, Cancel, CallEnds, CallMoves
  <2> QED
    BY <2>1 DEF Stage
<1> QED
  BY <1>1, <1>2, <1>3, <1>4, <1>5, <1>6 DEF Next

\* The fail budget is spent only while a kill is under way.
LEMMA NextBudget == TypeOK /\ Budget /\ [Next]_vars => Budget'
<1> SUFFICES ASSUME TypeOK, Budget, [Next]_vars PROVE Budget'
  OBVIOUS
<1> USE SupervisorAssumption
<1>1. CASE Process \/ Launch \/ Watchdog
  <2>1. consecutive_fails' = consecutive_fails
    BY <1>1 DEF Process, Launch, Watchdog, Loaded, Sickens, Crash, LaunchConnected, LaunchFails,
                StartTasks, WaitReturns, ClearSlot, Spawn, SpawnFails, SpawnConnected, Publish,
                ProcessEnds
  <2>2. heartbeat' = heartbeat \/ heartbeat' = Reset(heartbeat)
        \/ (heartbeat' = "sleep" /\ StartTasks)
    BY <1>1 DEF Process, Launch, Watchdog, Loaded, Sickens, Crash, LaunchConnected, LaunchFails,
                StartTasks, WaitReturns, ClearSlot, Spawn, SpawnFails, SpawnConnected, Publish,
                ProcessEnds
  <2>3. CASE StartTasks
    BY <2>1, <2>3 DEF Budget, StartTasks
  <2>4. watchdog' \in {"launching", "launched"} => watchdog \in {"launching", "launched"}
    BY <1>1 DEF Process, Launch, Watchdog, Loaded, Sickens, Crash, LaunchConnected, LaunchFails,
                StartTasks, WaitReturns, ClearSlot, Spawn, SpawnFails, SpawnConnected, Publish
  <2> QED
    BY <2>1, <2>2, <2>3, <2>4 DEF Budget, Reset
<1>2. CASE Heartbeat
  BY <1>2 DEF Heartbeat, TickBegins, ProbeSent, ProbeHangs, ProbeOk, ProbeFails, Kill, Skip,
              Budget, TypeOK
<1>3. CASE Stale \/ UNCHANGED vars
  BY <1>3 DEF Stale, Budget
<1>4. ASSUME NEW d \in Callers, Dispatch(d) PROVE Budget'
  BY <1>4 DEF Dispatch, DispatchBegins, GotClient, DispatchTimesOut, SendRequest,
              InferenceHangs, WorkerAnswers, ReadAnswer, Cancel, CallEnds, CallMoves, Budget
<1> QED
  BY <1>1, <1>2, <1>3, <1>4 DEF Next

\* No step points the kill at a worker that is not published: the pid is read
\* from what is published, and a new worker is of a generation nobody refers to.
LEMMA NextAim == IInv /\ [Next]_vars => Aim'
<1> SUFFICES ASSUME TypeOK, Stage, Budget, Aim, [Next]_vars PROVE Aim'
  BY DEF IInv
<1>1. CASE Process
  <2>1. UNCHANGED <<child, target, watchdog>> /\ (heartbeat' # "kill" => heartbeat # "kill")
    BY <1>1 DEF Process, Loaded, Sickens, Crash, ProcessEnds, Reset
  <2> QED
    BY <1>1, <2>1 DEF Process, Loaded, Sickens, Crash, ProcessEnds, Aim
<1>2. CASE Launch
  <2>1. watchdog \in {"launching", "launched"} /\ UNCHANGED <<child, target>>
    BY <1>2 DEF Launch, LaunchConnected, LaunchFails, StartTasks, ProcessEnds
  <2>2. target = None /\ child # None
    BY <2>1, SupervisorAssumption DEF Budget, Aim, TypeOK
  <2> QED
    BY <2>1, <2>2 DEF Aim
<1>3. CASE Watchdog
  <2>1. target' = target /\ (heartbeat' # "kill" => heartbeat # "kill")
    BY <1>3 DEF Watchdog, WaitReturns, ClearSlot, Spawn, SpawnFails, SpawnConnected, Publish,
                ProcessEnds, Reset
  <2>2. CASE Spawn
    <3>1. child' # target
      BY <2>2 DEF Spawn, InUse
    <3> QED
      BY <2>1, <3>1 DEF Aim
  <2>3. CASE WaitReturns \/ ClearSlot \/ SpawnFails \/ SpawnConnected \/ Publish
    BY <2>1, <2>3 DEF WaitReturns, ClearSlot, SpawnFails, SpawnConnected, Publish, ProcessEnds, Aim
  <2> QED
    BY <1>3, <2>2, <2>3 DEF Watchdog
<1>4. CASE Heartbeat
  <2>1. CASE TickBegins \/ ProbeSent \/ ProbeHangs \/ ProbeOk
    BY <2>1 DEF TickBegins, ProbeSent, ProbeHangs, ProbeOk, Skip, Aim
  <2>2. CASE ProbeFails
    <3>1. UNCHANGED <<proc, child, watchdog>>
      BY <2>2 DEF ProbeFails
    <3>2. CASE target' = target /\ heartbeat' = "sleep"
      BY <2>2, <3>1, <3>2 DEF ProbeFails, Aim
    <3>3. CASE heartbeat' = "kill" /\ target' = current_pid /\ current_pid # None
      <4>1. watchdog \in {"publish", "wait"} /\ proc # "loading"
        BY <3>3 DEF TypeOK, Stage
      <4> QED
        BY <3>1, <3>3, <4>1 DEF Aim
    <3> QED
      BY <2>2, <3>2, <3>3 DEF ProbeFails, Skip
  <2>3. CASE Kill
    BY <2>3 DEF Kill, Aim, TypeOK
  <2> QED
    BY <1>4, <2>1, <2>2, <2>3 DEF Heartbeat
<1>5. CASE Stale \/ UNCHANGED vars
  BY <1>5 DEF Stale, Aim
<1>6. ASSUME NEW d \in Callers, Dispatch(d) PROVE Aim'
  <2>1. UNCHANGED <<proc, child, watchdog, beatVars>>
    BY <1>6 DEF Dispatch, DispatchBegins, GotClient, DispatchTimesOut, SendRequest,
                InferenceHangs, WorkerAnswers, ReadAnswer, Cancel, CallEnds, CallMoves
  <2> QED
    BY <2>1 DEF Aim
<1> QED
  BY <1>1, <1>2, <1>3, <1>4, <1>5, <1>6 DEF Next

\* The invariant holds in every reachable state.
LEMMA Invariance == Spec => []IInv
<1>1. IInv /\ [Next]_vars => IInv'
  BY NextType, NextStage, NextBudget, NextAim DEF IInv
<1> QED
  BY <1>1, InitIInv, PTL DEF Spec

\* The supervisor's state has its type; in particular the delay between two
\* respawns never exceeds MAX_BACKOFF and the fail counter the fail budget.
THEOREM TypeCorrect == Spec => []TypeOK
<1>1. IInv => TypeOK
  BY DEF IInv
<1> QED
  BY <1>1, Invariance, PTL

\* The pid and the client the watchdog publishes are those of the child it
\* waits for, whatever the heartbeat, the dispatchers and the worker do.
THEOREM PublishesCurrent == Spec => []PublishedIsCurrent
<1>1. IInv => PublishedIsCurrent
  BY SupervisorAssumption DEF IInv, TypeOK, Stage, PublishedIsCurrent
<1> QED
  BY <1>1, Invariance, PTL

\* What the heartbeat kills is a published worker that has loaded its model, however
\* the watchdog respawns workers between the probe, the look at the pid and the kill.
THEOREM KillsPublished == Spec => KillsOnlyPublished
<1>1. ASSUME IInv, Kill, proc' # proc PROVE proc \in Bound /\ current_pid = child
  <2>1. target = child /\ proc \in Running
    BY <1>1 DEF Kill
  <2>2. proc \notin {"loading", "gone"} /\ watchdog \in {"publish", "wait"}
    BY <1>1, <2>1 DEF IInv, Aim
  <2> QED
    BY <1>1, <2>1, <2>2 DEF IInv, Stage
<1>2. IInv /\ [Next]_vars => [Kill /\ proc' # proc => proc \in Bound /\ current_pid = child]_vars
  BY <1>1
<1> QED
  BY <1>2, Invariance, PTL DEF Spec, KillsOnlyPublished
==============================================================================
