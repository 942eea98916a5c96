---------------------------- MODULE PoolService ----------------------------
(***************************************************************************)
(* What the pools of sessions promise their callers: a caller has a job, some *)
(* session that suits the job and serves nobody else takes it, and it is     *)
(* released when the job is done.  Which pool and session, and in which order *)
(* callers are taken, is left open.                                           *)
(***************************************************************************)
CONSTANTS Callers, Jobs, Sessions, Suits(_, _), NoCaller, NoJob

VARIABLES state,   \* "idle", "waiting" or "running", for each caller
          asked,   \* the job the caller has come with
          holder   \* the caller each session serves

vars == <<state, asked, holder>>

Init == /\ state  = [c \in Callers |-> "idle"]
        /\ asked  = [c \in Callers |-> NoJob]
        /\ holder = [s \in Sessions |-> NoCaller]

Ask(c, j) == /\ state[c] = "idle"
             /\ state' = [state EXCEPT ![c] = "waiting"]
             /\ asked' = [asked EXCEPT ![c] = j]
             /\ UNCHANGED holder

Serve(c, s) == /\ state[c] = "waiting"
               /\ Suits(asked[c], s)
               /\ holder[s] = NoCaller
               /\ state'  = [state EXCEPT ![c] = "running"]
               /\ holder' = [holder EXCEPT ![s] = c]
               /\ UNCHANGED asked

Release(c, s) == /\ state[c] = "running"
                 /\ holder[s] = c
                 /\ state'  = [state EXCEPT ![c] = "idle"]
                 /\ asked'  = [asked EXCEPT ![c] = NoJob]
                 /\ holder' = [holder EXCEPT ![s] = NoCaller]

Next == \E c \in Callers : \/ \E j \in Jobs : Ask(c, j)
                           \/ \E s \in Sessions : Serve(c, s) \/ Release(c, s)

Spec == Init /\ [][Next]_vars
==============================================================================
