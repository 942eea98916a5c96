----------------------------- MODULE FifoService -----------------------------
(***************************************************************************)
(* What a DynamicBatcher promises its callers, without queue, carry slot or *)
(* batches.  A request is admitted with a ticket (its place in the order of *)
(* arrival) and is then served or abandoned by its own caller.  Service     *)
(* goes to a whole group of callers at once, and a group is never served    *)
(* past an older request that still has a caller waiting.                   *)
(***************************************************************************)
EXTENDS Naturals

CONSTANT Requests

VARIABLES call,     \* what the caller of embed_tokens sees of its request
          ticket,   \* order of admission, 0 before admission
          tickets   \* tickets handed out so far

vars == <<call, ticket, tickets>>

Waiting == {r \in Requests : call[r] = "waiting"}

\* No request is older than the group and still waits outside it.
IsOldest(S) == \A s \in S, w \in Waiting \ S : ticket[s] < ticket[w]

Init == /\ call    = [r \in Requests |-> "new"]
        /\ ticket  = [r \in Requests |-> 0]
        /\ tickets = 0

\* The caller has been let past the backpressure gate.
Gate(r) == /\ call[r] = "new"
           /\ call' = [call EXCEPT ![r] = "gated"]
           /\ UNCHANGED <<ticket, tickets>>

\* A request with no texts needs no service.
Trivial(r) == /\ call[r] = "new"
              /\ call' = [call EXCEPT ![r] = "ok"]
              /\ UNCHANGED <<ticket, tickets>>

Reject(r) == /\ call[r] \in {"new", "gated"}
             /\ call' = [call EXCEPT ![r] = "queue_full"]
             /\ UNCHANGED <<ticket, tickets>>

Admit(r) == /\ call[r] = "gated"
            /\ call'    = [call EXCEPT ![r] = "waiting"]
            /\ ticket'  = [ticket EXCEPT ![r] = tickets + 1]
            /\ tickets' = tickets + 1

Abandon(r) == /\ call[r] = "waiting"
              /\ call' = [call EXCEPT ![r] = "dropped"]
              /\ UNCHANGED <<ticket, tickets>>

\* One inference answers the group, all of it well or all of it with an error.
Serve(S, outcome) ==
    /\ S # {}
    /\ S \subseteq Waiting
    /\ IsOldest(S)
    /\ call' = [r \in Requests |-> IF r \in S THEN outcome ELSE call[r]]
    /\ UNCHANGED <<ticket, tickets>>

Next == \/ \E r \in Requests : \/ Gate(r)
                               \/ Trivial(r)
                               \/ Reject(r)
                               \/ Admit(r)
                               \/ Abandon(r)
        \/ \E S \in SUBSET Requests, outcome \in {"ok", "inference"} :
               Serve(S, outcome)

Spec == Init /\ [][Next]_vars

==============================================================================
