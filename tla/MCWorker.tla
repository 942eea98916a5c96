------------------------------- MODULE MCWorker -------------------------------
(***************************************************************************)
(* A worker with one session and a limit of one waiter.  A request and a probe  *)
(* share the worker's client; another probe holds the client of an earlier      *)
(* worker.                                                                   *)
(***************************************************************************)
EXTENDS Ready

CONSTANTS c1, p1, p2, old, new

MCClientOf == [c \in {c1, p1, p2} |-> IF c = p2 THEN old ELSE new]

==============================================================================
