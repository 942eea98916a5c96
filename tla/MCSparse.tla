------------------------------ MODULE MCSparse ------------------------------
(* Two handlers and a thread that scores pairs; two sessions for the sparse    *)
(* model, one for each pool of the two rerankers.                              *)
EXTENDS Sparse

CONSTANTS h1, h2, k1, s1, r1, r2, t1, t2

\* A single pair goes to the dynamic graph of r1, two go to its static one.
MCPools == {[kind |-> "splade", name |-> s1, batch |-> 0],
            [kind |-> "rerank", name |-> r1, batch |-> 0], [kind |-> "rerank", name |-> r1, batch |-> 2],
            [kind |-> "rerank", name |-> r2, batch |-> 0]}
MCPoolSize(q) == IF q.name = s1 THEN 2 ELSE 1

\* t1 has two tokens, t2 one; the terms of t2 are lighter and weigh the same.
MCPositions(text) == IF text = t1 THEN 2 ELSE 1
MCLogit(text, j, v) == IF text = t2 THEN 1 ELSE IF v = 1 /\ j = 1 THEN -1 ELSE 4 - v
MCLog1p(x) == 10 * x - 1

Body(input, model, top_k, min_weight) ==
    [input |-> input, model |-> model, top_k |-> top_k, min_weight |-> min_weight]
MCBodies == {Body(<<t1, t2>>, s1, Absent, 8), Body(<<t1>>, Absent, 5, -1),
             Body(<<t2, BlankText>>, s1, 0, 0), Body(<<t2>>, s1, 0, 0)}
MCJobs == {SpladeJob(r) : r \in MCBodies} \cup {RerankJob(r, n) : r \in {r1, r2}, n \in 1..2}
==============================================================================
