------------------------------ MODULE MCBatcher ------------------------------
(* Small instances of Batcher.                                              *)
EXTENDS Batcher

CONSTANTS r0, r1, r2, r3, r4

ShapeOf(n, longest, total) ==
    [n_texts |-> n, max_seq_len |-> longest, total_tokens |-> total]

\* r0 is empty; r3 alone exceeds a budget of 9; r1 and r4 fit together; r1 and
\* r2 meet a padded budget of 9 exactly and pass a plain one, but not a sequence
\* cap of 2; r2 and r4 exceed 3 texts.
AllShapes == (r0 :> ShapeOf(0, 0, 0)) @@ (r1 :> ShapeOf(1, 2, 2))
             @@ (r2 :> ShapeOf(2, 3, 5)) @@ (r3 :> ShapeOf(1, 9, 9))
             @@ (r4 :> ShapeOf(2, 2, 4))

MCShape == [r \in Requests |-> AllShapes[r]]
==============================================================================
