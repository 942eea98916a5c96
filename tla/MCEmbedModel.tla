---------------------------- MODULE MCEmbedModel ----------------------------
(* A small instance of EmbedModel; threads are interchangeable.             *)
EXTENDS EmbedModel

\* Nothing; one group whose plan reverses the texts; two groups, the second
\* of two texts in the other order; an empty text beside two that fit together
\* once the longer one is cut.
MCBatches == {<<>>, <<1, 2>>, <<1, 5, 2>>, <<0, 3, 7>>}

\* The plan against its reference for every request of up to four texts.
ASSUME PlanCorrect ==
    \A ls \in BoundedSeq(0..MaxLen, 4) \ {<<>>} :
        LET groups == plan_subbatches(ls)
        IN /\ Len(FlattenSeq(groups)) = Len(ls)
           /\ ToSet(FlattenSeq(groups)) = DOMAIN ls
           /\ \A g \in DOMAIN groups : \A i, j \in ToSet(groups[g]) :
                  InBand(Length(ls, i), Length(ls, j))
           /\ Len(groups) = Spread(ls)

Symmetry == Permutations(Threads)
==============================================================================
