------------------------------- MODULE MCRerank -------------------------------
(***************************************************************************)
(* Rerank with pairs of texts that are equal once put together, texts that     *)
(* contain the separator, scores that tie, and one that is beyond the clamp.   *)
(***************************************************************************)
EXTENDS Rerank

CONSTANTS a, b, m, n

\* Longer documents score higher; 3 is beyond a clamp of 2.
MCLogit(model, query, doc) == IF doc = <<b>> THEN 1 ELSE Len(doc)

Body(model, query, documents, top_n, normalize) ==
    [model |-> model, query |-> query, documents |-> documents, top_n |-> top_n,
     normalize |-> normalize]

\* <<a>> with <<a, b>> and <<a, a>> with <<b>> are the same characters, and so are
\* <<a, NUL, b>> with <<a>> and <<a>> with <<b, NUL, a>>, even with a NUL between them.
MCBodies == {Body(None, <<a>>,         <<<<a>>, <<b>>, <<a, b>>>>,            2,    "none"),
             Body(m,    <<a, a>>,      <<<<b>>, <<b, a, b>>, <<a, b>>>>,      None, "sigmoid"),
             Body(m,    <<a>>,         <<<<a, b>>, <<a, b>>, <<b, NUL, a>>>>, 5,    "sigmoid"),
             Body(m,    <<a, NUL, b>>, <<<<a>>>>,                             None, "none"),
             Body(n,    <<>>,          <<<<a>>>>,                             0,    "none"),
             Body(m,    <<a>>,         <<<<a>>, <<a>>, <<a>>, <<b>>>>,        None, "none")}

==============================================================================
