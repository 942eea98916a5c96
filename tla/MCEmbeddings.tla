----------------------------- MODULE MCEmbeddings -----------------------------
(***************************************************************************)
(* Embeddings with two texts, two configured models and one unknown name.    *)
(***************************************************************************)
EXTENDS Embeddings

CONSTANTS a, b, m, n, unknown

Body(model, type, texts) == [model |-> model, input_type |-> type, texts |-> texts]

\* A repeated text, the two input types, another model, and each of the three rejections.
MCBodies == {Body(m, "document", <<a, b, a>>),
             Body(m, "document", <<a>>),
             Body(m, "query",    <<a, b>>),
             Body(n, "document", <<a>>),
             Body(m, "document", <<>>),
             Body(m, "document", <<a, a, b, b>>),
             Body(unknown, "document", <<a>>)}

==============================================================================
