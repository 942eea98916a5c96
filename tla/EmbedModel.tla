----------------------------- MODULE EmbedModel -----------------------------
(***************************************************************************)
(* Inference of the dense embedding model (src/src/model.rs, pool.rs): the   *)
(* texts of a request are tokenized, split into groups of similar length,    *)
(* each group is one forward pass on a session of the EvictablePool, and the *)
(* rows are put back in the order of the texts.                              *)
(*                                                                         *)
(* A pass acquires its own session: between two passes of a request other    *)
(* requests and the eviction loop use the pool.  A text is its number of     *)
(* tokens; a vector is named by the text and by how many of its tokens were  *)
(* averaged, for the mask keeps padding out of the mean.                     *)
(***************************************************************************)
EXTENDS EvictablePool, SequencesExt, Sorting

CONSTANTS Batches,   \* the requests: token counts of their texts, in order
          MaxLen,    \* max_len of the model
          RatioNum,  \* subbatch_ratio as a fraction
          RatioDen

ASSUME EmbedModelAssumption == /\ Batches \subseteq Seq(Nat)
                               /\ MaxLen \in Nat
                               /\ RatioNum \in Nat
                               /\ RatioDen \in Nat \ {0}

------------------------------------------------------------------------------
(* The plan.                                                                *)

\* Sequences are cut at the model's limit.
Capped(n) == IF n < MaxLen THEN n ELSE MaxLen

\* An empty sequence counts as one token.
Length(lens, i) == IF lens[i] = 0 THEN 1 ELSE lens[i]

InBand(widest, n) == widest * RatioDen <= RatioNum * n

\* The texts come longest first, ties by position.  The group in the making, whose
\* first text is its widest, takes a text while the ratio allows; otherwise the text
\* opens the next group.
Place(lens, groups, i) ==
    IF groups # <<>> /\ InBand(Length(lens, Head(Last(groups))), Length(lens, i))
    THEN [groups EXCEPT ![Len(groups)] = Append(@, i)]
    ELSE Append(groups, <<i>>)

plan_subbatches(lens) ==
    IF RatioNum <= RatioDen
    THEN <<[i \in DOMAIN lens |-> i]>>
    ELSE LET groups[k \in 0..Len(lens)] ==
                 IF k = 0 THEN <<>> ELSE Place(lens, groups[k - 1], Descending(lens)[k])
         IN  groups[Len(lens)]

next_power_of_two(n) ==
    LET power[k \in 0..n] == IF k = 0 THEN 1
                             ELSE IF power[k - 1] < n THEN 2 * power[k - 1] ELSE power[k - 1]
    IN  power[n]

\* The next power of two, but no more than the model takes.
round_up_seq_len(n) == IF n <= 1 THEN 1 ELSE Capped(next_power_of_two(n))

------------------------------------------------------------------------------

VARIABLES
    lens,     \* the capped token counts of the request each thread works for
    plan,     \* the groups that have not been run
    passes,   \* how many groups the plan had
    out,      \* the rows put in place so far
    outcome   \* none, running, ok or error

requestVars == <<lens, plan, passes, out, outcome>>
embedVars == <<vars, requestVars>>

EmbedInit == /\ Init
             /\ lens    = [t \in Threads |-> <<>>]
             /\ plan    = [t \in Threads |-> <<>>]
             /\ passes  = [t \in Threads |-> 0]
             /\ out     = [t \in Threads |-> <<>>]
             /\ outcome = [t \in Threads |-> "none"]

\* `Vec::new()`, the row nothing has been put in.
NoRow == [text |-> 0, tokens |-> 0]

\* Fault: the plan is made from the lengths before they are capped.
Tokenize_Uncapped(t, batch) ==
    /\ outcome[t] # "running"
    /\ LET ls     == [i \in DOMAIN batch |-> Capped(batch[i])]
           groups == IF batch = <<>> THEN <<>> ELSE plan_subbatches(batch)
       IN /\ lens'   = [lens EXCEPT ![t] = ls]
          /\ plan'   = [plan EXCEPT ![t] = groups]
          /\ passes' = [passes EXCEPT ![t] = Len(groups)]
    /\ out'     = [out EXCEPT ![t] = [i \in DOMAIN batch |-> NoRow]]
    /\ outcome' = [outcome EXCEPT ![t] = IF batch = <<>> THEN "ok" ELSE "running"]
    /\ UNCHANGED vars

\* tokenize, and the head of embed_tokens: an empty request is answered at once.
Tokenize(t, batch) ==
    /\ outcome[t] # "running"
    /\ LET ls     == [i \in DOMAIN batch |-> Capped(batch[i])]
           groups == IF batch = <<>> THEN <<>> ELSE plan_subbatches(ls)
       IN /\ lens'   = [lens EXCEPT ![t] = ls]
          /\ plan'   = [plan EXCEPT ![t] = groups]
          /\ passes' = [passes EXCEPT ![t] = Len(groups)]
    /\ out'     = [out EXCEPT ![t] = [i \in DOMAIN batch |-> NoRow]]
    /\ outcome' = [outcome EXCEPT ![t] = IF batch = <<>> THEN "ok" ELSE "running"]
    /\ UNCHANGED vars

TokenizeFails(t) == /\ outcome[t] # "running"
                    /\ outcome' = [outcome EXCEPT ![t] = "error"]
                    /\ UNCHANGED <<vars, lens, plan, passes, out>>

\* A pass begins with an acquire of its own.
BeginPass(t) == /\ outcome[t] = "running"
                /\ BeginAcquire(t)
                /\ UNCHANGED requestVars

\* A step of acquire; AllBusy and ReinitFailed are the answer to the request.
Acquiring(t) ==
    /\ outcome[t] = "running"
    /\ FastCheck(t) \/ Peek(t) \/ Claim(t) \/ ReinitDone(t) \/ ReinitFails(t)
    /\ outcome' = [outcome EXCEPT
                     ![t] = IF pc'[t] \in {"all_busy", "reinit_failed"} THEN "error" ELSE @]
    /\ UNCHANGED <<lens, plan, passes, out>>

\* The rows of a pass: the tensor is as wide as the longest sequence, rounded
\* up, and the mask covers what fits of each.
Row(t, group, i) ==
    LET width == round_up_seq_len(Max({lens[t][j] : j \in ToSet(group)}))
    IN [text |-> i, tokens |-> IF lens[t][i] < width THEN lens[t][i] ELSE width]

\* Fault: the rows of the only pass are taken to be in the plan's order.
Scatter_OnePass(t, group) ==
    [i \in DOMAIN out[t] |->
        IF i \notin ToSet(group) THEN out[t][i]
        ELSE Row(t, group, IF passes[t] = 1 THEN group[i] ELSE i)]

\* A plan of one group is one pass over the texts as they came; otherwise row k
\* of the pass belongs to the k-th text of the group.
Scatter(t, group) ==
    [i \in DOMAIN out[t] |->
        IF i \in ToSet(group) THEN Row(t, group, i) ELSE out[t][i]]

\* The session is returned when the pass ends.
EndPass(t) ==
    /\ outcome[t] = "running"
    /\ Release(t)
    /\ out'     = [out EXCEPT ![t] = Scatter(t, Head(plan[t]))]
    /\ plan'    = [plan EXCEPT ![t] = Tail(@)]
    /\ outcome' = [outcome EXCEPT ![t] = IF Tail(plan[t]) = <<>> THEN "ok" ELSE @]
    /\ UNCHANGED <<lens, passes>>

\* The runtime fails, or its output has the wrong shape: the `?` gives up the
\* request and what other passes computed.
PassFails(t) ==
    /\ outcome[t] = "running"
    /\ Release(t)
    /\ outcome' = [outcome EXCEPT ![t] = "error"]
    /\ UNCHANGED <<lens, plan, passes, out>>

Background == /\ EvictBegins \/ EvictCheck \/ EvictAge \/ EvictLocked \/ Tick
              /\ UNCHANGED requestVars

EmbedNext == alive /\ (\/ \E t \in Threads : \/ \E batch \in Batches : Tokenize(t, batch)
                                             \/ TokenizeFails(t)
                                             \/ BeginPass(t)
                                             \/ Acquiring(t)
                                             \/ EndPass(t)
                                             \/ PassFails(t)
                       \/ Background)

EmbedSpec == EmbedInit /\ [][EmbedNext]_embedVars

------------------------------------------------------------------------------
(* Properties.                                                              *)

\* embed_tokens returns results "in the caller's original order": the row of a
\* text is its own, and averages all the tokens the model can take, whichever
\* texts it shared a pass with and however the passes interleaved with others.
OwnRows == \A t \in Threads :
    outcome[t] = "ok" =>
        \A i \in DOMAIN out[t] : out[t][i] = [text |-> i, tokens |-> lens[t][i]]

\* Texts no two of which may share a pass.
Apart(ls, S) == \A i, j \in S :
    i # j /\ ls[i] >= ls[j] => ~InBand(Length(ls, i), Length(ls, j))

\* The size of the largest set of texts that must all be kept apart: no plan
\* within the ratio has fewer groups.
Spread(ls) == Max({Cardinality(S) : S \in {T \in SUBSET DOMAIN ls : Apart(ls, T)}})

\* The greedy plan keeps every group within the ratio and needs no more passes
\* than any other plan would.
FewestPasses == \A t \in Threads :
    RatioNum > RatioDen /\ outcome[t] = "running" => passes[t] = Spread(lens[t])

==============================================================================
