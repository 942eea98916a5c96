------------------------------- MODULE Sorting -------------------------------
(***************************************************************************)
(* The stable sorts of the server (`sort_by`, the larger value first): an    *)
(* entry ends up behind all the entries that come before it.                 *)
(***************************************************************************)
EXTENDS Integers, FiniteSets

\* Larger values first, equal ones as they came.
Before(f, i, j) == f[i] > f[j] \/ (f[i] = f[j] /\ i < j)

Rank(f, i) == Cardinality({j \in DOMAIN f : Before(f, j, i)}) + 1

\* The places of the entries of f, in the order of the sort.
Descending(f) == [k \in DOMAIN f |-> CHOOSE i \in DOMAIN f : Rank(f, i) = k]
==============================================================================
