--------------------------- MODULE MCEvictablePool ---------------------------
(* Small instances of EvictablePool; threads are interchangeable.           *)
EXTENDS EvictablePool, TLC

Symmetry == Permutations(Threads)
==============================================================================
