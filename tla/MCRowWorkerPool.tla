--------------------------- MODULE MCRowWorkerPool ---------------------------
(* Symmetry of dispatchers, pools and pooled objects, for the safety run.   *)
EXTENDS RowWorkerPool, TLC

Symmetry == Permutations(Dispatchers) \cup Permutations(Pools) \cup Permutations(Objects)

=============================================================================
