--------------------------- MODULE MCModelHotSwap ---------------------------
(* Symmetry of the routes and of the runner objects that are alike.           *)
EXTENDS ModelHotSwap, TLC

Symmetry == Permutations(Loaders) \cup Permutations(Closers) \cup Permutations(Runners)

=============================================================================
