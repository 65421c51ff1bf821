-------------------------- MODULE MCRunnerLifecycle --------------------------
(* Small instances: a call of each kind, and a second generation that has to   *)
(* wait for the first. No symmetry, as liveness is checked as well.            *)
EXTENDS RunnerLifecycle

=============================================================================
