----------------------------- MODULE MCExecutor -----------------------------
(* The executor on small instances. *)
EXTENDS Executor, TLC

Symmetric == Permutations(Workers)

=============================================================================
