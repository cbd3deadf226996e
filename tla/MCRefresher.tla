---------------------------- MODULE MCRefresher ----------------------------
(* The hub's schedule, with replicas that are alike. *)
EXTENDS Refresher, TLC

Symmetry == Permutations(Replicas)
=============================================================================
