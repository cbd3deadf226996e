-------------------------- MODULE MCStateAdapters --------------------------
(* StateAdapters for TLC.                                                  *)
EXTENDS StateAdapters, TLC

\* Callers are only compared for equality.
Symmetry == Permutations(Client)

=============================================================================
