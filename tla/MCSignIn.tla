------------------------------ MODULE MCSignIn ------------------------------
(* SignIn on small sets of requests.                                       *)
EXTENDS SignIn, TLC

\* Redemptions differ only in name.
Symmetry == Permutations(Redeemers)

=============================================================================
