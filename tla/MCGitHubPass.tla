---------------------------- MODULE MCGitHubPass ----------------------------
(* GitHubPass on small sets of accounts and addresses.                     *)
EXTENDS GitHubPass, TLC

Symmetry == Permutations(Login) \cup Permutations(Email)
=============================================================================
