--------------------------- MODULE MCGitHubLinks ---------------------------
(* GitHubLinks on small sets of accounts, addresses and processes.         *)
EXTENDS GitHubLinks, TLC

Symmetry == Permutations(Account) \cup Permutations(App) \cup Permutations(Proc)
=============================================================================
