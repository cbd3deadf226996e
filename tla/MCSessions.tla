----------------------------- MODULE MCSessions -----------------------------
(* A few requests, at any replica, over one shared store.                  *)
EXTENDS Sessions, FiniteSets, TLC

Symmetry == Permutations(Refreshing)

Started(Q) == {q \in Q : req[q].stage # "none"}

\* Bound: two refreshes, or a refresh and one walk or revocation, meet at a time,
\* and the policy is at its widest when they do.
FewAtOnce ==
    LET ends == Started(Walking \cup Revoking \cup Ending)
        two == Cardinality(Started(Refreshing)) > 1 IN
    /\ ends = {} \/ (Cardinality(ends) = 1 /\ ~two)
    /\ (two \/ ends # {}) => \A l \in Limits : l <= limit
=============================================================================
