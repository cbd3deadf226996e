------------------------------ MODULE MCLease ------------------------------
(* Two runners compete for one target.                                     *)
EXTENDS Lease, FiniteSets

\* Enough revisions for one to be fresh at every write: a runner remembers a
\* second one only between the write of the record and its answer.
ASSUME Cardinality(Rev) >= 2 * Cardinality(Runner)
=============================================================================
