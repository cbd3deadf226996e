------------------------------ MODULE Runners ------------------------------
(***************************************************************************)
(* The replicas of a controller: each may run a pass on a target, under    *)
(* the target's lease (Lease), and each has a loop that starts passes      *)
(* (PassLoop).                                                             *)
(***************************************************************************)
CONSTANTS
    Runner,     \* the replicas
    NoOne       \* none of them: no holder of a lease, or of a mutex
=============================================================================
