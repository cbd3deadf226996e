----------------------------- MODULE MCMigrate -----------------------------
(* Instance of Migrate for TLC. *)
EXTENDS Migrate, TLC

CONSTANTS SourceLeft, OwnLeft  \* bounds on the lifetimes that either side begins with

ASSUME SourceLeft \subseteq 0 .. MaxLeft /\ OwnLeft \subseteq 1 .. MaxLeft

MCSymmetry == Permutations(Values) \cup Permutations(Members)

Holding(k, a, l, b) == [h \in Keys |-> IF h = k THEN a ELSE IF h = l THEN b ELSE Gone]

\* The two sides hold something of any two keys, or of one.
MCInit ==
  /\ \E v \in Values, k, l \in Keys :
       /\ \E a \in Held(k, {v}, SourceLeft), b \in Held(l, {v}, SourceLeft) :
            src = Holding(k, a, l, b)
       /\ \E a \in Held(k, Values, Own(k, OwnLeft)), b \in Held(l, Values, Own(l, OwnLeft)) :
            dst = Holding(k, a, l, b)
       /\ claims \in [{"src", "dst"} -> SUBSET ({k, l} \cap Links)]
  /\ Unstarted

MCSpec == MCInit /\ [][Next]_vars
=============================================================================
