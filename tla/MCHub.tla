------------------------------- MODULE MCHub -------------------------------
(***************************************************************************)
(* Two tenants, of which the first holds both domains at the start.        *)
(***************************************************************************)
EXTENDS Hub, TLC
CONSTANTS t1, t2, d1, d2, e1, e2, g1, g2

MCTenantOrder == (t1 :> 1) @@ (t2 :> 2)
MCHome == (e1 :> d1) @@ (e2 :> d2) @@ (g1 :> d1) @@ (g2 :> d1)
MCOwner == (d1 :> t1) @@ (d2 :> t1)
MCMembers == (g1 :> {e1, e2}) @@ (g2 :> {e1, e2})
MCStandings == {(e1 :> "live") @@ (e2 :> "live") @@ (g2 :> "none")}
MCSyncs == {{g1}}
MCServeChoices == {{d1}}
MCSyncChoices == {{g2}}
MCCold == {{}}

Started(Q) == {x \in Q : pc[x] # "idle"}

\* Bound: two requests or full reads at a time, those of the first
\* tenant's only going on, and requests take no time.  What an operator does meets no
\* change of the directories, and is done with at once; a probe or a
\* full read, soon.  An address that was a group's is asked about on its own.
FewAtOnce ==
  /\ Cardinality({x \in Tasks : Active(x)})
       + Cardinality({r \in Replicas : flight[r][t1].pc # "idle"}) <= 2
  /\ \A r \in Replicas : flight[r][t2].pc \in {"idle", "open"}
  /\ \A x \in Tasks : Active(x) => now = mem[x].asked
  /\ Started(Operating) # {} => events = 0 /\ now = 0
  /\ (\E r \in Replicas : start[r] # Up) => now = 0
  /\ standing[g2] # "suspended" /\ \A g \in Groups : g2 \notin members[g]
  /\ (\E x \in Asking : job[x].kind = "point" /\ job[x].arg = g2)
       => Cardinality(Started(Tasks)) = 1
  /\ Started(Probing) # {} \/ (\E r \in Replicas : flight[r][t1].pc # "idle") => now <= 1

Symmetry == Permutations(Asking) \cup Permutations(Operating) \cup Permutations(Replicas)
=============================================================================
