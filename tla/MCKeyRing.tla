----------------------------- MODULE MCKeyRing -----------------------------
(* Two replicas and one rotation.                                          *)
EXTENDS KeyRing, TLC

ASSUME InTime == Timings

Symmetry == Permutations(Replica)

\* What a step or a property can still read.  Once every file shows the newest
\* key nobody asks when it was issued; the key of a step is chosen anew by the
\* step that leads to it; and a dead replica has no time and no guess.
Readable ==
    <<now, secret, IF \A r \in Replica : file[r] = secret THEN 0 ELSE issued, file, valid,
      mishaps, storeVars, ringVars, step, left, fresh,
      [r \in Replica |->
          CASE step[r] = "down" -> <<>>
            [] step[r] \in {"first", "claim", "read", "add", "refreshAdd", "remove"} ->
                  <<at[r], key[r], guess[r]>>
            [] OTHER -> <<at[r], guess[r]>>]>>
=============================================================================
