--------------------------- MODULE MigrateProofs ---------------------------
(***************************************************************************)
(* What Migrate promises, for any keys, values, lifetimes and slack.       *)
(***************************************************************************)
EXTENDS Migrate, TLAPS

-----------------------------------------------------------------------------
(* The model's operators. *)

\* The three steps of a run (run.steps) cover every key, and no other.
LEMMA StepsFacts ==
  /\ Len(Steps) = 3
  /\ \A i \in 1 .. 3 : Steps[i] \subseteq Keys
  /\ \A k \in Keys : k \in Steps[1] \/ k \in Steps[2] \/ k \in Steps[3]
<1>1. /\ Steps[1] = Workspaces \cup Records /\ Steps[2] = Tokens /\ Steps[3] = Sets
      /\ Len(Steps) = 3
  BY DEF Steps
<1> QED  BY <1>1 DEF Keys

\* What runs out is an item again (a store's expiry), of what it was or gone.
LEMMA OlderFacts ==
  ASSUME NEW x \in Item
  PROVE  /\ Older(x) \in Item
         /\ x.left = 0 => Older(x) = x
         /\ x.left = 1 => Older(x) = Gone
         /\ x.left > 1 => Older(x).cells = x.cells /\ Older(x).left = x.left - 1
         /\ Older(x).cells # {} => Older(x).cells = x.cells
         /\ Gone \in Item /\ Gone.cells = {} /\ Gone.left = 0
<1>1. Gone \in Item /\ Gone.cells = {} /\ Gone.left = 0
  BY MigrateAssumption DEF Gone, Item
<1>2. x.left \in 0 .. MaxLeft /\ MaxLeft \in Nat
  BY MigrateAssumption DEF Item
<1>3. CASE x.left = 0
  BY <1>1, <1>3 DEF Older
<1>4. CASE x.left = 1
  BY <1>1, <1>4 DEF Older
<1>5. CASE x.left > 1
  <2>1. Older(x) = [x EXCEPT !.left = @ - 1]
    BY <1>2, <1>5 DEF Older
  <2>2. Older(x) \in Item /\ Older(x).cells = x.cells /\ Older(x).left = x.left - 1
    BY <1>2, <1>5, <2>1 DEF Item
  <2> QED  BY <1>1, <1>2, <1>5, <2>2
<1> QED  BY <1>2, <1>3, <1>4, <1>5

\* What one call leaves of an item (Workspaces.Put, Index.Add and Remove) is an
\* item, empty only if nothing is left, and runs out where the issuer's do.
LEMMA CalledFacts ==
  ASSUME TypeOK, calls # NoPlan, NEW c \in NextCalls, plan[calls.key] # NoPlan
  PROVE  /\ calls.key \in Keys /\ c \in Cell
         /\ Called(c) \in Item
         /\ Called(c).cells = {} => Called(c) = Gone
         /\ calls.key \in Lifetimes => Called(c) = Gone \/ Called(c).left > 0
<1>1. /\ calls.key \in Keys /\ calls.remove \subseteq Cell /\ calls.put \subseteq Cell
      /\ c \in Cell
  BY DEF TypeOK, NextCalls, CallsLeft
<1>2. dst[calls.key] \in Item /\ plan[calls.key] \in PlannedItem
  BY <1>1 DEF TypeOK
<1>3. plan[calls.key].e.left \in 0 .. MaxLeft /\ MaxLeft \in Nat \ {0}
  BY <1>2, MigrateAssumption DEF PlannedItem, Item
<1> DEFINE kept == {d \in dst[calls.key].cells : d[1] # c[1]}
<1>4. kept \subseteq Cell /\ dst[calls.key].cells \subseteq Cell
  BY <1>2 DEF Item
<1>5. Gone \in Item
  BY <1>2, OlderFacts
<1>6. CASE c \in calls.remove /\ kept = {}
  BY <1>1, <1>5, <1>6 DEF Called
<1>7. CASE c \in calls.remove /\ kept # {}
  <2>1. Called(c) = [dst[calls.key] EXCEPT !.cells = kept]
    BY <1>7 DEF Called
  <2>2. Called(c) \in Item /\ Called(c).cells # {} /\ Called(c).left = dst[calls.key].left
    BY <1>2, <1>4, <1>7, <2>1 DEF Item
  <2>3. dst[calls.key] # Gone
    BY <1>7 DEF Gone
  <2> QED  BY <1>1, <2>2, <2>3 DEF TypeOK
<1>8. CASE c \notin calls.remove
  <2> DEFINE left == CASE calls.key \in Lifetimes -> TtlOrDay(plan[calls.key].e.left)
                       [] calls.key \in Gates -> GateLife
                       [] OTHER -> 0
  <2>1. Called(c) = [cells |-> kept \cup {c}, left |-> left]
    BY <1>8 DEF Called
  <2>2. left \in 0 .. MaxLeft /\ (calls.key \in Lifetimes => left > 0)
    <3>1. CASE calls.key \in Lifetimes
      <4>1. calls.key \notin Gates
        BY <3>1, MigrateAssumption DEF Lifetimes
      <4> QED  BY <1>3, <3>1, <4>1 DEF TtlOrDay
    <3>2. CASE calls.key \notin Lifetimes
      BY <1>3, <3>2, MigrateAssumption
    <3> QED  BY <3>1, <3>2
  <2>3. kept \cup {c} \subseteq Cell
    BY <1>1, <1>4
  <2> QED  BY <1>1, <2>1, <2>2, <2>3 DEF Item
<1> QED  BY <1>6, <1>7, <1>8

\* Finishing a claim (narrow) rewrites one link that decodes, and leaves it so.
LEMMA NarrowedFacts ==
  ASSUME NEW side \in [Keys -> Item], NEW k \in Links, NEW v \in Values
  PROVE  /\ k \in Keys /\ Slots(k) = {"value"}
         /\ Narrowed(side, k, v) \in [Keys -> Item]
         /\ \A j \in Keys :
              \/ Narrowed(side, k, v)[j] = side[j]
              \/ /\ j = k /\ side[j].cells # {} /\ Narrowed(side, k, v)[j].left = side[j].left
                 /\ Narrowed(side, k, v)[j].cells = {<<"value", v>>}
<1>1. k \in Records /\ k \in Keys /\ k \notin Workspaces /\ k \notin Sets
  BY MigrateAssumption DEF Keys
<1>2. Slots(k) = {"value"}
  BY <1>1 DEF Slots
<1>3. CASE ~Readable(k, side[k])
  BY <1>1, <1>2, <1>3 DEF Narrowed
<1>4. CASE Readable(k, side[k])
  <2> DEFINE new == [side[k] EXCEPT !.cells = {<<"value", v>>}]
  <2>1. Narrowed(side, k, v) = [side EXCEPT ![k] = new]
    BY <1>4 DEF Narrowed
  <2>2. side[k] \in Item /\ side[k].cells # {}
    BY <1>1, <1>4 DEF Readable, Listed
  <2>3. {<<"value", v>>} \subseteq Cell
    BY DEF Cell
  <2>4. new \in Item /\ new.cells = {<<"value", v>>} /\ new.left = side[k].left
    BY <2>2, <2>3 DEF Item
  <2> HIDE DEF new
  <2> QED  BY <1>1, <1>2, <2>1, <2>2, <2>4
<1> QED  BY <1>3, <1>4

-----------------------------------------------------------------------------
(* Type correctness. *)

\* Calls are made for an item that the plan has down to be written.
Writing ==
  calls # NoPlan =>
    /\ phase = "copy" /\ plan[calls.key] # NoPlan
    /\ plan[calls.key].action \in {"new", "replace"}

\* Between runs nothing of the last one is left, and copying reads nothing.
Resting ==
  /\ phase \in {"idle", "copy"} => seen = NoPlan
  /\ phase = "idle" => at = 1 /\ calls = NoPlan /\ plan = [k \in Keys |-> NoPlan]

\* The claims are finished before the first step is planned, the source's before
\* it is read.
ClaimsDone ==
  /\ phase \in {"copy", "verify"} \/ (phase = "plan" /\ at > 1) =>
       claims["src"] = {} /\ claims["dst"] = {}
  /\ phase = "plan" /\ seen # NoPlan => claims["src"] = {}
  /\ phase = "plan" /\ at = 1 => plan = [k \in Keys |-> NoPlan]

Sound == TypeOK /\ Writing /\ Resting /\ ClaimsDone

\* A claim is finished while the first step is being read (finishClaims).
LEMMA FinishFacts ==
  ASSUME Sound, NEW k \in Links, FinishClaim(k)
  PROVE  /\ phase = "plan" /\ at = 1 /\ plan = [j \in Keys |-> NoPlan] /\ calls = NoPlan
         /\ claims' \in [{"src", "dst"} -> SUBSET Links] /\ claims'["src"] \subseteq claims["src"]
         /\ UNCHANGED runVars /\ UNCHANGED <<lapsed, good, between>>
         /\ \E v \in Values :
              \/ seen = NoPlan /\ src' = Narrowed(src, k, v) /\ UNCHANGED <<dst, held>>
              \/ dst' = Narrowed(dst, k, v) /\ held' = Narrowed(held, k, v) /\ UNCHANGED src
<1>1. /\ phase \in {"plan", "verify"} /\ at = 1 /\ k \in claims[Listing] /\ Listing \in {"src", "dst"}
      /\ claims' = [claims EXCEPT ![Listing] = @ \ {k}]
      /\ UNCHANGED runVars /\ UNCHANGED <<lapsed, good, between>>
  BY DEF FinishClaim, Listing
<1>2. phase = "plan"
  BY <1>1 DEF Sound, ClaimsDone
<1>3. plan = [j \in Keys |-> NoPlan] /\ calls = NoPlan
  BY <1>1, <1>2 DEF Sound, ClaimsDone, Writing
<1>4. claims' \in [{"src", "dst"} -> SUBSET Links] /\ claims'["src"] \subseteq claims["src"]
  BY <1>1 DEF Sound, TypeOK
<1>5. \E v \in Values :
        \/ seen = NoPlan /\ src' = Narrowed(src, k, v) /\ UNCHANGED <<dst, held>>
        \/ dst' = Narrowed(dst, k, v) /\ held' = Narrowed(held, k, v) /\ UNCHANGED src
  <2>1. Listing = "src" => seen = NoPlan
    BY DEF Listing
  <2> QED  BY <2>1 DEF FinishClaim
<1> QED  BY <1>1, <1>2, <1>3, <1>4, <1>5

\* A run begins and ends with its variables in order (Run).
LEMMA EndSound ==
  ASSUME Sound, NEW how \in {"ok", "conflict", "mismatch", "unreadable", "failed"}, End(how)
  PROVE  /\ phase' = "idle" /\ at' \in 1 .. Len(Steps) /\ seen' = NoPlan /\ calls' = NoPlan
         /\ plan' \in [Keys -> {NoPlan} \cup PlannedItem]
         /\ ended' \in {"none", "ok", "conflict", "mismatch", "unreadable", "failed"}
         /\ opt' \in [dry : BOOLEAN, overwrite : BOOLEAN] /\ good' \in BOOLEAN
         /\ Writing' /\ Resting' /\ ClaimsDone'
<1>1. good' \in BOOLEAN
  BY DEF Sound, TypeOK, End
<1>2. /\ phase' = "idle" /\ at' = 1 /\ seen' = NoPlan /\ calls' = NoPlan
      /\ plan' = [k \in Keys |-> NoPlan] /\ ended' = how /\ opt' = opt
  BY DEF End
<1>3. at' \in 1 .. Len(Steps)
  BY <1>2, StepsFacts
<1>4. plan' \in [Keys -> {NoPlan} \cup PlannedItem]
  BY <1>2
<1>5. Writing' /\ Resting' /\ ClaimsDone'
  BY <1>2 DEF Writing, Resting, ClaimsDone
<1> QED  BY <1>1, <1>2, <1>3, <1>4, <1>5 DEF Sound, TypeOK

\* A migration that has not started is sound.
LEMMA InitSound == Init => Sound
<1> SUFFICES ASSUME Init PROVE Sound
  OBVIOUS
<1>1. \A k \in Keys : dst[k] \in Item /\ (dst[k].cells = {} => dst[k] = Gone)
  BY DEF Init, Held, Gone
<1>2. ASSUME NEW k \in Lifetimes PROVE k \in Keys /\ (dst[k] # Gone => dst[k].left > 0)
  <2>1. k \in Keys /\ k \notin Gates
    BY MigrateAssumption DEF Lifetimes, Keys
  <2>2. dst[k] \in Held(k, Values, Own(k, 1 .. MaxLeft)) /\ Own(k, 1 .. MaxLeft) = 1 .. MaxLeft
    BY <2>1 DEF Init, Own
  <2>3. dst[k] # Gone => dst[k].left \in 1 .. MaxLeft
    BY <2>2 DEF Held
  <2> QED  BY <2>1, <2>3, MigrateAssumption
<1>3. {src, dst, held} \subseteq [Keys -> Item]
  BY DEF Init, Unstarted
<1>4. at \in 1 .. Len(Steps) /\ between \in Nat /\ phase = "idle"
  BY StepsFacts DEF Init, Unstarted
<1>5. plan \in [Keys -> {NoPlan} \cup PlannedItem]
  BY DEF Init, Unstarted
<1>6. report \in [conflicts : SUBSET Keys, unreadable : SUBSET Keys, mismatches : SUBSET Keys]
  BY DEF Init, Unstarted, NothingToReport
<1>7. opt \in [dry : BOOLEAN, overwrite : BOOLEAN] /\ good \in BOOLEAN /\ lapsed \subseteq Keys
      /\ ended = "none" /\ seen = NoPlan /\ calls = NoPlan
  BY DEF Init, Unstarted
<1>8. Writing /\ Resting /\ ClaimsDone /\ claims \in [{"src", "dst"} -> SUBSET Links]
  BY DEF Init, Unstarted, Writing, Resting, ClaimsDone
<1> QED  BY <1>1, <1>2, <1>3, <1>4, <1>5, <1>6, <1>7, <1>8 DEF Sound, TypeOK

\* Every step of a migration, and the passing of time, keeps the types and the place in the plan.
LEMMA SoundStep == Sound /\ [Next]_vars => Sound'
<1> SUFFICES ASSUME Sound, [Next]_vars PROVE Sound'
  OBVIOUS
<1> USE DEF Sound
<1>1. CASE UNCHANGED vars
  BY <1>1 DEF vars, TypeOK, Writing, Resting, ClaimsDone
<1>2. ASSUME NEW dry \in BOOLEAN, NEW overwrite \in BOOLEAN, Begin(dry, overwrite) PROVE Sound'
  BY <1>2, StepsFacts DEF Begin, TypeOK, Writing, Resting, ClaimsDone, NothingToReport
<1>3. CASE ReadSource
  <2>1. seen' \in [Steps[at] -> Item]
    BY <1>3, StepsFacts DEF ReadSource, TypeOK
  <2>2. ClaimsDone'
    <3>1. /\ seen = NoPlan /\ UNCHANGED <<phase, at, plan, claims>> /\ at \in 1 .. 3
          /\ at = 1 => claims["src"] = {}
      BY <1>3, StepsFacts DEF ReadSource, TypeOK, ClaimsFinished, Listing
    <3> QED  BY <3>1 DEF ClaimsDone
  <2> QED  BY <1>3, <2>1, <2>2 DEF ReadSource, TypeOK, Writing, Resting
<1>4. CASE PlanStep
  <2>1. Planned \in [Keys -> {NoPlan} \cup PlannedItem]
    <3> SUFFICES ASSUME NEW k \in Keys PROVE Planned[k] \in {NoPlan} \cup PlannedItem
      BY DEF Planned
    <3>1. CASE k \in Steps[at] /\ Readable(k, seen[k])
      <4>1. seen[k] \in Item /\ dst[k] \in Item
        BY <1>4, <3>1 DEF PlanStep, TypeOK
      <4>2. Action(k, seen[k], dst[k]) \in {"new", "present", "replace", "copied"}
        BY DEF Action
      <4>3. (IF Listed(k, dst[k]) THEN dst[k].cells ELSE {}) \in SUBSET Cell
        BY <4>1 DEF Item
      <4> QED  BY <3>1, <4>1, <4>2, <4>3 DEF Planned, PlannedItem
    <3>2. CASE ~(k \in Steps[at] /\ Readable(k, seen[k]))
      BY <3>2 DEF Planned, TypeOK
    <3> QED  BY <3>1, <3>2
  <2> DEFINE r == [report EXCEPT
                 !.conflicts = @ \cup {k \in Steps[at] : Planned[k] # NoPlan /\ Planned[k].action = "replace"},
                 !.unreadable = @ \cup {k \in Steps[at] : Listed(k, seen[k]) /\ Unreadable(seen[k])}]
  <2>2. at \in 1 .. 3 /\ Steps[at] \subseteq Keys /\ calls = NoPlan /\ phase = "plan"
    BY <1>4, StepsFacts DEF PlanStep, TypeOK, Writing
  <2>3. report' = r /\ r \in [conflicts : SUBSET Keys, unreadable : SUBSET Keys, mismatches : SUBSET Keys]
    BY <1>4, <2>2 DEF PlanStep, TypeOK
  <2> DEFINE Onward == /\ plan' = Planned /\ seen' = NoPlan /\ at' \in 1 .. 3 /\ phase' # "idle"
                       /\ phase' \in {"plan", "copy"}
                       /\ UNCHANGED <<claims, calls, opt, ended, good, src, dst, held, lapsed, between>>
                       /\ phase' = "plan" => at' > 1
  <2>7. ASSUME Onward PROVE Sound'
    <3>3. claims["src"] = {} /\ claims["dst"] = {}
      BY <1>4, <2>2 DEF PlanStep, ClaimsFinished, Listing, ClaimsDone
    <3>1. Writing' /\ Resting' /\ ClaimsDone'
      BY <2>2, <2>7, <3>3 DEF Writing, Resting, ClaimsDone
    <3>2. report' \in [conflicts : SUBSET Keys, unreadable : SUBSET Keys, mismatches : SUBSET Keys]
      BY <2>3
    <3> HIDE DEF r
    <3> QED  BY <2>1, <2>2, <2>7, <3>1, <3>2, StepsFacts DEF TypeOK
  <2>4. CASE at < Len(Steps)
    <3>1. Onward
      BY <1>4, <2>2, <2>4, StepsFacts DEF PlanStep
    <3> QED  BY <2>7, <3>1
  <2>5. CASE ~(at < Len(Steps)) /\ Refused(r) = "none"
    <3>1. Onward
      BY <1>4, <2>2, <2>5, StepsFacts DEF PlanStep
    <3> QED  BY <2>7, <3>1
  <2>6. CASE ~(at < Len(Steps)) /\ Refused(r) # "none"
    <3>1. Refused(r) \in {"ok", "conflict", "mismatch", "unreadable", "failed"}
      BY <2>6 DEF Refused
    <3>2. End(Refused(r))
      BY <1>4, <2>6 DEF PlanStep
    <3> HIDE DEF r
    <3> QED  BY <1>4, <2>3, <3>1, <3>2, EndSound DEF PlanStep, TypeOK
  <2> QED  BY <2>4, <2>5, <2>6
<1>5. ASSUME NEW k \in Keys, BeginWrite(k) PROVE Sound'
  <2>1. k \in ToWrite /\ plan[k] \in PlannedItem /\ plan[k].action \in {"new", "replace"} /\ plan[k] # NoPlan
    BY <1>5 DEF BeginWrite, ToWrite, TypeOK
  <2>2. CASE Refuses(k)
    BY <1>5, <2>2, EndSound DEF BeginWrite, TypeOK
  <2>3. CASE ~Refuses(k)
    <3>1. plan[k].old \subseteq Cell /\ plan[k].e.cells \subseteq Cell
      BY <2>1 DEF PlannedItem, Item
    <3>2. Calls(k) \in CallsLeft /\ Calls(k).key = k
      BY <3>1 DEF Calls, CallsLeft
    <3> QED  BY <1>5, <2>1, <2>3, <3>2 DEF BeginWrite, TypeOK, Writing, Resting, ClaimsDone
  <2> QED  BY <2>2, <2>3
<1>6. ASSUME NEW c \in Cell, Call(c) PROVE Sound'
  <2>1. /\ calls # NoPlan /\ c \in NextCalls /\ plan[calls.key] # NoPlan /\ calls.key \in Keys
        /\ phase = "copy" /\ phase' = phase /\ plan[calls.key].action \in {"new", "replace"}
        /\ calls \in CallsLeft
        /\ plan[calls.key] \in PlannedItem
    BY <1>6 DEF Call, Writing, TypeOK, CallsLeft
  <2>2. /\ dst' \in [Keys -> Item]
        /\ \A k \in Keys : dst'[k].cells = {} => dst'[k] = Gone
        /\ \A k \in Lifetimes : dst'[k] # Gone => dst'[k].left > 0
    BY <1>6, <2>1, CalledFacts DEF Call, TypeOK, Lifetimes, Keys
  <2>3. /\ plan' \in [Keys -> {NoPlan} \cup PlannedItem]
    <3>1. [plan[calls.key] EXCEPT !.action = "copied"] \in PlannedItem
      BY <2>1 DEF PlannedItem
    <3>2. plan' = plan \/ plan' = [plan EXCEPT ![calls.key] = [plan[calls.key] EXCEPT !.action = "copied"]]
      BY <1>6 DEF Call
    <3> QED  BY <2>1, <3>1, <3>2 DEF TypeOK
  <2>4. /\ \/ calls' = NoPlan
           \/ /\ calls' \in CallsLeft
              /\ calls'.key = calls.key /\ plan' = plan
    BY ZenonT(30), <1>6, <2>1 DEF Call, CallsLeft
  <2> QED  BY <1>6, <2>1, <2>2, <2>3, <2>4 DEF Call, TypeOK, Writing, Resting, ClaimsDone
<1>7. CASE StepCopied
  <2>1. /\ phase' \in {"copy", "verify"} /\ at' \in 1 .. 3 /\ calls' = NoPlan
        /\ UNCHANGED <<src, dst, claims, seen, plan, calls, opt, report, ended, held, lapsed, good, between>>
    BY <1>7, StepsFacts DEF StepCopied, TypeOK
  <2>2. seen = NoPlan
    BY <1>7 DEF StepCopied, Resting
  <2>3. ClaimsDone'
    BY <1>7, <2>1 DEF StepCopied, ClaimsDone
  <2> QED  BY <2>1, <2>2, <2>3, StepsFacts DEF TypeOK, Writing, Resting
<1>8. CASE VerifyStep
  <2> DEFINE r == [report EXCEPT !.mismatches = @ \cup
                 {k \in Steps[at] : Readable(k, seen[k]) /\ Mismatched(k, seen[k], dst[k])}]
  <2>1. at \in 1 .. 3 /\ Steps[at] \subseteq Keys /\ calls = NoPlan /\ phase = "verify"
    BY <1>8, StepsFacts DEF VerifyStep, TypeOK, Writing
  <2>2. report' = r /\ r \in [conflicts : SUBSET Keys, unreadable : SUBSET Keys, mismatches : SUBSET Keys]
    BY <1>8, <2>1 DEF VerifyStep, TypeOK
  <2>3. CASE at < Len(Steps)
    BY <1>8, <2>1, <2>2, <2>3, StepsFacts DEF VerifyStep, TypeOK, Writing, Resting, ClaimsDone
  <2>4. CASE ~(at < Len(Steps))
    <3>1. End(Verdict(r)) /\ Verdict(r) \in {"ok", "conflict", "mismatch", "unreadable", "failed"}
      BY <1>8, <2>4 DEF VerifyStep, Verdict
    <3> HIDE DEF r
    <3> QED  BY <1>8, <2>2, <3>1, EndSound DEF VerifyStep, TypeOK
  <2> QED  BY <2>3, <2>4
<1>9. CASE Fail
  <2>1. /\ dst' \in [Keys -> Item]
        /\ \A k \in Keys : dst'[k].cells = {} => dst'[k] = Gone
        /\ \A k \in Lifetimes : dst'[k] # Gone => dst'[k].left > 0
    <3>1. CASE UNCHANGED dst
      BY <3>1 DEF TypeOK
    <3>2. ASSUME calls # NoPlan, NEW c \in NextCalls, dst' = [dst EXCEPT ![calls.key] = Called(c)]
          PROVE  <2>1!:
      BY <3>2, CalledFacts DEF TypeOK, Writing, Lifetimes, Keys
    <3> QED  BY <1>9, <3>1, <3>2 DEF Fail
  <2> QED  BY <1>9, <2>1, EndSound DEF Fail, TypeOK
<1>10. CASE Tick
  <2>1. \A k \in Keys : /\ Older(src[k]) \in Item /\ Older(dst[k]) \in Item /\ Older(held[k]) \in Item
                         /\ dst[k] \in Item
    BY OlderFacts DEF TypeOK
  <2>2. src' \in [Keys -> Item] /\ dst' \in [Keys -> Item] /\ held' \in [Keys -> Item]
    BY <1>10, <2>1 DEF Tick
  <2>3. ASSUME NEW k \in Keys
        PROVE  /\ dst'[k].cells = {} => dst'[k] = Gone
               /\ k \in Lifetimes /\ dst'[k] # Gone => dst'[k].left > 0
    <3>1. dst'[k] = Older(dst[k]) /\ dst[k].left \in 0 .. MaxLeft /\ MaxLeft \in Nat
      BY <1>10, <2>1, MigrateAssumption DEF Tick, Item
    <3>2. /\ dst[k].cells = {} => dst[k] = Gone
          /\ k \in Lifetimes /\ dst[k] # Gone => dst[k].left > 0
      BY DEF TypeOK
    <3>3. Gone.left = 0
      BY DEF Gone
    <3> QED  BY <2>1, <3>1, <3>2, <3>3, OlderFacts
  <2>4. between' \in Nat /\ lapsed' \subseteq Keys
    BY <1>10 DEF Tick, TypeOK
  <2> QED  BY ZenonT(30), <1>10, <2>2, <2>3, <2>4 DEF Tick, runVars, TypeOK, Writing, Resting, ClaimsDone, Lifetimes, Keys
<1>11. ASSUME NEW k \in Links, FinishClaim(k) PROVE Sound'
  <2>1. /\ phase = "plan" /\ at = 1 /\ plan = [j \in Keys |-> NoPlan] /\ calls = NoPlan
        /\ claims' \in [{"src", "dst"} -> SUBSET Links] /\ claims'["src"] \subseteq claims["src"]
        /\ UNCHANGED runVars /\ UNCHANGED <<lapsed, good, between>>
    BY <1>11, FinishFacts
  <2>2. PICK v \in Values :
          \/ seen = NoPlan /\ src' = Narrowed(src, k, v) /\ UNCHANGED <<dst, held>>
          \/ dst' = Narrowed(dst, k, v) /\ held' = Narrowed(held, k, v) /\ UNCHANGED src
    BY Zenon, <1>11, FinishFacts
  <2>3. /\ src \in [Keys -> Item] /\ dst \in [Keys -> Item] /\ held \in [Keys -> Item]
        /\ k \notin Lifetimes
    BY MigrateAssumption DEF TypeOK, Lifetimes
  <2>4. src' \in [Keys -> Item] /\ dst' \in [Keys -> Item] /\ held' \in [Keys -> Item]
    BY <2>2, <2>3, NarrowedFacts
  <2>5. \A j \in Keys : dst'[j] = dst[j] \/ (j = k /\ dst'[j].cells # {})
    <3>1. \A j \in Keys : \/ Narrowed(dst, k, v)[j] = dst[j]
                          \/ j = k /\ Narrowed(dst, k, v)[j].cells = {<<"value", v>>}
      BY <2>3, NarrowedFacts
    <3>2. dst' = dst \/ dst' = Narrowed(dst, k, v)
      BY <2>2
    <3>3. {<<"value", v>>} # {}
      OBVIOUS
    <3> QED  BY <3>1, <3>2, <3>3
  <2>6. /\ \A j \in Keys : dst'[j].cells = {} => dst'[j] = Gone
        /\ \A j \in Lifetimes : dst'[j] # Gone => dst'[j].left > 0
    BY <2>3, <2>5 DEF TypeOK, Lifetimes, Keys
  <2>7. Writing' /\ Resting' /\ ClaimsDone'
    BY <2>1 DEF runVars, Writing, Resting, ClaimsDone
  <2> QED  BY <2>1, <2>4, <2>6, <2>7 DEF runVars, TypeOK
<1> QED  BY <1>1, <1>2, <1>3, <1>4, <1>5, <1>6, <1>7, <1>8, <1>9, <1>10, <1>11 DEF Next

\* Whatever the stores hold, whatever ran out and however runs end, what the two
\* sides hold are items, what the issuer keeps on the destination runs out in the
\* end, and a run's own variables keep their types (Run, execute, plan, verify).
THEOREM TypeCorrect == Spec => []TypeOK
<1>1. Spec => []Sound
  BY InitSound, SoundStep, PTL DEF Spec
<1>2. Sound => TypeOK
  BY DEF Sound
<1> QED  BY <1>1, <1>2, PTL

-----------------------------------------------------------------------------
(* What a run may not touch. *)

\* A run has no outcome before its end.
Running == phase # "idle" => ended = "none"

\* What is planned as new was not listed when the run began, and what would be
\* replaced is among the conflicts.
Planning ==
  phase \in {"plan", "copy"} => \A k \in Keys : plan[k] # NoPlan =>
    /\ plan[k].action = "new" => ~Listed(k, held[k])
    /\ plan[k].action = "replace" => k \in report.conflicts

\* Nothing is written dry, nor over a conflict unless told to.
Sanctioned ==
  phase \in {"copy", "verify"} => ~opt.dry /\ (opt.overwrite \/ report.conflicts = {})

KeptInv == Running /\ NothingWritten /\ Planning /\ Sanctioned /\ ForeignKept

\* Nothing of the target was touched before the start.
LEMMA InitKept == Init => KeptInv
  BY DEF Init, Unstarted, KeptInv, Running, NothingWritten, Planning, Sanctioned, ForeignKept

\* Time takes from both alike what the destination held and what it holds, and
\* brings nothing that was not listed (a store's expiry).
LEMMA TickKept == Sound /\ KeptInv /\ Tick => KeptInv'
<1> SUFFICES ASSUME Sound, KeptInv, Tick PROVE KeptInv'
  OBVIOUS
<1>1. /\ dst' = [k \in Keys |-> Older(dst[k])] /\ held' = [k \in Keys |-> Older(held[k])]
      /\ UNCHANGED <<phase, plan, opt, report, ended>>
  BY DEF Tick, runVars
<1>2. dst \in [Keys -> Item] /\ held \in [Keys -> Item]
  BY DEF Sound, TypeOK
<1>3. ASSUME NEW k \in Keys, Listed(k, held'[k]) PROVE Listed(k, held[k])
  <2>1. held'[k] = Older(held[k]) /\ held[k] \in Item
    BY <1>1, <1>2
  <2>2. held'[k].cells # {}
    BY <1>3 DEF Listed
  <2>3. held'[k].cells = held[k].cells
    BY <2>1, <2>2, OlderFacts
  <2> QED  BY <1>3, <2>3 DEF Listed
<1>4. dst = held => dst' = held'
  BY <1>1
<1>5. NothingWritten' /\ Running' /\ Sanctioned'
  BY <1>1, <1>4 DEF KeptInv, NothingWritten, Running, Sanctioned
<1>6. ForeignKept' /\ Planning'
  BY <1>1, <1>3 DEF KeptInv, ForeignKept, Planning
<1> QED  BY <1>5, <1>6 DEF KeptInv

\* A call changes only an item that the plan may write: one that was not listed,
\* or any under --overwrite (run.execute).
LEMMA CallKept ==
  ASSUME Sound, KeptInv, calls # NoPlan, NEW c \in NextCalls,
         dst' = [dst EXCEPT ![calls.key] = Called(c)], UNCHANGED <<held, opt>>
  PROVE  ForeignKept' /\ ~opt.dry /\ phase = "copy"
<1>1. /\ phase = "copy" /\ calls.key \in Keys /\ plan[calls.key] # NoPlan
      /\ plan[calls.key].action \in {"new", "replace"}
  BY DEF Sound, Writing, TypeOK, CallsLeft
<1>2. /\ ~opt.dry
      /\ ~opt.overwrite => plan[calls.key].action = "new" /\ ~Listed(calls.key, held[calls.key])
  BY <1>1 DEF KeptInv, Planning, Sanctioned
<1>3. \A k \in Keys : k # calls.key => dst'[k] = dst[k]
  BY DEF Sound, TypeOK
<1> QED  BY <1>1, <1>2, <1>3 DEF KeptInv, ForeignKept

\* The plan of a step is made while nothing has been written yet (run.plan).
LEMMA PlanKept == Sound /\ KeptInv /\ PlanStep => KeptInv'
<1> SUFFICES ASSUME Sound, KeptInv, PlanStep PROVE KeptInv'
  OBVIOUS
<1> DEFINE r == [report EXCEPT
               !.conflicts = @ \cup {k \in Steps[at] : Planned[k] # NoPlan /\ Planned[k].action = "replace"},
               !.unreadable = @ \cup {k \in Steps[at] : Listed(k, seen[k]) /\ Unreadable(seen[k])}]
<1>1. /\ phase = "plan" /\ dst = held /\ report' = r /\ ended = "none"
      /\ UNCHANGED <<dst, held, opt>> /\ opt \in [dry : BOOLEAN, overwrite : BOOLEAN]
  BY DEF KeptInv, NothingWritten, Running, PlanStep, End, Sound, TypeOK
<1>2. report.conflicts \subseteq r.conflicts
      /\ r.conflicts = report.conflicts \cup {k \in Steps[at] : Planned[k] # NoPlan /\ Planned[k].action = "replace"}
  BY DEF Sound, TypeOK
<1>3. ASSUME NEW k \in Keys, Planned[k] # NoPlan
      PROVE  /\ Planned[k].action = "new" => ~Listed(k, held[k])
             /\ Planned[k].action = "replace" => k \in r.conflicts
  <2>1. CASE k \in Steps[at] /\ Readable(k, seen[k])
    <3>1. Planned[k].action = Action(k, seen[k], dst[k])
      BY <2>1 DEF Planned
    <3>2. Action(k, seen[k], dst[k]) = "new" => ~Listed(k, dst[k])
      BY DEF Action
    <3> QED  BY <1>1, <1>2, <1>3, <2>1, <3>1, <3>2
  <2>2. CASE ~(k \in Steps[at] /\ Readable(k, seen[k]))
    <3>1. Planned[k] = plan[k]
      BY <2>2 DEF Planned
    <3> QED  BY <1>1, <1>2, <1>3, <3>1 DEF KeptInv, Planning
  <2> QED  BY <2>1, <2>2
<1>4. ForeignKept' /\ dst' = held'
  BY <1>1 DEF ForeignKept
<1> HIDE DEF r
<1>5. CASE /\ plan' = Planned /\ phase' = "plan" /\ UNCHANGED ended
  BY <1>1, <1>3, <1>4, <1>5 DEF KeptInv, Running, NothingWritten, Planning, Sanctioned
<1>6. CASE /\ plan' = Planned /\ phase' = "copy" /\ Refused(r) = "none" /\ UNCHANGED ended
  <2>1. ~opt.dry /\ (opt.overwrite \/ r.conflicts = {})
    BY <1>1, <1>6 DEF Refused
  <2> QED  BY <1>1, <1>3, <1>4, <1>6, <2>1 DEF KeptInv, Running, NothingWritten, Planning, Sanctioned
<1>7. CASE phase' = "idle"
  BY <1>1, <1>4, <1>7 DEF KeptInv, Running, NothingWritten, Planning, Sanctioned
<1>8. \/ plan' = Planned /\ phase' = "plan" /\ UNCHANGED ended
      \/ plan' = Planned /\ phase' = "copy" /\ Refused(r) = "none" /\ UNCHANGED ended
      \/ phase' = "idle"
  BY <1>1 DEF PlanStep, End, r
<1> QED  BY <1>5, <1>6, <1>7, <1>8

\* No step of a migration touches a record of the target it was not to write (planState, apply).
LEMMA KeptStep == Sound /\ KeptInv /\ [Next]_vars => KeptInv'
<1> SUFFICES ASSUME Sound, KeptInv, [Next]_vars PROVE KeptInv'
  OBVIOUS
<1> USE DEF Running, NothingWritten, Planning, Sanctioned, ForeignKept
<1>1. CASE UNCHANGED vars
  BY <1>1 DEF vars, KeptInv
<1>2. ASSUME NEW dry \in BOOLEAN, NEW overwrite \in BOOLEAN, Begin(dry, overwrite) PROVE KeptInv'
  BY <1>2 DEF Begin, KeptInv, Sound, Resting
<1>3. CASE ReadSource
  BY <1>3 DEF ReadSource, KeptInv
<1>4. CASE PlanStep
  BY <1>4, PlanKept
<1>5. ASSUME NEW k \in Keys, BeginWrite(k) PROVE KeptInv'
  BY <1>5 DEF BeginWrite, End, KeptInv
<1>6. ASSUME NEW c \in Cell, Call(c) PROVE KeptInv'
  <2>1. /\ calls # NoPlan /\ c \in NextCalls /\ dst' = [dst EXCEPT ![calls.key] = Called(c)]
        /\ UNCHANGED <<held, opt, phase, report, ended>>
    BY <1>6 DEF Call
  <2>2. ForeignKept' /\ ~opt.dry /\ phase = "copy"
    BY <2>1, CallKept
  <2>3. /\ plan[calls.key] \in PlannedItem /\ calls.key \in Keys /\ plan \in [Keys -> {NoPlan} \cup PlannedItem]
    BY <2>1 DEF Sound, Writing, TypeOK, CallsLeft
  <2>4. plan' = plan \/ plan' = [plan EXCEPT ![calls.key] = [plan[calls.key] EXCEPT !.action = "copied"]]
    BY <1>6 DEF Call
  <2>5. \A k \in Keys : plan'[k] = plan[k] \/ plan'[k].action = "copied"
    BY <2>3, <2>4 DEF PlannedItem
  <2>6. Planning'
    BY <2>1, <2>2, <2>5 DEF KeptInv
  <2>7. Running' /\ NothingWritten' /\ Sanctioned'
    BY <2>1, <2>2 DEF KeptInv
  <2> QED  BY <2>2, <2>6, <2>7 DEF KeptInv
<1>7. CASE StepCopied
  BY <1>7 DEF StepCopied, KeptInv
<1>8. CASE VerifyStep
  <2>1. /\ UNCHANGED <<dst, held, opt>> /\ phase = "verify" /\ phase' \in {"verify", "idle"}
        /\ phase' = "verify" => ended' = ended
        /\ ended' # "conflict" /\ report'.conflicts = report.conflicts
    BY <1>8 DEF VerifyStep, End, Verdict, Sound, TypeOK, KeptInv
  <2> QED  BY <2>1 DEF KeptInv
<1>9. CASE Fail
  <2>1. /\ UNCHANGED <<held, opt>> /\ phase' = "idle" /\ ended' = "failed"
    BY <1>9 DEF Fail, End
  <2>2. ForeignKept' /\ (opt.dry => dst' = dst)
    <3>1. CASE UNCHANGED dst
      BY <2>1, <3>1 DEF KeptInv
    <3>2. ASSUME calls # NoPlan, NEW c \in NextCalls, dst' = [dst EXCEPT ![calls.key] = Called(c)]
          PROVE  ForeignKept' /\ ~opt.dry
      BY <2>1, <3>2, CallKept
    <3> QED  BY <1>9, <3>1, <3>2 DEF Fail
  <2> QED  BY <2>1, <2>2 DEF KeptInv
<1>10. CASE Tick
  BY <1>10, TickKept
<1>11. ASSUME NEW k \in Links, FinishClaim(k) PROVE KeptInv'
  <2>1. /\ phase = "plan" /\ plan = [j \in Keys |-> NoPlan] /\ UNCHANGED runVars /\ dst = held
    BY <1>11, FinishFacts DEF KeptInv
  <2>2. dst' = held'
    BY <1>11, <2>1, FinishFacts
  <2> QED  BY <2>1, <2>2 DEF runVars, KeptInv
<1> QED  BY <1>1, <1>2, <1>3, <1>4, <1>5, <1>6, <1>7, <1>8, <1>9, <1>10, <1>11 DEF Next

\* Without --overwrite nothing that the destination listed when a run began is
\* touched by its copy, its lifetime included, however the run ends and whichever
\* call it dies at (plan, execute).  The claims that its listing of links finishes
\* are counted with what was held (finishClaims), and a record that a List passes
\* over is not listed.
THEOREM ForeignKeptHolds == Spec => []ForeignKept
<1>1. Spec => [](Sound /\ KeptInv)
  BY InitSound, SoundStep, InitKept, KeptStep, PTL DEF Spec
<1>2. KeptInv => ForeignKept
  BY DEF KeptInv
<1> QED  BY <1>1, <1>2, PTL

\* A dry run, a run that stops at a conflict and a run that is still planning
\* have written nothing (execute: "nothing was written") but the claims that the
\* listing of links finishes (finishClaims).
THEOREM NothingWrittenHolds == Spec => []NothingWritten
<1>1. Spec => [](Sound /\ KeptInv)
  BY InitSound, SoundStep, InitKept, KeptStep, PTL DEF Spec
<1>2. KeptInv => NothingWritten
  BY DEF KeptInv
<1> QED  BY <1>1, <1>2, PTL

-----------------------------------------------------------------------------
(* What a run that ended well has copied. *)

\* The keys of the steps before the one at hand.
Passed(k) == \E i \in 1 .. 3 : i < at /\ k \in Steps[i]

\* b is what is left of a after some time.
Since(a, b) ==
  b = Gone \/ (b.cells = a.cells /\ b.left <= a.left /\ (b.left = 0) = (a.left = 0))

\* What a step read is what the source holds, but for time, and when verifying for
\* no more than the time counted.
SeenSince ==
  seen # NoPlan => \A k \in Steps[at] :
    /\ Since(seen[k], src[k])
    /\ phase = "verify" /\ src[k].left > 0 => seen[k].left <= src[k].left + between

\* What the source cannot read of a planned step was reported.
Reported ==
  \A k \in Keys : phase \in {"copy", "verify"} \/ (phase = "plan" /\ Passed(k)) =>
    (Listed(k, src[k]) /\ Unreadable(src[k]) => k \in report.unreadable)

\* The copy of a key, as OkMeansCopied has it.
CopyOf(k) ==
  \/ /\ dst[k].cells = src[k].cells /\ ~Unreadable(src[k])
     /\ k \in Lifetimes => src[k].left > 0 /\ dst[k].left <= src[k].left + TtlSlack + between
  \/ dst[k] = Gone /\ src[k].left > 0 /\ src[k].left < TtlSlack

\* What has been verified, and is not in the report, is a copy until it runs out.
Compared ==
  \A k \in Keys :
    (phase = "verify" /\ Passed(k)) \/ (ended = "ok" /\ ~opt.dry) =>
      (Listed(k, src[k]) =>
         k \in lapsed \cup report.mismatches \cup report.unreadable \/ CopyOf(k))

\* A run that wrote and ended well has nothing to report.
Clean == ended = "ok" /\ ~opt.dry => report.mismatches = {} /\ report.unreadable = {}

CopiedInv == SeenSince /\ Reported /\ Compared /\ Clean

\* What is listed after some time is what was there (a store's expiry).
LEMMA ListedOlder ==
  ASSUME NEW x \in Item, NEW k \in Keys, Listed(k, Older(x))
  PROVE  /\ Older(x).cells = x.cells /\ Listed(k, x)
         /\ Unreadable(Older(x)) = Unreadable(x)
         /\ Older(x).left = 0 => x.left = 0
         /\ x.left > 0 => Older(x).left = x.left - 1 /\ Older(x).left > 0
<1>1. Older(x).cells # {}
  BY DEF Listed
<1>2. Older(x).cells = x.cells
  BY <1>1, OlderFacts
<1>3. x.left \in Nat /\ Gone.cells = {}
  BY MigrateAssumption DEF Item, Gone
<1>4. x.left = 0 \/ x.left > 1
  BY <1>1, <1>3, OlderFacts
<1> QED  BY <1>2, <1>3, <1>4, OlderFacts DEF Listed, Unreadable

\* What is left of an item after some time, and listed, is as readable as it was.
LEMMA SinceFacts ==
  ASSUME NEW a \in Item, NEW b \in Item, Since(a, b)
  PROVE  /\ Since(a, Older(b))
         /\ \A k \in Keys : Listed(k, b) =>
              /\ Listed(k, a) /\ b.cells = a.cells /\ Unreadable(b) = Unreadable(a)
              /\ b.left <= a.left /\ (b.left = 0) = (a.left = 0)
<1>1. a.left \in Nat /\ b.left \in Nat /\ Gone.cells = {} /\ Gone.left = 0
  BY MigrateAssumption DEF Item, Gone
<1>2. Since(a, Older(b))
  <2>1. CASE b.left = 0
    BY <2>1, OlderFacts
  <2>2. CASE b.left = 1
    BY <2>2, OlderFacts DEF Since
  <2>3. CASE b.left > 1
    <3>1. b # Gone /\ Older(b).cells = b.cells /\ Older(b).left = b.left - 1
      BY <1>1, <2>3, OlderFacts
    <3> QED  BY <1>1, <2>3, <3>1 DEF Since
  <2> QED  BY <1>1, <2>1, <2>2, <2>3
<1>3. ASSUME NEW k \in Keys, Listed(k, b)
      PROVE  /\ Listed(k, a) /\ b.cells = a.cells /\ Unreadable(b) = Unreadable(a)
             /\ b.left <= a.left /\ (b.left = 0) = (a.left = 0)
  <2>1. b # Gone
    BY <1>1, <1>3 DEF Listed
  <2> QED  BY <1>3, <2>1 DEF Since, Listed, Unreadable
<1> QED  BY <1>2, <1>3

\* Nothing has been verified before the start.
LEMMA InitCopied == Init => CopiedInv
<1> SUFFICES ASSUME Init PROVE CopiedInv
  OBVIOUS
<1> QED  BY DEF Init, Unstarted, CopiedInv, SeenSince, Reported, Compared, Clean

\* A copy stays one until it runs out (lifetimes on both sides run at one pace).
LEMMA TickCopied == Sound /\ CopiedInv /\ Tick => CopiedInv'
<1> SUFFICES ASSUME Sound, CopiedInv, Tick PROVE CopiedInv'
  OBVIOUS
<1>1. /\ src' = [k \in Keys |-> Older(src[k])] /\ dst' = [k \in Keys |-> Older(dst[k])]
      /\ lapsed' = lapsed \cup {k \in Keys : dst[k].left = 1}
      /\ between' = IF phase = "verify" /\ seen # NoPlan THEN between + 1 ELSE between
      /\ UNCHANGED <<phase, at, seen, plan, opt, report, ended>>
  BY DEF Tick, runVars
<1>2. /\ src \in [Keys -> Item] /\ dst \in [Keys -> Item] /\ between \in Nat /\ at \in 1 .. 3
      /\ \A k \in Keys : /\ src[k].left \in Nat /\ dst[k].left \in Nat
                          /\ src'[k] = Older(src[k]) /\ dst'[k] = Older(dst[k])
  <2>1. src \in [Keys -> Item] /\ dst \in [Keys -> Item] /\ between \in Nat /\ at \in 1 .. 3
    BY StepsFacts DEF Sound, TypeOK
  <2>2. \A k \in Keys : src[k] \in Item /\ dst[k] \in Item
    BY <2>1
  <2>3. \A k \in Keys : src[k].left \in Nat /\ dst[k].left \in Nat
    BY <2>2, MigrateAssumption DEF Item
  <2> QED  BY <1>1, <2>1, <2>3
<1>3. SeenSince'
  <2> SUFFICES ASSUME seen # NoPlan, NEW k \in Steps[at]
               PROVE  /\ Since(seen[k], src'[k])
                      /\ phase = "verify" /\ src'[k].left > 0 => seen[k].left <= src'[k].left + between'
    BY <1>1 DEF SeenSince
  <2>1. k \in Keys /\ seen[k] \in Item /\ src[k] \in Item
    BY <1>2, StepsFacts DEF Sound, TypeOK
  <2>2. /\ Since(seen[k], src[k])
        /\ phase = "verify" /\ src[k].left > 0 => seen[k].left <= src[k].left + between
    BY DEF CopiedInv, SeenSince
  <2>3. Since(seen[k], src'[k])
    BY <1>2, <2>1, <2>2, SinceFacts
  <2>4. ASSUME phase = "verify", src'[k].left > 0 PROVE seen[k].left <= src'[k].left + between'
    <3>1. between' = between + 1 /\ seen[k].left \in Nat
      BY <1>1, <2>1, <2>4, MigrateAssumption DEF Item
    <3>2. src'[k] = Older(src[k]) /\ src[k].left \in Nat /\ between \in Nat
      BY <1>2, <2>1
    <3>3. src[k].left > 1 /\ src'[k].left = src[k].left - 1
      <4>1. Gone.left = 0
        BY DEF Gone
      <4>2. src[k].left # 1
        BY <2>1, <2>4, <3>2, <4>1, OlderFacts
      <4>3. src[k].left # 0
        BY <2>1, <2>4, <3>2, OlderFacts
      <4>4. src[k].left > 1
        BY <3>2, <4>2, <4>3
      <4> QED  BY <2>1, <3>2, <4>4, OlderFacts
    <3> QED  BY <2>2, <2>4, <3>1, <3>2, <3>3
  <2> QED  BY <2>3, <2>4
<1>4. Reported'
  <2> SUFFICES ASSUME NEW k \in Keys, phase \in {"copy", "verify"} \/ (phase = "plan" /\ Passed(k)),
                      Listed(k, src'[k]), Unreadable(src'[k])
               PROVE  k \in report.unreadable
    BY <1>1 DEF Reported, Passed
  <2>1. Listed(k, src[k]) /\ Unreadable(src[k])
    BY <1>2, ListedOlder
  <2> QED  BY <2>1 DEF CopiedInv, Reported
<1>5. Compared'
  <2> SUFFICES ASSUME NEW k \in Keys, (phase = "verify" /\ Passed(k)) \/ (ended = "ok" /\ ~opt.dry),
                      Listed(k, src'[k]), k \notin lapsed' \cup report.mismatches \cup report.unreadable
               PROVE  CopyOf(k)'
    BY <1>1 DEF Compared, Passed
  <2>1. /\ Listed(k, src[k]) /\ src'[k].cells = src[k].cells
        /\ Unreadable(src'[k]) = Unreadable(src[k])
        /\ src[k].left > 0 => src'[k].left = src[k].left - 1 /\ src'[k].left > 0
    BY <1>2, ListedOlder
  <2>2. dst[k].left # 1 /\ CopyOf(k)
    BY <1>1, <2>1 DEF CopiedInv, Compared
  <2>3. between' \in Nat /\ between <= between' /\ TtlSlack \in Nat
    BY <1>1, <1>2, MigrateAssumption
  <2>4. CASE /\ dst[k].cells = src[k].cells /\ ~Unreadable(src[k])
             /\ k \in Lifetimes => src[k].left > 0 /\ dst[k].left <= src[k].left + TtlSlack + between
    <3>1. dst'[k].cells = dst[k].cells /\ (dst[k].left > 1 => dst'[k].left = dst[k].left - 1)
          /\ (dst[k].left = 0 => dst'[k].left = 0)
      <4>1. dst'[k] = Older(dst[k]) /\ dst[k].left \in Nat /\ dst[k].left # 1 /\ dst[k] \in Item
        BY <1>2, <2>2
      <4>2. CASE dst[k].left = 0
        BY <4>1, <4>2, OlderFacts
      <4>3. CASE dst[k].left > 1
        BY <4>1, <4>3, OlderFacts
      <4> QED  BY <4>1, <4>2, <4>3
    <3> QED  BY SMTT(30), <1>2, <2>1, <2>2, <2>3, <2>4, <3>1 DEF CopyOf
  <2>5. CASE dst[k] = Gone /\ src[k].left > 0 /\ src[k].left < TtlSlack
    <3>1. dst'[k] = Gone
      BY <1>2, <2>5, OlderFacts
    <3> QED  BY <1>2, <2>1, <2>3, <2>5, <3>1 DEF CopyOf
  <2> QED  BY <2>2, <2>4, <2>5 DEF CopyOf
<1>6. Clean'
  BY <1>1 DEF CopiedInv, Clean
<1> QED  BY <1>3, <1>4, <1>5, <1>6 DEF CopiedInv

\* Planning a step reports what it cannot read (run.plan).
LEMMA PlanCopied == Sound /\ KeptInv /\ CopiedInv /\ PlanStep => CopiedInv'
<1> SUFFICES ASSUME Sound, KeptInv, CopiedInv, PlanStep PROVE CopiedInv'
  OBVIOUS
<1> DEFINE r == [report EXCEPT
               !.conflicts = @ \cup {k \in Steps[at] : Planned[k] # NoPlan /\ Planned[k].action = "replace"},
               !.unreadable = @ \cup {k \in Steps[at] : Listed(k, seen[k]) /\ Unreadable(seen[k])}]
<1>1. /\ phase = "plan" /\ report' = r /\ ended = "none" /\ seen # NoPlan /\ at \in 1 .. 3
      /\ UNCHANGED <<src, dst, opt, lapsed, between>> /\ seen' = NoPlan
  BY StepsFacts DEF KeptInv, Running, PlanStep, End, Sound, TypeOK
<1>2. r.unreadable = report.unreadable \cup {k \in Steps[at] : Listed(k, seen[k]) /\ Unreadable(seen[k])}
  BY DEF Sound, TypeOK
<1>3. ASSUME NEW k \in Keys, Passed(k) \/ k \in Steps[at], Listed(k, src[k]), Unreadable(src[k])
      PROVE  k \in r.unreadable
  <2>1. CASE k \in Steps[at]
    <3>1. seen[k] \in Item /\ src[k] \in Item /\ Since(seen[k], src[k])
      BY <1>1, <2>1 DEF Sound, TypeOK, CopiedInv, SeenSince
    <3> QED  BY <1>2, <1>3, <2>1, <3>1, SinceFacts
  <2>2. CASE Passed(k)
    BY <1>1, <1>2, <1>3, <2>2 DEF CopiedInv, Reported
  <2> QED  BY <1>3, <2>1, <2>2
<1>4. SeenSince'
  BY <1>1 DEF SeenSince
<1> HIDE DEF r
<1>5. CASE phase' = "plan" /\ at' = at + 1 /\ UNCHANGED ended
  <2>1. \A k \in Keys : Passed(k)' => Passed(k) \/ k \in Steps[at]
    BY <1>1, <1>5 DEF Passed
  <2>2. Reported'
    BY <1>1, <1>3, <1>5, <2>1 DEF Reported
  <2>3. Compared' /\ Clean'
    BY <1>1, <1>5 DEF Compared, Clean
  <2> QED  BY <1>4, <2>2, <2>3 DEF CopiedInv
<1>6. CASE phase' = "copy" /\ at = 3 /\ UNCHANGED ended
  <2>1. \A k \in Keys : Passed(k) \/ k \in Steps[at]
    BY <1>6, StepsFacts DEF Passed
  <2>2. Reported'
    BY <1>1, <1>3, <1>6, <2>1 DEF Reported
  <2>3. Compared' /\ Clean'
    BY <1>1, <1>6 DEF Compared, Clean
  <2> QED  BY <1>4, <2>2, <2>3 DEF CopiedInv
<1>7. CASE phase' = "idle" /\ (ended' = "ok" => opt.dry)
  BY <1>1, <1>4, <1>7 DEF CopiedInv, Reported, Compared, Clean
<1>8. \/ phase' = "plan" /\ at' = at + 1 /\ UNCHANGED ended
      \/ phase' = "copy" /\ at = 3 /\ UNCHANGED ended
      \/ phase' = "idle" /\ (ended' = "ok" => opt.dry)
  BY <1>1, StepsFacts DEF PlanStep, End, Refused, r
<1> QED  BY <1>5, <1>6, <1>7, <1>8

\* An item that verify does not report is a copy (run.verify, lifetimeProblem).
LEMMA VerifiedCopy ==
  ASSUME Sound, CopiedInv, phase = "verify", seen # NoPlan, NEW k \in Steps[at],
         Listed(k, src[k]), k \notin report.unreadable,
         ~(Readable(k, seen[k]) /\ Mismatched(k, seen[k], dst[k]))
  PROVE  CopyOf(k)
<1>1. /\ k \in Keys /\ seen[k] \in Item /\ src[k] \in Item /\ dst[k] \in Item
      /\ Since(seen[k], src[k])
      /\ src[k].left > 0 => seen[k].left <= src[k].left + between
      /\ dst[k].cells = {} => dst[k] = Gone
      /\ k \in Lifetimes /\ dst[k] # Gone => dst[k].left > 0
  BY StepsFacts DEF Sound, TypeOK, CopiedInv, SeenSince
<1>2. /\ Listed(k, seen[k]) /\ src[k].cells = seen[k].cells /\ Unreadable(src[k]) = Unreadable(seen[k])
      /\ src[k].left <= seen[k].left /\ (src[k].left = 0) = (seen[k].left = 0)
  BY <1>1, SinceFacts
<1>3. ~Unreadable(src[k]) /\ ~Mismatched(k, seen[k], dst[k])
  BY <1>1, <1>2 DEF CopiedInv, Reported, Readable
<1>4. /\ seen[k].left \in Nat /\ src[k].left \in Nat /\ dst[k].left \in Nat
      /\ TtlSlack \in Nat /\ between \in Nat
  BY <1>1, MigrateAssumption DEF Item, Sound, TypeOK
<1>5. CASE ~Listed(k, dst[k])
  <2>1. k \in Lifetimes /\ seen[k].left > 0 /\ seen[k].left < TtlSlack
    BY <1>3, <1>5 DEF Mismatched
  <2>2. dst[k] = Gone
    BY <1>1, <1>5, <2>1, MigrateAssumption DEF Listed, Lifetimes
  <2> QED  BY <1>2, <1>4, <2>1, <2>2 DEF CopyOf
<1>6. CASE Listed(k, dst[k])
  <2>1. /\ dst[k].cells = seen[k].cells
        /\ k \in Lifetimes => ~LifetimeProblem(seen[k].left, dst[k].left)
    BY <1>3, <1>6 DEF Mismatched
  <2>2. dst[k] # Gone
    BY <1>6 DEF Listed, Gone
  <2>3. ASSUME k \in Lifetimes
        PROVE  src[k].left > 0 /\ dst[k].left <= src[k].left + TtlSlack + between
    <3>1. dst[k].left > 0 /\ seen[k].left # 0 /\ dst[k].left <= seen[k].left + TtlSlack
      BY <1>1, <1>4, <2>1, <2>2, <2>3 DEF LifetimeProblem
    <3>2. src[k].left > 0 /\ seen[k].left <= src[k].left + between
      BY <1>1, <1>2, <1>4, <3>1
    <3> QED  BY <1>4, <3>1, <3>2
  <2> QED  BY <1>2, <1>3, <2>1, <2>3 DEF CopyOf
<1> QED  BY <1>5, <1>6

\* Verifying a step reads both sides, and finds the copy or says so (verify).
LEMMA VerifyCopied == Sound /\ KeptInv /\ CopiedInv /\ VerifyStep => CopiedInv'
<1> SUFFICES ASSUME Sound, KeptInv, CopiedInv, VerifyStep PROVE CopiedInv'
  OBVIOUS
<1> DEFINE r == [report EXCEPT !.mismatches = @ \cup
                 {k \in Steps[at] : Readable(k, seen[k]) /\ Mismatched(k, seen[k], dst[k])}]
<1>1. /\ phase = "verify" /\ report' = r /\ ended = "none" /\ seen # NoPlan /\ at \in 1 .. 3
      /\ UNCHANGED <<src, dst, opt, between>> /\ seen' = NoPlan /\ lapsed' = lapsed \ Steps[at]
      /\ ~opt.dry
  BY StepsFacts DEF KeptInv, Running, Sanctioned, VerifyStep, End, Sound, TypeOK
<1>2. /\ r.unreadable = report.unreadable
      /\ r.mismatches = report.mismatches \cup
           {k \in Steps[at] : Readable(k, seen[k]) /\ Mismatched(k, seen[k], dst[k])}
  BY DEF Sound, TypeOK
<1>3. ASSUME NEW k \in Keys, Passed(k) \/ k \in Steps[at], Listed(k, src[k]),
             k \notin lapsed' \cup r.mismatches \cup r.unreadable
      PROVE  CopyOf(k)
  <2>1. CASE k \in Steps[at]
    <3>1. ~(Readable(k, seen[k]) /\ Mismatched(k, seen[k], dst[k])) /\ k \notin report.unreadable
      BY <1>2, <1>3, <2>1
    <3> QED  BY <1>1, <1>3, <2>1, <3>1, VerifiedCopy
  <2>2. CASE k \notin Steps[at]
    <3>1. k \notin lapsed \cup report.mismatches \cup report.unreadable /\ Passed(k)
      BY <1>1, <1>2, <1>3, <2>2
    <3> QED  BY <1>1, <1>3, <3>1 DEF CopiedInv, Compared
  <2> QED  BY <2>1, <2>2
<1>4. SeenSince'
  BY <1>1 DEF SeenSince
<1>5. \A k \in Keys : CopyOf(k)' = CopyOf(k)
  BY <1>1 DEF CopyOf
<1>6. CASE at < 3
  <2>1. phase' = "verify" /\ at' = at + 1 /\ ended' = ended
    BY <1>6, StepsFacts DEF VerifyStep
  <2>2. \A k \in Keys : Passed(k)' => Passed(k) \/ k \in Steps[at]
    BY <1>1, <2>1 DEF Passed
  <2>3. Reported'
    BY <1>1, <1>2, <2>1 DEF CopiedInv, Reported
  <2> HIDE DEF r
  <2>4. Compared'
    BY <1>1, <1>3, <1>5, <2>1, <2>2 DEF Compared
  <2>5. Clean'
    BY <1>1, <2>1 DEF Clean
  <2> QED  BY <1>4, <2>3, <2>4, <2>5 DEF CopiedInv
<1>7. CASE at = 3
  <2>1. phase' = "idle" /\ ended' = Verdict(r)
    BY <1>7, StepsFacts DEF VerifyStep, End
  <2>2. \A k \in Keys : Passed(k) \/ k \in Steps[at]
    BY <1>7, StepsFacts DEF Passed
  <2> HIDE DEF r
  <2>3. Reported' /\ Clean'
    BY <1>1, <2>1 DEF Reported, Clean, Verdict
  <2>4. Compared'
    BY <1>1, <1>3, <1>5, <2>1, <2>2 DEF Compared
  <2> QED  BY <1>4, <2>3, <2>4 DEF CopiedInv
<1> QED  BY <1>1, <1>6, <1>7

\* Every other step leaves what was verified verified, but for what has run out since.
LEMMA CopiedStep == Sound /\ KeptInv /\ CopiedInv /\ [Next]_vars => CopiedInv'
<1> SUFFICES ASSUME Sound, KeptInv, CopiedInv, [Next]_vars PROVE CopiedInv'
  OBVIOUS
<1> USE DEF SeenSince, Reported, Compared, Clean, CopyOf, Passed
<1>1. CASE UNCHANGED vars
  BY <1>1 DEF vars, CopiedInv
<1>2. ASSUME NEW dry \in BOOLEAN, NEW overwrite \in BOOLEAN, Begin(dry, overwrite) PROVE CopiedInv'
  <2>1. /\ phase' = "plan" /\ at' = 1 /\ seen' = NoPlan /\ ended' = "none"
    BY <1>2 DEF Begin, Sound, Resting
  <2> QED  BY <2>1 DEF CopiedInv
<1>3. CASE ReadSource
  <2>1. /\ phase \in {"plan", "verify"} /\ seen' = [k \in Steps[at] |-> src[k]]
        /\ UNCHANGED <<src, dst, phase, at, opt, report, ended, lapsed, between>>
    BY <1>3 DEF ReadSource
  <2>2. SeenSince'
    <3> SUFFICES ASSUME NEW k \in Steps[at]
                 PROVE  Since(src[k], src[k]) /\ src[k].left <= src[k].left + between
      BY <2>1 DEF SeenSince
    <3>1. src[k] \in Item /\ between \in Nat
      BY StepsFacts DEF Sound, TypeOK
    <3>2. src[k].left \in Nat
      BY <3>1, MigrateAssumption DEF Item
    <3> QED  BY <3>1, <3>2 DEF Since
  <2> QED  BY <2>1, <2>2 DEF CopiedInv
<1>4. CASE PlanStep
  BY <1>4, PlanCopied
<1>5. ASSUME phase' = "idle", ended' = "failed", seen' = NoPlan PROVE CopiedInv'
  BY <1>5 DEF CopiedInv
<1>6. ASSUME NEW k \in Keys, BeginWrite(k) PROVE CopiedInv'
  <2>1. CASE Refuses(k)
    BY <1>5, <1>6, <2>1 DEF BeginWrite, End
  <2>2. CASE ~Refuses(k)
    BY <1>6, <2>2 DEF BeginWrite, CopiedInv
  <2> QED  BY <2>1, <2>2
<1>7. ASSUME NEW c \in Cell, Call(c) PROVE CopiedInv'
  <2>1. /\ phase = "copy" /\ ended = "none"
        /\ UNCHANGED <<src, phase, at, seen, opt, report, ended, lapsed, between>>
    BY <1>7 DEF Call, KeptInv, Running
  <2> QED  BY <2>1 DEF CopiedInv
<1>8. CASE StepCopied
  <2>1. /\ phase = "copy" /\ phase' \in {"copy", "verify"} /\ seen = NoPlan /\ ended = "none"
        /\ phase' = "verify" => at' = 1
        /\ UNCHANGED <<src, dst, seen, opt, report, ended, lapsed, between>>
    BY <1>8 DEF StepCopied, KeptInv, Running, Sound, Resting
  <2> QED  BY <2>1 DEF CopiedInv
<1>9. CASE VerifyStep
  BY <1>9, VerifyCopied
<1>10. CASE Fail
  BY <1>5, <1>10 DEF Fail, End
<1>11. CASE Tick
  BY <1>11, TickCopied
<1>12. ASSUME NEW k \in Links, FinishClaim(k) PROVE CopiedInv'
  <2>1. /\ phase = "plan" /\ at = 1 /\ UNCHANGED runVars /\ UNCHANGED <<lapsed, between>>
        /\ seen = NoPlan \/ UNCHANGED src
    BY <1>12, FinishFacts
  <2>2. ended = "none"
    BY <2>1 DEF KeptInv, Running
  <2> QED  BY <2>1, <2>2 DEF runVars, CopiedInv
<1> QED  BY <1>1, <1>2, <1>3, <1>4, <1>6, <1>7, <1>8, <1>9, <1>10, <1>11, <1>12 DEF Next

\* After a run that wrote and ended well the destination holds what the source
\* lists, whatever earlier runs left half done: what verify compared is a copy,
\* and stays one until it runs out (Run, verify).
THEOREM OkMeansCopiedHolds == Spec => []OkMeansCopied
<1>1. Spec => [](Sound /\ KeptInv /\ CopiedInv)
  BY InitSound, SoundStep, InitKept, KeptStep, InitCopied, CopiedStep, PTL DEF Spec
<1>2. CopiedInv => OkMeansCopied
  BY DEF CopiedInv, Compared, Clean, OkMeansCopied, CopyOf
<1> QED  BY <1>1, <1>2, PTL

-----------------------------------------------------------------------------
(* Why a copy may not verify. *)

\* A key's cells: one a slot, of the key's slots.
Shape(k, cells) ==
  /\ \A c, d \in cells : c[1] = d[1] => c = d
  /\ \A c \in cells : c[1] \in Slots(k)

\* Whatever is held, read or planned has its key's shape, only the issuer's
\* records and the gates run out, and a call puts only what was planned.
Shaped ==
  /\ \A k \in Keys : /\ Shape(k, src[k].cells) /\ Shape(k, dst[k].cells)
                     /\ k \notin Lifetimes \cup Gates => dst[k].left = 0
                     /\ plan[k] # NoPlan => Shape(k, plan[k].e.cells)
  /\ seen # NoPlan => \A k \in Steps[at] : Shape(k, seen[k].cells)
  /\ calls # NoPlan => calls.put \subseteq plan[calls.key].e.cells

\* What the run has to copy: a set without a lifetime is given one in passing.
Wanted(k, item) == Readable(k, item) /\ (k \in Sets => item.left > 0)

\* The destination holds all the cells, and of a set no other; or it ran out.
Landed(k, cells) ==
  \/ cells \subseteq dst[k].cells /\ (k \in Sets => dst[k].cells \subseteq cells)
  \/ dst[k] = Gone /\ k \in lapsed

\* The item under way: the surplus is taken out first, and what has been put
\* since is there, and is there for as long as the source's.
UnderWay(k) ==
  /\ calls.remove # {} => calls.put = plan[k].e.cells
  /\ plan[k].e.cells \ calls.put \subseteq dst[k].cells
  /\ k \in Sets => dst[k].cells \subseteq plan[k].e.cells \cup calls.remove
  /\ k \in Sets /\ calls.put # plan[k].e.cells => src[k].left <= dst[k].left
  /\ k \in Tokens \cup Records => calls.put = plan[k].e.cells

\* Every key to be copied is planned by what the source still holds, and is where
\* its plan says.
OnPlan ==
  \A k \in Keys :
    (phase = "copy" \/ (phase = "plan" /\ Passed(k))) /\ Wanted(k, src[k]) =>
      /\ plan[k] # NoPlan
      /\ Since(plan[k].e, src[k])
      /\ plan[k].action \in {"present", "copied"} => Landed(k, src[k].cells)
      /\ calls # NoPlan /\ calls.key = k => UnderWay(k)
      /\ plan[k].action \in {"new", "replace"} /\ k \in Sets =>
           dst[k].cells \subseteq plan[k].old \/ (calls # NoPlan /\ calls.key = k)

\* A step is left when all of it is written.
StepsDone ==
  phase = "copy" => \A k \in Keys :
    Passed(k) /\ plan[k] # NoPlan => plan[k].action \in {"present", "copied"}

\* Until a key is compared it stays where the copy left it.
Arrived ==
  phase = "verify" =>
    /\ \A k \in Keys : ~Passed(k) /\ Wanted(k, src[k]) => Landed(k, src[k].cells)
    /\ \A k \in Steps[at] : seen # NoPlan /\ Wanted(k, seen[k]) => Landed(k, seen[k].cells)

ExplainedInv == Shaped /\ OnPlan /\ StepsDone /\ Arrived

\* No key is in two steps.
LEMMA StepsApart == \A i, j \in 1 .. 3 : \A k \in Steps[i] : k \in Steps[j] => i = j
<1>1. /\ Steps[1] = Workspaces \cup Records /\ Steps[2] = Tokens /\ Steps[3] = Sets
  BY DEF Steps
<1> QED  BY <1>1, MigrateAssumption

\* Nothing has been planned before the start.
LEMMA InitExplained == Init => ExplainedInv
<1> SUFFICES ASSUME Init PROVE ExplainedInv
  OBVIOUS
<1>1. ASSUME NEW k \in Keys, NEW x, NEW vs, NEW lefts, x \in Held(k, vs, lefts)
      PROVE  Shape(k, x.cells) /\ (k \notin Lifetimes \cup Gates => x.left = 0)
  <2>1. CASE x = Gone
    BY <2>1 DEF Gone, Shape
  <2>2. CASE x # Gone
    <3>1. x.cells \in Cells(k, vs) /\ (k \notin Lifetimes \cup Gates => x.left = 0)
      BY <1>1, <2>2 DEF Held
    <3> QED  BY <3>1 DEF Cells, Shape
  <2> QED  BY <2>1, <2>2
<1>2. Shaped
  BY <1>1 DEF Init, Unstarted, Shaped
<1> QED  BY <1>2 DEF Init, Unstarted, ExplainedInv, OnPlan, StepsDone, Arrived

\* One tick at the destination: an item keeps its cells, or is gone and noted.
LEMMA DstTick ==
  ASSUME Sound, Tick, NEW k \in Keys
  PROVE  /\ dst[k].left \in Nat
         /\ \/ dst[k].left # 1 /\ dst'[k].cells = dst[k].cells
            \/ dst[k].left = 1 /\ dst'[k] = Gone /\ dst'[k].cells = {} /\ k \in lapsed'
         /\ dst[k].left = 0 => dst'[k].left = 0
         /\ dst[k].left > 1 => dst'[k].left = dst[k].left - 1
<1>1. dst[k] \in Item /\ dst'[k] = Older(dst[k]) /\ lapsed' = lapsed \cup {j \in Keys : dst[j].left = 1}
  BY DEF Sound, TypeOK, Tick
<1>2. dst[k].left \in Nat
  BY <1>1, MigrateAssumption DEF Item
<1>3. CASE dst[k].left = 0
  BY <1>1, <1>2, <1>3, OlderFacts
<1>4. CASE dst[k].left = 1
  BY <1>1, <1>2, <1>4, OlderFacts
<1>5. CASE dst[k].left > 1
  BY <1>1, <1>2, <1>5, OlderFacts
<1> QED  BY <1>2, <1>3, <1>4, <1>5

\* What has landed stays, or is known to have run out.
LEMMA LandedTick ==
  ASSUME Sound, Tick, NEW k \in Keys, NEW cells, Landed(k, cells)
  PROVE  Landed(k, cells)'
<1>1. CASE dst[k] = Gone
  <2>1. Gone.left = 0 /\ Gone.cells = {}
    BY DEF Gone
  <2>2. dst'[k] = Older(dst[k]) /\ dst[k] \in Item /\ lapsed \subseteq lapsed'
    BY DEF Sound, TypeOK, Tick
  <2>3. dst'[k] = Gone
    BY <1>1, <2>1, <2>2, OlderFacts
  <2> QED  BY <1>1, <2>2, <2>3 DEF Landed
<1>2. CASE dst[k] # Gone
  BY <1>2, DstTick DEF Landed
<1> QED  BY <1>1, <1>2

\* What is wanted after a tick was wanted before, with the same cells.
LEMMA WantedTick ==
  ASSUME Sound, Tick, NEW k \in Keys, Wanted(k, src'[k])
  PROVE  /\ Wanted(k, src[k]) /\ src'[k].cells = src[k].cells
         /\ src[k].left \in Nat /\ src'[k].left \in Nat
         /\ src[k].left > 0 => src'[k].left = src[k].left - 1 /\ src'[k].left > 0
<1>1. src[k] \in Item /\ src'[k] = Older(src[k]) /\ Listed(k, src'[k])
  BY DEF Sound, TypeOK, Tick, Wanted, Readable
<1>2. src[k].left \in Nat /\ src'[k].left \in Nat
  BY <1>1, OlderFacts, MigrateAssumption DEF Item
<1>3. /\ src'[k].cells = src[k].cells /\ Listed(k, src[k]) /\ Unreadable(src'[k]) = Unreadable(src[k])
      /\ src[k].left > 0 => src'[k].left = src[k].left - 1 /\ src'[k].left > 0
  BY <1>1, ListedOlder
<1>4. src[k].left = 0 => src'[k].left = 0
  BY <1>1, OlderFacts
<1>5. ~Unreadable(src'[k]) /\ (k \in Sets => src'[k].left > 0)
  BY DEF Wanted, Readable
<1> QED  BY <1>2, <1>3, <1>4, <1>5 DEF Wanted, Readable

\* One call keeps the shape of the item it writes (Workspaces.Put, Index.Add).
LEMMA CalledShape ==
  ASSUME Sound, Shaped, calls # NoPlan, NEW c \in NextCalls
  PROVE  /\ Shape(calls.key, Called(c).cells)
         /\ calls.key \notin Lifetimes \cup Gates => Called(c).left = 0
<1> DEFINE k == calls.key
           kept == {d \in dst[k].cells : d[1] # c[1]}
<1>1. /\ k \in Keys /\ plan[k] # NoPlan /\ dst[k] \in Item
      /\ Shape(k, dst[k].cells) /\ Shape(k, plan[k].e.cells) /\ calls.put \subseteq plan[k].e.cells
      /\ k \notin Lifetimes \cup Gates => dst[k].left = 0
  BY DEF Sound, Writing, TypeOK, Shaped, CallsLeft
<1>2. Shape(k, kept) /\ Gone.left = 0 /\ Gone.cells = {} /\ Shape(k, {})
  BY <1>1 DEF Shape, Gone
<1>3. CASE c \in calls.remove /\ kept = {}
  BY <1>2, <1>3 DEF Called
<1>4. CASE c \in calls.remove /\ kept # {}
  <2>1. Called(c).cells = kept /\ Called(c).left = dst[k].left
    BY <1>1, <1>4 DEF Called, Item
  <2> QED  BY <1>1, <1>2, <2>1
<1>5. CASE c \notin calls.remove
  <2>1. c \in calls.put
    BY <1>5 DEF NextCalls
  <2>2. c[1] \in Slots(k)
    BY <1>1, <2>1 DEF Shape
  <2>3. Called(c).cells = kept \cup {c} /\ (k \notin Lifetimes \cup Gates => Called(c).left = 0)
    BY <1>5 DEF Called
  <2>4. Shape(k, kept \cup {c})
    BY <1>2, <2>2 DEF Shape
  <2> QED  BY <2>3, <2>4
<1> QED  BY <1>3, <1>4, <1>5

\* The plan names each record of the source once, and is followed in order (Plan, Apply).
LEMMA ShapedStep == Sound /\ Shaped /\ [Next]_vars => Shaped'
<1> SUFFICES ASSUME Sound, Shaped, [Next]_vars PROVE Shaped'
  OBVIOUS
<1>0. \A k : Shape(k, {})
  BY DEF Shape
<1>1. CASE UNCHANGED vars
  BY <1>1 DEF vars, Shaped
<1>2. ASSUME NEW dry \in BOOLEAN, NEW overwrite \in BOOLEAN, Begin(dry, overwrite) PROVE Shaped'
  BY <1>2 DEF Begin, Shaped, Sound, Resting
<1>3. CASE ReadSource
  BY <1>3, StepsFacts DEF ReadSource, Shaped, Sound, TypeOK
<1>4. CASE PlanStep
  <2>1. /\ UNCHANGED <<src, dst>> /\ seen' = NoPlan /\ calls = NoPlan /\ calls' = NoPlan
        /\ \/ plan' = Planned
           \/ plan' = [k \in Keys |-> NoPlan]
        /\ seen # NoPlan
    BY <1>4 DEF PlanStep, End, Sound, Writing
  <2>2. ASSUME NEW k \in Keys, Planned[k] # NoPlan PROVE Shape(k, Planned[k].e.cells)
    <3>1. CASE k \in Steps[at] /\ Readable(k, seen[k])
      <4>1. Planned[k].e = seen[k]
        BY <3>1 DEF Planned
      <4> QED  BY <2>1, <3>1, <4>1 DEF Shaped
    <3>2. CASE ~(k \in Steps[at] /\ Readable(k, seen[k]))
      <4>1. Planned[k] = plan[k]
        BY <3>2 DEF Planned
      <4> QED  BY <2>2, <4>1 DEF Shaped
    <3> QED  BY <3>1, <3>2
  <2> QED  BY <2>1, <2>2 DEF Shaped
<1>5. ASSUME NEW k \in Keys, BeginWrite(k) PROVE Shaped'
  <2>1. CASE Refuses(k)
    <3>1. /\ UNCHANGED <<src, dst>> /\ seen' = NoPlan /\ calls' = NoPlan
          /\ plan' = [j \in Keys |-> NoPlan]
      BY <1>5, <2>1 DEF BeginWrite, End
    <3> QED  BY <3>1 DEF Shaped
  <2>2. CASE ~Refuses(k)
    <3>1. Calls(k).put = plan[k].e.cells /\ Calls(k).key = k
      BY DEF Calls
    <3>2. /\ UNCHANGED <<src, dst, plan, seen, at>> /\ calls' = Calls(k)
      BY <1>5, <2>2 DEF BeginWrite
    <3> QED  BY <3>1, <3>2 DEF Shaped
  <2> QED  BY <2>1, <2>2
<1>6. ASSUME NEW c \in Cell, Call(c) PROVE Shaped'
  <2>1. /\ calls # NoPlan /\ c \in NextCalls /\ dst' = [dst EXCEPT ![calls.key] = Called(c)]
        /\ UNCHANGED <<src, seen, at>> /\ calls.key \in Keys
        /\ plan[calls.key] \in PlannedItem
        /\ calls \in CallsLeft
    BY <1>6 DEF Call, Sound, Writing, TypeOK, CallsLeft
  <2>2. \A k \in Keys : Shape(k, dst'[k].cells) /\ (k \notin Lifetimes \cup Gates => dst'[k].left = 0)
    <3>1. dst \in [Keys -> Item]
      BY DEF Sound, TypeOK
    <3> QED  BY <2>1, <3>1, CalledShape DEF Shaped
  <2>3. \A k \in Keys : plan'[k] = plan[k] \/ (plan'[k].e = plan[k].e /\ plan[k] # NoPlan)
    <3>1. plan' = plan \/ plan' = [plan EXCEPT ![calls.key] = [plan[calls.key] EXCEPT !.action = "copied"]]
      BY <1>6 DEF Call
    <3>2. plan \in [Keys -> {NoPlan} \cup PlannedItem] /\ plan[calls.key] # NoPlan
      BY <2>1 DEF Sound, TypeOK, Writing
    <3> QED  BY <2>1, <3>1, <3>2 DEF PlannedItem
  <2>4. calls' = NoPlan \/ (calls'.key = calls.key /\ calls'.put \subseteq calls.put /\ plan' = plan)
    BY <1>6, <2>1 DEF Call, CallsLeft
  <2> QED  BY <2>1, <2>2, <2>3, <2>4 DEF Shaped
<1>7. CASE StepCopied
  BY <1>7 DEF StepCopied, Shaped, Sound, Resting
<1>8. CASE VerifyStep
  <2>1. /\ UNCHANGED <<src, dst>> /\ seen' = NoPlan /\ calls = NoPlan /\ calls' = NoPlan
        /\ plan' = plan \/ plan' = [k \in Keys |-> NoPlan]
    BY <1>8 DEF VerifyStep, End, Sound, Writing
  <2> QED  BY <2>1 DEF Shaped
<1>9. CASE Fail
  <2>1. /\ UNCHANGED src /\ seen' = NoPlan /\ calls' = NoPlan /\ plan' = [k \in Keys |-> NoPlan]
    BY <1>9 DEF Fail, End
  <2>2. \A k \in Keys : Shape(k, dst'[k].cells) /\ (k \notin Lifetimes \cup Gates => dst'[k].left = 0)
    <3>1. CASE UNCHANGED dst
      BY <3>1 DEF Shaped
    <3>2. ASSUME calls # NoPlan, NEW c \in NextCalls, dst' = [dst EXCEPT ![calls.key] = Called(c)]
          PROVE  <2>2!:
      <4>1. dst \in [Keys -> Item]
        BY DEF Sound, TypeOK
      <4> QED  BY <3>2, <4>1, CalledShape DEF Shaped
    <3> QED  BY <1>9, <3>1, <3>2 DEF Fail
  <2> QED  BY <2>1, <2>2 DEF Shaped
<1>10. CASE Tick
  <2>1. ASSUME NEW k \in Keys
        PROVE  /\ Shape(k, src'[k].cells) /\ Shape(k, dst'[k].cells)
               /\ k \notin Lifetimes \cup Gates => dst'[k].left = 0
    <3>1. src'[k] = Older(src[k]) /\ src[k] \in Item
      BY <1>10 DEF Sound, TypeOK, Tick
    <3>2. src'[k].cells = {} \/ src'[k].cells = src[k].cells
      BY <3>1, OlderFacts
    <3>3. /\ Shape(k, src[k].cells) /\ Shape(k, dst[k].cells)
          /\ k \notin Lifetimes \cup Gates => dst[k].left = 0
      BY DEF Shaped
    <3>4. dst'[k].cells = {} \/ dst'[k].cells = dst[k].cells
      BY <1>10, DstTick
    <3> QED  BY <1>0, <1>10, <3>2, <3>3, <3>4, DstTick
  <2>2. UNCHANGED <<plan, seen, at, calls>>
    BY <1>10 DEF Tick, runVars
  <2> QED  BY <2>1, <2>2 DEF Shaped
<1>11. ASSUME NEW k \in Links, FinishClaim(k) PROVE Shaped'
  <2>1. /\ plan = [j \in Keys |-> NoPlan] /\ calls = NoPlan /\ UNCHANGED runVars
    BY <1>11, FinishFacts
  <2>2. PICK v \in Values :
          \/ seen = NoPlan /\ src' = Narrowed(src, k, v) /\ UNCHANGED <<dst, held>>
          \/ dst' = Narrowed(dst, k, v) /\ held' = Narrowed(held, k, v) /\ UNCHANGED src
    BY Zenon, <1>11, FinishFacts
  <2>3. src \in [Keys -> Item] /\ dst \in [Keys -> Item]
    BY DEF Sound, TypeOK
  <2>4. Shape(k, {<<"value", v>>})
    BY NarrowedFacts, <2>3 DEF Shape
  <2>5. \A j \in Keys :
          /\ src'[j].cells = src[j].cells \/ (j = k /\ src'[j].cells = {<<"value", v>>})
          /\ dst'[j].cells = dst[j].cells \/ (j = k /\ dst'[j].cells = {<<"value", v>>})
          /\ dst'[j].left = dst[j].left
    BY <2>2, <2>3, NarrowedFacts
  <2> QED  BY <2>1, <2>4, <2>5 DEF Shaped, runVars
<1> QED  BY <1>1, <1>2, <1>3, <1>4, <1>5, <1>6, <1>7, <1>8, <1>9, <1>10, <1>11 DEF Next

\* Time does not take what was put before the source's own runs out.
LEMMA TickExplained == Sound /\ ExplainedInv /\ Tick => OnPlan' /\ StepsDone' /\ Arrived'
<1> SUFFICES ASSUME Sound, ExplainedInv, Tick PROVE OnPlan' /\ StepsDone' /\ Arrived'
  OBVIOUS
<1>1. UNCHANGED <<phase, at, seen, plan, calls>>
  BY DEF Tick, runVars
<1>2. OnPlan'
  <2> SUFFICES ASSUME NEW k \in Keys, phase = "copy" \/ (phase = "plan" /\ Passed(k)), Wanted(k, src'[k])
               PROVE  /\ plan[k] # NoPlan
                      /\ Since(plan[k].e, src'[k])
                      /\ plan[k].action \in {"present", "copied"} => Landed(k, src[k].cells)'
                      /\ calls # NoPlan /\ calls.key = k => UnderWay(k)'
                      /\ plan[k].action \in {"new", "replace"} /\ k \in Sets =>
                           dst'[k].cells \subseteq plan[k].old \/ (calls # NoPlan /\ calls.key = k)
    BY <1>1 DEF OnPlan, Passed, Landed
  <2>1. /\ Wanted(k, src[k]) /\ src'[k].cells = src[k].cells
        /\ src[k].left \in Nat /\ src'[k].left \in Nat
        /\ src[k].left > 0 => src'[k].left = src[k].left - 1 /\ src'[k].left > 0
    BY WantedTick
  <2>2. /\ plan[k] # NoPlan
        /\ Since(plan[k].e, src[k])
        /\ plan[k].action \in {"present", "copied"} => Landed(k, src[k].cells)
        /\ calls # NoPlan /\ calls.key = k => UnderWay(k)
        /\ plan[k].action \in {"new", "replace"} /\ k \in Sets =>
             dst[k].cells \subseteq plan[k].old \/ (calls # NoPlan /\ calls.key = k)
    BY <2>1 DEF ExplainedInv, OnPlan
  <2>3. plan[k].e \in Item /\ src[k] \in Item /\ src'[k] = Older(src[k])
    <3>1. plan[k] \in PlannedItem
      BY <2>2 DEF Sound, TypeOK
    <3> QED  BY <3>1 DEF Sound, TypeOK, PlannedItem, Tick
  <2>4. Since(plan[k].e, src'[k])
    BY <2>2, <2>3, SinceFacts
  <2>5. plan[k].action \in {"present", "copied"} => Landed(k, src[k].cells)'
    <3> SUFFICES ASSUME Landed(k, src[k].cells) PROVE Landed(k, src[k].cells)'
      BY <2>2
    <3>1. PICK cells : cells = src[k].cells
      OBVIOUS
    <3>2. Landed(k, cells)'
      BY <3>1, LandedTick
    <3> QED  BY <2>1, <3>1, <3>2 DEF Landed
  <2>6. dst'[k].cells \subseteq dst[k].cells
    BY DstTick
  <2>7. ASSUME calls # NoPlan, calls.key = k PROVE UnderWay(k)'
    <3>1. UnderWay(k)
      BY <2>2, <2>7
    <3>2. k \in Sets => src[k].left > 0
      BY <2>1 DEF Wanted
    <3>3. k \notin Lifetimes \cup Gates => dst[k].left = 0
      BY DEF ExplainedInv, Shaped
    <3>4. CASE dst[k].left # 1
      <4>1. dst'[k].cells = dst[k].cells /\ dst[k].left \in Nat
            /\ (dst[k].left = 0 => dst'[k].left = 0) /\ (dst[k].left > 1 => dst'[k].left = dst[k].left - 1)
        BY <3>4, DstTick
      <4>2. k \in Sets /\ src[k].left <= dst[k].left => src'[k].left <= dst'[k].left
        BY <2>1, <3>2, <4>1
      <4> QED  BY <1>1, <3>1, <4>1, <4>2 DEF UnderWay
    <3>5. CASE dst[k].left = 1
      <4>1. calls.put = plan[k].e.cells
        <5>1. k \in Tokens \cup Records \/ k \in Sets
          BY <3>3, <3>5, MigrateAssumption DEF Lifetimes
        <5>2. k \in Sets => ~(src[k].left <= dst[k].left)
          BY <2>1, <3>2, <3>5
        <5> QED  BY <3>1, <5>1, <5>2 DEF UnderWay
      <4>2. dst'[k].cells = {}
        BY <3>5, DstTick
      <4> QED  BY <1>1, <3>1, <4>1, <4>2 DEF UnderWay
    <3> QED  BY <3>4, <3>5
  <2> QED  BY <2>2, <2>4, <2>5, <2>6, <2>7
<1>3. StepsDone'
  BY <1>1 DEF ExplainedInv, StepsDone, Passed
<1>4. Arrived'
  <2>1. ASSUME phase = "verify", NEW k \in Keys, ~Passed(k), Wanted(k, src'[k])
        PROVE  Landed(k, src[k].cells)'
    <3>1. Wanted(k, src[k]) /\ src'[k].cells = src[k].cells
      BY <2>1, WantedTick
    <3>2. PICK cells : cells = src[k].cells
      OBVIOUS
    <3>3. Landed(k, cells)
      BY <2>1, <3>1, <3>2 DEF ExplainedInv, Arrived
    <3>4. Landed(k, cells)'
      BY <3>3, LandedTick
    <3> QED  BY <3>1, <3>2, <3>4 DEF Landed
  <2>2. ASSUME phase = "verify", NEW k \in Steps[at], seen # NoPlan, Wanted(k, seen[k])
        PROVE  Landed(k, seen[k].cells)'
    <3>1. PICK cells : cells = seen[k].cells
      OBVIOUS
    <3>2. Landed(k, cells) /\ k \in Keys
      BY <2>2, <3>1, StepsFacts DEF ExplainedInv, Arrived, Sound, TypeOK
    <3>3. Landed(k, cells)'
      BY <3>2, LandedTick
    <3> QED  BY <1>1, <3>1, <3>3 DEF Landed
  <2> QED  BY <1>1, <2>1, <2>2 DEF Arrived, Passed, Landed
<1> QED  BY <1>2, <1>3, <1>4

\* A step's plan follows what the destination holds (run.plan).
LEMMA PlanExplained == Sound /\ CopiedInv /\ ExplainedInv /\ PlanStep => OnPlan' /\ StepsDone' /\ Arrived'
<1> SUFFICES ASSUME Sound, CopiedInv, ExplainedInv, PlanStep PROVE OnPlan' /\ StepsDone' /\ Arrived'
  OBVIOUS
<1>1. /\ phase = "plan" /\ seen # NoPlan /\ calls = NoPlan /\ calls' = NoPlan /\ at \in 1 .. 3
      /\ UNCHANGED <<src, dst, lapsed>> /\ seen' = NoPlan
  BY StepsFacts DEF PlanStep, End, Sound, Writing, TypeOK
<1>2. ASSUME NEW k \in Keys, Passed(k) \/ k \in Steps[at], Wanted(k, src[k])
      PROVE  /\ Planned[k] # NoPlan
             /\ Since(Planned[k].e, src[k])
             /\ Planned[k].action \in {"present", "copied"} => Landed(k, src[k].cells)
             /\ Planned[k].action \in {"new", "replace"} /\ k \in Sets => dst[k].cells \subseteq Planned[k].old
  <2>1. CASE k \in Steps[at]
    <3>1. seen[k] \in Item /\ src[k] \in Item /\ Since(seen[k], src[k]) /\ dst[k] \in Item
      BY <1>1, <2>1 DEF Sound, TypeOK, CopiedInv, SeenSince
    <3>2. Readable(k, seen[k]) /\ seen[k].cells = src[k].cells
      BY <1>2, <3>1, SinceFacts DEF Wanted, Readable
    <3>3. Planned[k] = [action |-> Action(k, seen[k], dst[k]), e |-> seen[k],
                        old |-> IF Listed(k, dst[k]) THEN dst[k].cells ELSE {}]
      BY <2>1, <3>2 DEF Planned
    <3>4. Planned[k] # NoPlan
      <4>1. Action(k, seen[k], dst[k]) \in {"new", "present", "replace", "copied"}
        BY DEF Action
      <4>2. (IF Listed(k, dst[k]) THEN dst[k].cells ELSE {}) \in SUBSET Cell
        BY <3>1 DEF Item
      <4>3. Planned[k] \in PlannedItem
        BY <3>1, <3>3, <4>1, <4>2 DEF PlannedItem
      <4> QED  BY <4>3, NoPlanAssumption
    <3>5. Planned[k].action \in {"present", "copied"} => dst[k].cells = seen[k].cells
      BY <3>3 DEF Action
    <3>6. k \in Sets => dst[k].cells \subseteq Planned[k].old
      BY <3>3, MigrateAssumption DEF Listed
    <3> QED  BY <3>1, <3>2, <3>3, <3>4, <3>5, <3>6 DEF Landed
  <2>2. CASE k \notin Steps[at]
    <3>1. Planned[k] = plan[k] /\ Passed(k)
      BY <1>2, <2>2 DEF Planned
    <3> QED  BY <1>1, <1>2, <3>1 DEF ExplainedInv, OnPlan
  <2> QED  BY <2>1, <2>2
<1>3. \A k \in Keys : \A cells : Landed(k, cells)' = Landed(k, cells)
  BY <1>1 DEF Landed
<1>4. CASE phase' = "plan" /\ at' = at + 1 /\ plan' = Planned
  <2>1. \A k \in Keys : Passed(k)' => Passed(k) \/ k \in Steps[at]
    BY <1>1, <1>4 DEF Passed
  <2>2. OnPlan'
    BY <1>1, <1>2, <1>4, <2>1 DEF OnPlan, Landed
  <2> QED  BY <1>4, <2>2 DEF StepsDone, Arrived
<1>5. CASE phase' = "copy" /\ at = 3 /\ at' = 1 /\ plan' = Planned
  <2>1. \A k \in Keys : Passed(k) \/ k \in Steps[at]
    BY <1>5, StepsFacts DEF Passed
  <2>2. OnPlan'
    BY <1>1, <1>2, <1>5, <2>1 DEF OnPlan, Landed
  <2>3. StepsDone' /\ Arrived'
    BY <1>5 DEF StepsDone, Arrived, Passed
  <2> QED  BY <2>2, <2>3
<1>6. CASE phase' = "idle"
  BY <1>6 DEF OnPlan, StepsDone, Arrived
<1>7. \/ phase' = "plan" /\ at' = at + 1 /\ plan' = Planned
      \/ phase' = "copy" /\ at = 3 /\ at' = 1 /\ plan' = Planned
      \/ phase' = "idle"
  BY <1>1, StepsFacts DEF PlanStep, End
<1> QED  BY <1>4, <1>5, <1>6, <1>7

\* A call brings the item under way nearer to its copy, and the last one ends it
\* (putWorkspace, the set step's write).
LEMMA CallExplained ==
  ASSUME Sound, ExplainedInv, NEW c \in Cell, Call(c)
  PROVE  OnPlan' /\ StepsDone' /\ Arrived'
<1> DEFINE left == [calls EXCEPT !.remove = @ \ {c}, !.put = IF c \in calls.remove THEN @ ELSE @ \ {c}]
<1>1. PICK h : h = calls.key
  OBVIOUS
<1>2. /\ phase = "copy" /\ calls # NoPlan /\ c \in NextCalls /\ h \in Keys
      /\ UNCHANGED <<src, phase, at, seen, lapsed>>
      /\ plan[h] # NoPlan /\ plan[h] \in PlannedItem /\ plan[h].e \in Item /\ dst[h] \in Item
      /\ plan[h].action \in {"new", "replace"}
      /\ dst' = [dst EXCEPT ![h] = Called(c)] /\ dst \in [Keys -> Item]
      /\ calls \in CallsLeft
  BY <1>1 DEF Call, Sound, Writing, TypeOK, PlannedItem, CallsLeft
<1>3. /\ left.key = h /\ left.remove = calls.remove \ {c}
      /\ left.put = IF c \in calls.remove THEN calls.put ELSE calls.put \ {c}
  BY <1>1, <1>2
<1>4. \/ /\ left.remove \cup left.put = {} /\ calls' = NoPlan
         /\ plan' = [plan EXCEPT ![h] = [plan[h] EXCEPT !.action = "copied"]]
      \/ left.remove \cup left.put # {} /\ calls' = left /\ plan' = plan
  BY <1>1 DEF Call
<1>5. /\ plan'[h].e = plan[h].e
      /\ \A k \in Keys : k # h => plan'[k] = plan[k] /\ dst'[k] = dst[k]
      /\ dst'[h] = Called(c)
      /\ calls' # NoPlan => calls'.key = h /\ plan' = plan /\ calls'.remove = left.remove /\ calls'.put = left.put
      /\ calls' = NoPlan => plan'[h].action = "copied" /\ left.remove \cup left.put = {}
      /\ plan'[h] \in PlannedItem
  <2>1. plan \in [Keys -> {NoPlan} \cup PlannedItem]
    BY DEF Sound, TypeOK
  <2>2. [plan[h] EXCEPT !.action = "copied"] \in PlannedItem
        /\ [plan[h] EXCEPT !.action = "copied"].e = plan[h].e
        /\ [plan[h] EXCEPT !.action = "copied"].action = "copied"
    BY <1>2 DEF PlannedItem
  <2>3. left # NoPlan
    <3>1. left \in CallsLeft
      BY <1>2 DEF CallsLeft
    <3> QED  BY <3>1, NoPlanAssumption
  <2> HIDE DEF left
  <2> QED  BY <1>2, <1>3, <1>4, <2>1, <2>2, <2>3
<1> HIDE DEF left
<1>6. ASSUME Wanted(h, src[h])
      PROVE  /\ calls' = NoPlan => Landed(h, src[h].cells)'
             /\ calls' # NoPlan => UnderWay(h)'
             /\ Since(plan[h].e, src[h])
  <2>1. /\ UnderWay(h) /\ Since(plan[h].e, src[h])
        /\ Shape(h, plan[h].e.cells) /\ calls.put \subseteq plan[h].e.cells
    BY <1>1, <1>2, <1>6 DEF ExplainedInv, OnPlan, Shaped
  <2>2. /\ plan[h].e.cells = src[h].cells /\ plan[h].e.cells # {}
        /\ src[h].left <= plan[h].e.left /\ (src[h].left = 0) = (plan[h].e.left = 0)
        /\ src[h].left \in Nat /\ plan[h].e.left \in Nat
    <3>1. src[h] \in Item /\ Listed(h, src[h])
      BY <1>2, <1>6 DEF Sound, TypeOK, Wanted, Readable
    <3>2. src[h].left \in Nat /\ plan[h].e.left \in Nat
      BY <1>2, <3>1, MigrateAssumption DEF Item
    <3>3. Listed(h, plan[h].e)
      BY <1>2, <2>1, <3>1, SinceFacts
    <3>4. plan[h].e.cells # {}
      BY <3>3 DEF Listed
    <3> QED  BY <1>2, <2>1, <3>1, <3>2, <3>4, SinceFacts
  <2> DEFINE kept == {d \in dst[h].cells : d[1] # c[1]}
  <2>3. CASE c \in calls.remove
    <3>1. calls.put = plan[h].e.cells /\ left.put = calls.put /\ calls' # NoPlan
      BY <1>3, <1>5, <2>1, <2>2, <2>3 DEF UnderWay
    <3>2. Called(c).cells = kept
      <4>1. CASE kept = {}
        BY <1>1, <2>3, <4>1 DEF Called, Gone
      <4>2. CASE kept # {}
        BY <1>1, <1>2, <2>3, <4>2 DEF Called, Item
      <4> QED  BY <4>1, <4>2
    <3>3. h \in Sets => dst'[h].cells \subseteq plan[h].e.cells \cup left.remove
      BY <1>3, <1>5, <2>1, <3>2 DEF UnderWay
    <3>4. UnderWay(h)'
      BY <1>5, <3>1, <3>3 DEF UnderWay
    <3> QED  BY <2>1, <3>1, <3>4
  <2>4. CASE c \notin calls.remove
    <3>1. calls.remove = {} /\ c \in calls.put /\ left.remove = {} /\ left.put = calls.put \ {c}
      BY <1>2, <1>3, <2>4 DEF NextCalls
    <3>2. /\ Called(c).cells = kept \cup {c}
          /\ h \in Lifetimes => Called(c).left = TtlOrDay(plan[h].e.left)
      BY <1>1, <2>4, MigrateAssumption DEF Called, Lifetimes
    <3>3. plan[h].e.cells \ left.put \subseteq dst'[h].cells
      <4> SUFFICES ASSUME NEW d \in plan[h].e.cells, d \notin left.put, d # c
                   PROVE  d \in kept
        BY <1>5, <3>2
      <4>1. d \in dst[h].cells
        BY <2>1, <3>1 DEF UnderWay
      <4>2. d[1] # c[1]
        BY <2>1, <3>1 DEF Shape
      <4> QED  BY <4>1, <4>2
    <3>4. h \in Sets => dst'[h].cells \subseteq plan[h].e.cells
      BY <1>5, <2>1, <3>1, <3>2 DEF UnderWay
    <3>5. h \in Sets => src[h].left <= dst'[h].left
      <4> SUFFICES ASSUME h \in Sets PROVE src[h].left <= dst'[h].left
        OBVIOUS
      <4>1. src[h].left > 0 /\ plan[h].e.left > 0
        BY <1>6, <2>2 DEF Wanted
      <4>2. dst'[h].left = plan[h].e.left
        BY <1>5, <3>2, <4>1 DEF TtlOrDay, Lifetimes
      <4> QED  BY <2>2, <4>2
    <3>6. h \in Tokens \cup Records => left.put = {}
      <4> SUFFICES ASSUME h \in Tokens \cup Records, NEW d \in calls.put, d # c PROVE FALSE
        BY <3>1
      <4>1. Slots(h) = {"value"}
        BY MigrateAssumption DEF Slots
      <4>2. d \in plan[h].e.cells /\ c \in plan[h].e.cells
        BY <2>1, <3>1
      <4>3. d[1] = "value" /\ c[1] = "value"
        BY <2>1, <4>1, <4>2 DEF Shape
      <4> QED  BY <2>1, <4>2, <4>3 DEF Shape
    <3>7. CASE calls' = NoPlan
      <4>1. left.put = {}
        BY <1>5, <3>7
      <4>2. Landed(h, src[h].cells)'
        BY <1>2, <2>2, <3>3, <3>4, <4>1 DEF Landed
      <4> QED  BY <2>1, <3>7, <4>2
    <3>8. CASE calls' # NoPlan
      <4>1. left.put # {} /\ h \notin Tokens \cup Records
        BY <1>4, <3>1, <3>6, <3>8
      <4>2. UnderWay(h)'
        BY <1>2, <1>5, <3>1, <3>3, <3>4, <3>5, <3>8, <4>1 DEF UnderWay
      <4> QED  BY <2>1, <3>8, <4>2
    <3> QED  BY <3>7, <3>8
  <2> QED  BY <2>3, <2>4
<1>7. OnPlan'
  <2> SUFFICES ASSUME NEW k \in Keys, Wanted(k, src[k])
               PROVE  /\ plan'[k] # NoPlan
                      /\ Since(plan'[k].e, src[k])
                      /\ plan'[k].action \in {"present", "copied"} => Landed(k, src[k].cells)'
                      /\ calls' # NoPlan /\ calls'.key = k => UnderWay(k)'
                      /\ plan'[k].action \in {"new", "replace"} /\ k \in Sets =>
                           dst'[k].cells \subseteq plan'[k].old \/ (calls' # NoPlan /\ calls'.key = k)
    BY <1>2 DEF OnPlan, Landed
  <2>1. CASE k = h
    <3>1. plan'[h] # NoPlan
      BY <1>5, NoPlanAssumption
    <3>2. calls' # NoPlan => plan'[h].action \in {"new", "replace"} /\ calls'.key = h
      BY <1>2, <1>5
    <3>3. calls' = NoPlan => plan'[h].action = "copied"
      BY <1>5
    <3> QED  BY <1>5, <1>6, <2>1, <3>1, <3>2, <3>3
  <2>2. CASE k # h
    <3>1. /\ plan[k] # NoPlan
          /\ Since(plan[k].e, src[k])
          /\ plan[k].action \in {"present", "copied"} => Landed(k, src[k].cells)
          /\ plan[k].action \in {"new", "replace"} /\ k \in Sets => dst[k].cells \subseteq plan[k].old
      BY <1>1, <1>2, <2>2 DEF ExplainedInv, OnPlan
    <3>2. Landed(k, src[k].cells)' = Landed(k, src[k].cells)
      BY <1>2, <1>5, <2>2 DEF Landed
    <3>3. plan'[k] = plan[k] /\ dst'[k] = dst[k] /\ ~(calls' # NoPlan /\ calls'.key = k)
      BY <1>5, <2>2
    <3> QED  BY <3>1, <3>2, <3>3
  <2> QED  BY <2>1, <2>2
<1>8. StepsDone'
  <2> SUFFICES ASSUME NEW k \in Keys, Passed(k), plan'[k] # NoPlan
               PROVE  plan'[k].action \in {"present", "copied"}
    BY <1>2 DEF StepsDone, Passed
  <2>1. CASE k # h
    BY <1>2, <1>5, <2>1 DEF ExplainedInv, StepsDone
  <2>2. CASE k = h
    BY <1>2, <2>2 DEF ExplainedInv, StepsDone
  <2> QED  BY <2>1, <2>2
<1>9. Arrived'
  BY <1>2 DEF Arrived
<1> QED  BY <1>7, <1>8, <1>9

\* What is at the destination is what the plan put there, and every difference has its cause (verify).
LEMMA ExplainedStep == Sound /\ CopiedInv /\ ExplainedInv /\ [Next]_vars => ExplainedInv'
<1> SUFFICES ASSUME Sound, CopiedInv, ExplainedInv, [Next]_vars PROVE OnPlan' /\ StepsDone' /\ Arrived'
  BY ShapedStep DEF ExplainedInv
<1>1. CASE UNCHANGED vars
  BY <1>1 DEF vars, ExplainedInv, OnPlan, StepsDone, Arrived, Passed, Landed, UnderWay
<1>2. ASSUME NEW dry \in BOOLEAN, NEW overwrite \in BOOLEAN, Begin(dry, overwrite)
      PROVE  OnPlan' /\ StepsDone' /\ Arrived'
  BY <1>2 DEF Begin, OnPlan, StepsDone, Arrived, Passed
<1>3. CASE ReadSource
  <2>1. /\ phase \in {"plan", "verify"} /\ seen' = [k \in Steps[at] |-> src[k]] /\ at \in 1 .. 3
        /\ UNCHANGED <<src, dst, phase, at, plan, calls, lapsed>>
    BY <1>3, StepsFacts DEF ReadSource, Sound, TypeOK
  <2>2. OnPlan' /\ StepsDone'
    BY <2>1 DEF ExplainedInv, OnPlan, StepsDone, Passed, Landed, UnderWay
  <2>3. \A k \in Steps[at] : k \in Keys /\ ~Passed(k)
    BY <2>1, StepsFacts, StepsApart DEF Passed
  <2>4. Arrived'
    BY <2>1, <2>3 DEF ExplainedInv, Arrived, Passed, Landed
  <2> QED  BY <2>2, <2>4
<1>4. CASE PlanStep
  BY <1>4, PlanExplained
<1>5. ASSUME phase' = "idle" PROVE OnPlan' /\ StepsDone' /\ Arrived'
  BY <1>5 DEF OnPlan, StepsDone, Arrived
<1>6. ASSUME NEW h \in Keys, BeginWrite(h) PROVE OnPlan' /\ StepsDone' /\ Arrived'
  <2>1. CASE Refuses(h)
    BY <1>5, <1>6, <2>1 DEF BeginWrite, End
  <2>2. CASE ~Refuses(h)
    <3>1. /\ phase = "copy" /\ calls = NoPlan /\ calls' = Calls(h) /\ plan[h].action \in {"new", "replace"}
          /\ UNCHANGED <<src, dst, phase, at, seen, plan, lapsed>>
      BY <1>6, <2>2 DEF BeginWrite, ToWrite
    <3>2. /\ Calls(h).key = h /\ Calls(h).put = plan[h].e.cells
          /\ Calls(h).remove = IF h \in Sets THEN plan[h].old \ plan[h].e.cells ELSE {}
      BY DEF Calls
    <3>3. OnPlan'
      <4> SUFFICES ASSUME NEW k \in Keys, Wanted(k, src[k])
                   PROVE  /\ plan[k] # NoPlan
                          /\ Since(plan[k].e, src[k])
                          /\ plan[k].action \in {"present", "copied"} => Landed(k, src[k].cells)
                          /\ k = h => UnderWay(k)'
                          /\ plan[k].action \in {"new", "replace"} /\ k \in Sets => dst[k].cells \subseteq plan[k].old
        BY <3>1, <3>2 DEF OnPlan, Landed
      <4>1. /\ plan[k] # NoPlan
            /\ Since(plan[k].e, src[k])
            /\ plan[k].action \in {"present", "copied"} => Landed(k, src[k].cells)
            /\ plan[k].action \in {"new", "replace"} /\ k \in Sets => dst[k].cells \subseteq plan[k].old
        BY <3>1 DEF ExplainedInv, OnPlan
      <4>2. k = h => UnderWay(k)'
        BY <3>1, <3>2, <4>1 DEF UnderWay
      <4> QED  BY <4>1, <4>2
    <3>4. StepsDone' /\ Arrived'
      BY <3>1 DEF ExplainedInv, StepsDone, Arrived, Passed
    <3> QED  BY <3>3, <3>4
  <2> QED  BY <2>1, <2>2
<1>7. ASSUME NEW c \in Cell, Call(c) PROVE OnPlan' /\ StepsDone' /\ Arrived'
  BY <1>7, CallExplained
<1>8. CASE StepCopied
  <2>1. /\ phase = "copy" /\ calls = NoPlan /\ ToWrite = {} /\ seen = NoPlan /\ at \in 1 .. 3
        /\ UNCHANGED <<src, dst, seen, plan, calls, lapsed>>
        /\ \/ phase' = "copy" /\ at' = at + 1
           \/ phase' = "verify" /\ at = 3
    BY <1>8, StepsFacts DEF StepCopied, Sound, Resting, TypeOK
  <2>2. \A k \in Keys : Passed(k) \/ k \in Steps[at] =>
          (plan[k] # NoPlan => plan[k].action \in {"present", "copied"})
    <3> SUFFICES ASSUME NEW k \in Keys, k \in Steps[at], plan[k] # NoPlan
                 PROVE  plan[k].action \in {"present", "copied"}
      BY <2>1 DEF ExplainedInv, StepsDone
    <3>1. plan[k] \in PlannedItem /\ plan[k].action \notin {"new", "replace"}
      BY <2>1 DEF ToWrite, Sound, TypeOK
    <3> QED  BY <3>1 DEF PlannedItem
  <2>3. \A k \in Keys : \A cells : Landed(k, cells)' = Landed(k, cells)
    BY <2>1 DEF Landed
  <2>4. CASE phase' = "copy" /\ at' = at + 1
    <3>1. \A k \in Keys : Passed(k)' => Passed(k) \/ k \in Steps[at]
      BY <2>1, <2>4 DEF Passed
    <3>2. OnPlan'
      BY <2>1, <2>4 DEF ExplainedInv, OnPlan, Landed, UnderWay
    <3> QED  BY <2>1, <2>2, <2>4, <3>1, <3>2 DEF StepsDone, Arrived
  <2>5. CASE phase' = "verify" /\ at = 3
    <3>1. \A k \in Keys : Passed(k) \/ k \in Steps[at]
      BY <2>5, StepsFacts DEF Passed
    <3>2. \A k \in Keys : Wanted(k, src[k]) => Landed(k, src[k].cells)
      BY <2>1, <2>2, <3>1 DEF ExplainedInv, OnPlan
    <3>3. Arrived'
      BY <2>1, <3>2 DEF Arrived, Landed
    <3> QED  BY <2>5, <3>3 DEF OnPlan, StepsDone
  <2> QED  BY <2>1, <2>4, <2>5
<1>9. CASE VerifyStep
  <2>1. /\ phase = "verify" /\ UNCHANGED <<src, dst>> /\ seen' = NoPlan /\ at \in 1 .. 3
        /\ lapsed' = lapsed \ Steps[at]
        /\ phase' = "idle" \/ (phase' = "verify" /\ at' = at + 1)
    BY <1>9, StepsFacts DEF VerifyStep, End, Sound, TypeOK
  <2>2. CASE phase' = "verify" /\ at' = at + 1
    <3>1. ASSUME NEW k \in Keys, ~(Passed(k)') PROVE ~Passed(k) /\ k \notin Steps[at]
      BY <2>1, <2>2, <3>1 DEF Passed
    <3>2. Arrived'
      BY <2>1, <2>2, <3>1 DEF ExplainedInv, Arrived, Landed
    <3> QED  BY <2>2, <3>2 DEF OnPlan, StepsDone
  <2> QED  BY <1>5, <2>1, <2>2
<1>10. CASE Fail
  BY <1>5, <1>10 DEF Fail, End
<1>11. CASE Tick
  BY <1>11, TickExplained
<1>12. ASSUME NEW k \in Links, FinishClaim(k) PROVE OnPlan' /\ StepsDone' /\ Arrived'
  <2>1. phase' = "plan" /\ at' = 1
    BY <1>12, FinishFacts DEF runVars
  <2> QED  BY <2>1 DEF OnPlan, StepsDone, Arrived, Passed
<1> QED  BY <1>1, <1>2, <1>3, <1>4, <1>6, <1>7, <1>8, <1>9, <1>10, <1>11, <1>12 DEF Next

\* What is compared and does not match has a cause that no write could have
\* helped (run.verify).
LEMMA MismatchCause ==
  ASSUME Sound, ExplainedInv, phase = "verify", seen # NoPlan, NEW k \in Steps[at],
         Readable(k, seen[k]), Mismatched(k, seen[k], dst[k])
  PROVE  \/ k \in Workspaces /\ dst[k].cells \ seen[k].cells # {}
            /\ \A c \in seen[k].cells : c \in dst[k].cells /\ c[1] # "credential"
         \/ k \in Lifetimes /\ dst[k].cells = seen[k].cells /\ LifetimeProblem(seen[k].left, dst[k].left)
         \/ k \in Sets /\ seen[k].left = 0
         \/ k \in lapsed /\ dst[k] = Gone
<1>1. /\ k \in Keys /\ seen[k] \in Item /\ Shape(k, seen[k].cells) /\ Shape(k, dst[k].cells)
  BY StepsFacts DEF Sound, TypeOK, ExplainedInv, Shaped
<1>2. seen[k].left \in Nat
  BY <1>1, MigrateAssumption DEF Item
<1>3. CASE ~Wanted(k, seen[k])
  BY <1>2, <1>3 DEF Wanted
<1>4. CASE Wanted(k, seen[k]) /\ dst[k] = Gone /\ k \in lapsed
  BY <1>4
<1>5. CASE /\ seen[k].cells \subseteq dst[k].cells
           /\ k \in Sets => dst[k].cells \subseteq seen[k].cells
  <2>1. Listed(k, dst[k])
    <3>1. CASE k \in Workspaces
      BY <1>5, <3>1 DEF Listed, Readable
    <3>2. CASE k \notin Workspaces /\ k \notin Records
      BY <1>5, <3>2 DEF Listed, Readable
    <3>3. CASE k \in Records
      <4>1. k \notin Workspaces /\ k \notin Sets /\ Slots(k) = {"value"}
        BY <3>3, MigrateAssumption DEF Slots
      <4>2. PICK e \in seen[k].cells : TRUE
        BY <4>1 DEF Readable, Listed
      <4>3. \A d \in dst[k].cells : d = e
        BY <1>1, <1>5, <4>1, <4>2 DEF Shape
      <4>4. \A d \in dst[k].cells : d[2] # Skipped
        BY <3>3, <4>1, <4>2, <4>3 DEF Readable, Listed
      <4> QED  BY <1>5, <4>1, <4>2, <4>4 DEF Listed
    <3> QED  BY <3>1, <3>2, <3>3
  <2>2. CASE dst[k].cells = seen[k].cells
    BY <2>1, <2>2 DEF Mismatched, Unreadable, Readable
  <2>3. CASE dst[k].cells # seen[k].cells
    <3>1. PICK d \in dst[k].cells : d \notin seen[k].cells
      BY <1>5, <2>3
    <3>2. k \in Workspaces
      <4> SUFFICES ASSUME k \notin Workspaces PROVE FALSE
        OBVIOUS
      <4>1. k \notin Sets
        BY <1>5, <2>3
      <4>2. Slots(k) = {"value"}
        BY <4>1 DEF Slots
      <4>3. PICK e \in seen[k].cells : TRUE
        BY DEF Readable, Listed
      <4>4. e \in dst[k].cells /\ e[1] = "value" /\ d[1] = "value"
        BY <1>1, <1>5, <3>1, <4>2, <4>3 DEF Shape
      <4> QED  BY <1>1, <3>1, <4>3, <4>4 DEF Shape
    <3>3. PICK e \in seen[k].cells : e[1] = "record"
      BY <3>2 DEF Readable, Listed
    <3>4. d[1] = "credential"
      <4>1. Slots(k) = {"record", "credential"}
        BY <3>2, MigrateAssumption DEF Slots
      <4>2. e \in dst[k].cells /\ d # e
        BY <1>5, <3>1, <3>3
      <4> QED  BY <1>1, <3>1, <3>3, <4>1, <4>2 DEF Shape
    <3>5. ASSUME NEW c \in seen[k].cells PROVE c \in dst[k].cells /\ c[1] # "credential"
      BY <1>1, <1>5, <3>1, <3>4, <3>5 DEF Shape
    <3> QED  BY <3>1, <3>2, <3>5
  <2> QED  BY <2>2, <2>3
<1> QED  BY <1>3, <1>4, <1>5 DEF ExplainedInv, Arrived, Landed

\* A copy fails to verify only where the code could not have made it equal,
\* whichever calls of earlier runs were made: a credential that the source has
\* none of, a lifetime that is none or moved by more than the slack, or a copy
\* that ran out (run.verify, putWorkspace, lifetimeProblem).
THEOREM MismatchExplainedHolds == Spec => MismatchExplained
<1> DEFINE Inv == Sound /\ KeptInv /\ CopiedInv /\ ExplainedInv
           Explained ==
             \A k \in report'.mismatches \ report.mismatches :
               \/ k \in Workspaces /\ dst[k].cells \ seen[k].cells # {}
                  /\ \A c \in seen[k].cells : c \in dst[k].cells /\ c[1] # "credential"
               \/ k \in Lifetimes /\ dst[k].cells = seen[k].cells /\ LifetimeProblem(seen[k].left, dst[k].left)
               \/ k \in Sets /\ seen[k].left = 0
               \/ k \in lapsed /\ dst[k] = Gone
<1>1. Spec => []Inv
  BY InitSound, SoundStep, InitKept, KeptStep, InitCopied, CopiedStep, InitExplained, ExplainedStep, PTL
     DEF Spec
<1>2. Inv /\ [Next]_vars => [Explained]_vars
  <2> SUFFICES ASSUME Inv, Next, NEW k \in report'.mismatches, k \notin report.mismatches
               PROVE  /\ phase = "verify" /\ seen # NoPlan /\ k \in Steps[at]
                      /\ Readable(k, seen[k]) /\ Mismatched(k, seen[k], dst[k])
    BY MismatchCause
  <2>1. report \in [conflicts : SUBSET Keys, unreadable : SUBSET Keys, mismatches : SUBSET Keys]
    BY DEF Sound, TypeOK
  <2>2. ~\E dry, overwrite \in BOOLEAN : Begin(dry, overwrite)
    BY DEF Begin, NothingToReport
  <2>3. ~PlanStep
    BY <2>1 DEF PlanStep
  <2>4. ~(ReadSource \/ StepCopied \/ Fail \/ Tick)
    BY DEF ReadSource, StepCopied, Fail, Tick, runVars
  <2>5. ~\E h \in Keys : BeginWrite(h)
    BY DEF BeginWrite
  <2>6. ~(\E c \in Cell : Call(c)) /\ ~(\E h \in Links : FinishClaim(h))
    BY DEF Call, FinishClaim, runVars
  <2>7. VerifyStep
    BY <2>2, <2>3, <2>4, <2>5, <2>6 DEF Next
  <2> QED  BY <2>1, <2>7 DEF VerifyStep
<1> QED  BY <1>1, <1>2, PTL DEF Spec, MismatchExplained

=============================================================================
