------------------------------ MODULE Migrate ------------------------------
(***************************************************************************)
(* The copy of a service's State from one store to another                 *)
(* (internal/migrate): plan every step, copy what is new or, with          *)
(* --overwrite, what differs, then read both sides again and compare.      *)
(*                                                                         *)
(* A step reads each side whole and writes an item by one store call or by *)
(* several: a workspace's record and then its credential, a set's surplus  *)
(* members and then each of its own.  A run can end between any two calls  *)
(* and be started again.  The source's writers are stopped, as a run       *)
(* demands, and what both sides hold still runs out.  Every kind of record *)
(* that a single call writes, and a report, is one of Records.  A record   *)
(* that does not decode is presented as unreadable by the stores of some   *)
(* kinds and passed over by those of others; listing the links first       *)
(* finishes what a claim of an address left undone, which writes links.    *)
(***************************************************************************)
EXTENDS Integers, Sequences

CONSTANTS
  Workspaces, Records,  \* keys of the domain stores
  Links, Gates,         \* those of Records that are links; confirmations and pass requests
  Tokens, Sets,         \* keys of the issuer's State and Index
  Values, Members,
  Bad,                  \* what a side's store presents as unreadable
  Skipped,              \* what does not decode and its store's List passes over
  In,                   \* the value of a set's member
  NoPlan,
  TtlSlack,             \* ttlSlack
  MaxLeft,              \* the longest lifetime, and ttlOrDay's day
  GateLife              \* what the destination keeps a gate for, 0 for no limit (legacy)

ASSUME MigrateAssumption ==
  /\ TtlSlack \in Nat /\ MaxLeft \in Nat \ {0}
  /\ GateLife \in 0 .. MaxLeft
  /\ {Bad, In, Skipped} \cap Values = {} /\ Bad # Skipped /\ In # Skipped
  /\ Links \subseteq Records /\ Gates \subseteq Records /\ Workspaces \cap Records = {}
  /\ (Workspaces \cup Records) \cap (Tokens \cup Sets) = {} /\ Tokens \cap Sets = {}

VARIABLES
  src, dst,   \* [Keys -> Item], what each side holds
  claims,     \* each side's links that an unfinished claim has yet to narrow
  phase,      \* "idle", "plan", "copy" or "verify"
  at,         \* the step, an index of Steps
  seen,       \* the step's items as read from the source, NoPlan before it is read
  plan,       \* [Keys -> planned item or NoPlan]
  calls,      \* the store calls left of the item being written, NoPlan between items
  opt,        \* Options: [dry, overwrite]
  report,     \* [conflicts, unreadable, mismatches], each a set of keys
  ended,      \* how the last run ended, "none" while none has
  \* History: no guard reads what follows.
  held,       \* what the destination held when the run began, less what ran out, its claims finished
  lapsed,     \* keys that ran out on the destination since it was last verified
  good,       \* the last run that could write ended well
  between     \* the time that passed between the two reads of a step verified

vars == <<src, dst, claims, phase, at, seen, plan, calls, opt, report, ended, held, lapsed, good, between>>
runVars == <<phase, at, seen, plan, calls, opt, report, ended>>

Keys == Workspaces \cup Records \cup Tokens \cup Sets
Lifetimes == Tokens \cup Sets
\* The kinds of the domain stores, which nothing tells apart, are one step.
Steps == <<Workspaces \cup Records, Tokens, Sets>>

\* An item: what is kept in each of its slots, and the time left, 0 for none.
Slots(k) == CASE k \in Workspaces -> {"record", "credential"}
              [] k \in Sets -> Members
              [] OTHER -> {"value"}
Cell == ({"record", "credential", "value"} \cup Members) \X (Values \cup {Bad, Skipped, In})
Item == [cells : SUBSET Cell, left : 0 .. MaxLeft]
Gone == [cells |-> {}, left |-> 0]

\* What is planned for an item: the source's, and what the destination has of it.
PlannedItem ==
  [action : {"new", "present", "replace", "copied"}, e : Item, old : SUBSET Cell]

\* The calls left of the item that is being written.
CallsLeft == [key : Keys, remove : SUBSET Cell, put : SUBSET Cell]

ASSUME NoPlanAssumption == NoPlan \notin PlannedItem \cup CallsLeft

\* A workspace is listed by its record: a credential alone is not.  Nor is a
\* record that does not decode, where the store's List goes on without it.
Listed(k, item) ==
  IF k \in Workspaces THEN \E c \in item.cells : c[1] = "record"
  ELSE item.cells # {} /\ (k \in Records => \A c \in item.cells : c[2] # Skipped)

\* What a store lists and cannot present.
Unreadable(item) == \E c \in item.cells : c[2] = Bad
Readable(k, item) == Listed(k, item) /\ ~Unreadable(item)
NothingToReport == [conflicts |-> {}, unreadable |-> {}, mismatches |-> {}]

End(how) ==
  /\ phase' = "idle" /\ at' = 1 /\ seen' = NoPlan /\ calls' = NoPlan
  /\ ended' = how
  /\ plan' = [k \in Keys |-> NoPlan]
  /\ good' = IF opt.dry THEN good ELSE how = "ok"
  /\ UNCHANGED opt

-----------------------------------------------------------------------------
\* Run, once its arguments are accepted.
Begin(dry, overwrite) ==
  /\ phase = "idle"
  /\ phase' = "plan" /\ at' = 1
  /\ opt' = [dry |-> dry, overwrite |-> overwrite]
  /\ report' = NothingToReport
  /\ ended' = "none"
  /\ held' = dst /\ between' = 0
  /\ UNCHANGED <<src, dst, claims, seen, plan, calls, lapsed, good>>

\* The links are listed with a step's read, of the source and then of the destination.
Listing == IF seen = NoPlan THEN "src" ELSE "dst"
ClaimsFinished == at = 1 => claims[Listing] = {}

\* narrow: a link that decodes loses the addresses another has claimed.
Narrowed(side, k, v) ==
  IF Readable(k, side[k]) THEN [side EXCEPT ![k].cells = {<<"value", v>>}] ELSE side

\* finishClaims, which the listing of a side's links begins with, dry or not.
FinishClaim(k) ==
  /\ phase \in {"plan", "verify"} /\ at = 1 /\ k \in claims[Listing]
  /\ claims' = [claims EXCEPT ![Listing] = @ \ {k}]
  /\ \E v \in Values :
       IF Listing = "src"
       THEN src' = Narrowed(src, k, v) /\ UNCHANGED <<dst, held>>
       ELSE dst' = Narrowed(dst, k, v) /\ held' = Narrowed(held, k, v) /\ UNCHANGED src
  /\ UNCHANGED <<runVars, lapsed, good, between>>

\* A step's read of the source, when planning and when verifying.
ReadSource ==
  /\ phase \in {"plan", "verify"} /\ seen = NoPlan /\ ClaimsFinished
  /\ seen' = [k \in Steps[at] |-> src[k]]
  /\ UNCHANGED <<src, dst, claims, phase, at, plan, calls, opt, report, ended, held, lapsed, good, between>>

-----------------------------------------------------------------------------
\* Plan.

\* Mutant: what the destination cannot read counts as not there.
ActionBlind(k, e, old) ==
  CASE ~Readable(k, old) -> "new"
    [] old.cells = e.cells -> "present"
    [] OTHER -> "replace"

\* What the plan decides about a source item: values are compared, lifetimes not.
Action(k, e, old) ==
  CASE ~Listed(k, old) -> "new"
    [] ~Unreadable(old) /\ old.cells = e.cells -> "present"
    [] OTHER -> "replace"
Planned ==
  [k \in Keys |->
     IF k \in Steps[at] /\ Readable(k, seen[k])
     THEN [action |-> Action(k, seen[k], dst[k]), e |-> seen[k],
           old |-> IF Listed(k, dst[k]) THEN dst[k].cells ELSE {}]
     ELSE plan[k]]

\* How a run ends when its plan is made, "none" when it goes on.
Refused(r) ==
  CASE r.conflicts # {} /\ ~opt.overwrite -> "conflict"
    [] opt.dry -> IF r.unreadable # {} THEN "unreadable" ELSE "ok"
    [] OTHER -> "none"

PlanStep ==
  /\ phase = "plan" /\ seen # NoPlan /\ ClaimsFinished
  /\ LET p == Planned
         r == [report EXCEPT
                 !.conflicts = @ \cup {k \in Steps[at] : p[k] # NoPlan /\ p[k].action = "replace"},
                 !.unreadable = @ \cup {k \in Steps[at] : Listed(k, seen[k]) /\ Unreadable(seen[k])}]
     IN /\ report' = r
        /\ IF at < Len(Steps)
           THEN /\ plan' = p /\ at' = at + 1 /\ seen' = NoPlan
                /\ UNCHANGED <<phase, calls, opt, ended, good>>
           ELSE \/ /\ Refused(r) # "none"
                   /\ End(Refused(r))
                \/ /\ Refused(r) = "none"
                   /\ plan' = p /\ phase' = "copy" /\ at' = 1 /\ seen' = NoPlan
                   /\ UNCHANGED <<calls, opt, ended, good>>
  /\ UNCHANGED <<src, dst, claims, held, lapsed, between>>

-----------------------------------------------------------------------------
\* Copy.

ToWrite == {k \in Steps[at] : plan[k] # NoPlan /\ plan[k].action \in {"new", "replace"}}

\* Mutant: members the destination has beyond the source's stay.
CallsOnlyAdd(k) == [key |-> k, remove |-> {}, put |-> plan[k].e.cells]

\* The calls that write an item: what a set has beyond the source's is taken out.
Calls(k) ==
  [key |-> k,
   remove |-> IF k \in Sets THEN plan[k].old \ plan[k].e.cells ELSE {},
   put |-> plan[k].e.cells]

\* A State record without a lifetime is refused.
Refuses(k) == k \in Tokens /\ plan[k].e.left = 0

BeginWrite(k) ==
  /\ phase = "copy" /\ calls = NoPlan /\ k \in ToWrite
  /\ IF Refuses(k)
     THEN End("failed")
     ELSE /\ calls' = Calls(k)
          /\ UNCHANGED <<phase, at, seen, plan, opt, ended, good>>
  /\ UNCHANGED <<src, dst, claims, report, held, lapsed, between>>

TtlOrDay(ttl) == IF ttl > 0 THEN ttl ELSE MaxLeft

\* The next calls: removals, then a record before its credential.
NextCalls ==
  IF calls.remove # {} THEN calls.remove
  ELSE {c \in calls.put : c[1] = "credential" => calls.put = {c}}

\* What one call leaves of the item: a set's expiry is moved by an Add alone, and
\* a gate lives as long as if it had been kept now.
Called(c) ==
  LET k == calls.key
      kept == {d \in dst[k].cells : d[1] # c[1]}
  IN IF c \in calls.remove
     THEN IF kept = {} THEN Gone ELSE [dst[k] EXCEPT !.cells = kept]
     ELSE [cells |-> kept \cup {c},
           left |-> CASE k \in Lifetimes -> TtlOrDay(plan[k].e.left)
                      [] k \in Gates -> GateLife
                      [] OTHER -> 0]

Call(c) ==
  /\ phase = "copy" /\ calls # NoPlan /\ c \in NextCalls
  /\ dst' = [dst EXCEPT ![calls.key] = Called(c)]
  /\ LET left == [calls EXCEPT !.remove = @ \ {c}, !.put = IF c \in calls.remove THEN @ ELSE @ \ {c}]
     IN IF left.remove \cup left.put = {}
        THEN calls' = NoPlan /\ plan' = [plan EXCEPT ![calls.key].action = "copied"]
        ELSE calls' = left /\ UNCHANGED plan
  /\ UNCHANGED <<src, claims, phase, at, seen, opt, report, ended, held, lapsed, good, between>>

StepCopied ==
  /\ phase = "copy" /\ calls = NoPlan /\ ToWrite = {}
  /\ IF at < Len(Steps)
     THEN at' = at + 1 /\ UNCHANGED phase
     ELSE at' = 1 /\ phase' = "verify"
  /\ UNCHANGED <<src, dst, claims, seen, plan, calls, opt, report, ended, held, lapsed, good, between>>

-----------------------------------------------------------------------------
\* Verify.

LifetimeProblem(s, d) ==
  \/ (s = 0) # (d = 0)
  \/ d > s + TtlSlack

\* Mutant: whatever runs out may be missing.
MismatchedLate(k, e, got) ==
  IF ~Listed(k, got)
  THEN ~(k \in Lifetimes /\ e.left > 0)
  ELSE \/ Unreadable(got) \/ got.cells # e.cells
       \/ k \in Lifetimes /\ LifetimeProblem(e.left, got.left)

Mismatched(k, e, got) ==
  IF ~Listed(k, got)
  THEN ~(k \in Lifetimes /\ e.left > 0 /\ e.left < TtlSlack)
  ELSE \/ Unreadable(got) \/ got.cells # e.cells
       \/ k \in Lifetimes /\ LifetimeProblem(e.left, got.left)

Verdict(r) ==
  CASE r.mismatches # {} -> "mismatch"
    [] r.unreadable # {} -> "unreadable"
    [] OTHER -> "ok"

VerifyStep ==
  /\ phase = "verify" /\ seen # NoPlan /\ ClaimsFinished
  /\ LET r == [report EXCEPT !.mismatches = @ \cup
                 {k \in Steps[at] : Readable(k, seen[k]) /\ Mismatched(k, seen[k], dst[k])}]
     IN /\ report' = r
        /\ lapsed' = lapsed \ Steps[at]
        /\ IF at < Len(Steps)
           THEN /\ at' = at + 1 /\ seen' = NoPlan
                /\ UNCHANGED <<phase, plan, calls, opt, ended, good>>
           ELSE End(Verdict(r))
  /\ UNCHANGED <<src, dst, claims, held, between>>

-----------------------------------------------------------------------------
\* A read or a call fails, or the process dies; the call under way was made
\* or it was not.
Fail ==
  /\ phase # "idle"
  /\ \/ UNCHANGED dst
     \/ /\ calls # NoPlan
        /\ \E c \in NextCalls : dst' = [dst EXCEPT ![calls.key] = Called(c)]
  /\ End("failed")
  /\ UNCHANGED <<src, claims, report, held, lapsed, between>>

Older(item) ==
  CASE item.left = 0 -> item
    [] item.left = 1 -> Gone
    [] OTHER -> [item EXCEPT !.left = @ - 1]

\* A unit of time, on both sides.
Tick ==
  /\ \E k \in Keys : src[k].left > 0 \/ dst[k].left > 0
  /\ src' = [k \in Keys |-> Older(src[k])]
  /\ dst' = [k \in Keys |-> Older(dst[k])]
  /\ held' = [k \in Keys |-> Older(held[k])]
  /\ lapsed' = lapsed \cup {k \in Keys : dst[k].left = 1}
  /\ between' = IF phase = "verify" /\ seen # NoPlan THEN between + 1 ELSE between
  /\ UNCHANGED <<claims, runVars, good>>

-----------------------------------------------------------------------------
\* What a side can hold of a key.  The destination's issuer writes a lifetime
\* on everything; the source's store may keep records and sets without one.  A
\* side with a workspace's record that does not decode lists no workspace, and
\* every run with it fails.
Odd(k) == CASE k \in Workspaces -> {Bad}
            [] k \in Links \cup Gates -> {Skipped}
            [] k \in Records -> {Bad, Skipped}
            [] OTHER -> {}
Cells(k, vs) ==
  {cs \in SUBSET (Slots(k) \X (IF k \in Sets THEN {In} ELSE vs \cup Odd(k))) :
     /\ \A c, d \in cs : c[1] = d[1] => c = d
     /\ <<"record", Bad>> \notin cs}
Held(k, vs, lefts) ==
  {Gone} \cup [cells : Cells(k, vs) \ {{}}, left : IF k \in Lifetimes \cup Gates THEN lefts ELSE {0}]

\* What the destination's store keeps a key for.
Own(k, lefts) == IF k \in Gates /\ GateLife = 0 THEN {0} ELSE lefts

\* No run has been made yet.
Unstarted ==
  /\ phase = "idle" /\ at = 1 /\ seen = NoPlan /\ calls = NoPlan
  /\ plan = [k \in Keys |-> NoPlan]
  /\ opt = [dry |-> FALSE, overwrite |-> FALSE]
  /\ report = NothingToReport /\ ended = "none"
  /\ held = dst /\ lapsed = {} /\ good = FALSE /\ between = 0

\* The two sides hold whatever they can.
Init ==
  /\ {src, dst} \subseteq [Keys -> Item]
  /\ \A k \in Keys :
       /\ src[k] \in Held(k, Values, 0 .. MaxLeft)
       /\ dst[k] \in Held(k, Values, Own(k, 1 .. MaxLeft))
  /\ claims \in [{"src", "dst"} -> SUBSET Links]
  /\ Unstarted

Next ==
  \/ \E dry, overwrite \in BOOLEAN : Begin(dry, overwrite)
  \/ \E k \in Links : FinishClaim(k)
  \/ ReadSource \/ PlanStep
  \/ \E k \in Keys : BeginWrite(k)
  \/ \E c \in Cell : Call(c)
  \/ StepCopied \/ VerifyStep
  \/ Fail
  \/ Tick

Spec == Init /\ [][Next]_vars

-----------------------------------------------------------------------------
(* Properties. *)

\* Every variable holds a value of its type, and whatever the issuer keeps on
\* the destination runs out in the end.
TypeOK ==
  /\ {src, dst, held} \subseteq [Keys -> Item]
  /\ \A k \in Keys : dst[k].cells = {} => dst[k] = Gone
  /\ \A k \in Lifetimes : dst[k] # Gone => dst[k].left > 0
  /\ claims \in [{"src", "dst"} -> SUBSET Links]
  /\ phase \in {"idle", "plan", "copy", "verify"}
  /\ at \in 1 .. Len(Steps)
  /\ seen = NoPlan \/ seen \in [Steps[at] -> Item]
  /\ plan \in [Keys -> {NoPlan} \cup PlannedItem]
  /\ calls \in {NoPlan} \cup CallsLeft
  /\ opt \in [dry : BOOLEAN, overwrite : BOOLEAN]
  /\ report \in [conflicts : SUBSET Keys, unreadable : SUBSET Keys, mismatches : SUBSET Keys]
  /\ ended \in {"none", "ok", "conflict", "mismatch", "unreadable", "failed"}
  /\ lapsed \subseteq Keys /\ good \in BOOLEAN /\ between \in Nat

\* After a run that wrote and ended well, the destination holds all that the
\* source's stores list, with a lifetime where the source's has one and longer by
\* no more than ttlSlack and the time that verify took to read the other side,
\* whatever earlier runs left behind.  Only what has run out since, or was about
\* to, is missing (Run, verify).  It says nothing of a record that a List passes
\* over, nor of how long a gate lives.
OkMeansCopied ==
  ended = "ok" /\ ~opt.dry =>
    \A k \in Keys \ lapsed :
      Listed(k, src[k]) =>
        \/ /\ dst[k].cells = src[k].cells /\ ~Unreadable(src[k])
           /\ k \in Lifetimes => src[k].left > 0 /\ dst[k].left <= src[k].left + TtlSlack + between
        \/ dst[k] = Gone /\ src[k].left > 0 /\ src[k].left < TtlSlack

\* Without --overwrite, nothing the destination listed when a run began is
\* touched by its copy, its lifetime included, however the run ends (plan,
\* execute).  Two writes are not among those: a record that its List passes over is
\* replaced (Restore, editItem), and the claims that the run's listing of links
\* finishes (finishClaims) take addresses off links; what they leave is kept.
ForeignKept ==
  ~opt.overwrite => \A k \in Keys : Listed(k, held[k]) => dst[k] = held[k]

\* A run that is dry, or stops at a conflict, or has yet to plan its last step,
\* has written nothing to the destination (execute: "nothing was written") but
\* the claims that its listing of links finishes.
NothingWritten ==
  opt.dry \/ ended = "conflict" \/ phase = "plan" => dst = held

\* A run after one that ended well finds every item present, and writes none
\* but those that have run out meanwhile (package comment: "an item the
\* destination already holds equal is never rewritten").
RerunCopiesNothing ==
  good /\ phase \in {"plan", "copy"} => \A k \in Keys :
    plan[k] # NoPlan =>
      \/ plan[k].action = "present"
      \/ k \in lapsed
      \/ plan[k].e.left > 0 /\ plan[k].e.left < TtlSlack

\* A copy fails to verify only where the code could not have made it equal: a
\* source workspace without the credential that the destination keeps, a lifetime
\* that is none or has changed by more than the slack, or a copy that ran out.
MismatchExplained ==
  [][\A k \in report'.mismatches \ report.mismatches :
       \/ k \in Workspaces /\ dst[k].cells \ seen[k].cells # {}
          /\ \A c \in seen[k].cells : c \in dst[k].cells /\ c[1] # "credential"
       \/ k \in Lifetimes /\ dst[k].cells = seen[k].cells /\ LifetimeProblem(seen[k].left, dst[k].left)
       \/ k \in Sets /\ seen[k].left = 0
       \/ k \in lapsed /\ dst[k] = Gone]_vars

-----------------------------------------------------------------------------
(* What comments say without exception; each fails.  See the README. *)

\* migrate.go: "A re-run after a failure plans again and so copies exactly what
\* is missing".
RerunCompletes ==
  ended = "conflict" => \E k \in report.conflicts : ~(dst[k].cells \subseteq src[k].cells)

\* port/export.go: "a session moved to another store expires when it would have".
CopyNotLonger ==
  [][\A k \in Lifetimes :
       calls # NoPlan /\ calls.key = k /\ dst'[k] # dst[k] /\ src'[k] # Gone /\ src'[k].left > 0
         => dst'[k].left <= src'[k].left \/ dst'[k].left = dst[k].left]_vars

\* docs/operations/migrate.md: what does not decode "is reported, not copied".
OkMeansAll ==
  ended = "ok" => \A k \in Records : src[k] # Gone => Listed(k, src[k])

\* Options.Overwrite: "Without it a destination value that differs fails the run".
NothingReplaced ==
  ~opt.overwrite => \A k \in Records : held[k] # Gone => dst[k] = held[k]

\* Options.DryRun: "plans and reports and writes nothing".
DryWritesNothing ==
  [][opt.dry /\ claims' # claims => src' = src /\ dst' = dst]_vars
=============================================================================
