----------------------------- MODULE Refresher -----------------------------
(***************************************************************************)
(* The hub's schedule (internal/hub/background.go): every replica reads    *)
(* every workspace each RefreshInterval, unless the lease that the         *)
(* replicas share says that another has.  A process that starts reads what *)
(* is due at once (catchUp) and then waits a whole interval.               *)
(*                                                                         *)
(* A point lookup holds the snapshot it read while it asks the directory   *)
(* and writes it back, patched and with its old date (pointLive), over any *)
(* full read stored meanwhile.                                             *)
(*                                                                         *)
(* Time is counted in units and kept as what is left of it, so that it     *)
(* never ends.  Everything but a full read and a lookup takes no time:     *)
(* UnitPasses waits.                                                       *)
(***************************************************************************)
EXTENDS Integers, FiniteSets

CONSTANTS
  Replicas,
  N,                \* workspaces 1 .. N, in the order store.List returns them
  RefreshInterval,  \* Config.RefreshInterval
  ReadTime,         \* the longest full read of one workspace
  MaxSlips,         \* bound on the reads that fail between two that do not
  MaxHeld           \* bound on the snapshots of a workspace that lookups hold

ASSUME RefresherAssumption ==
  /\ Replicas # {} /\ "nobody" \notin Replicas /\ "lost" \notin Replicas
  /\ N \in Nat \ {0} /\ RefreshInterval \in Nat \ {0}
  /\ ReadTime \in Nat /\ MaxSlips \in Nat /\ MaxHeld \in Nat

VARIABLES
  stage,      \* [Replicas -> "down", "wait", "pass" or "read"]
  turn,       \* the workspace a pass has come to
  starting,   \* the pass is the one at the start of the process
  timer,      \* what is left until the ticker's next tick
  due,        \* a tick waits in the ticker's channel, which holds one
  spent,      \* how long the read has taken
  passed,     \* how long a pass at the start has taken
  mine,       \* the read is made under a lease taken here
  leases,     \* [1 .. N -> [by, left]], the leases in the state port
  ages,       \* [1 .. N -> Nat], since a full read was last stored
  old,        \* [1 .. N -> Nat], the age of the stored snapshot
  hands,      \* [1 .. N -> SUBSET Nat], the ages of the snapshots that lookups hold
  \* History: no guard but the bound's reads what follows.
  slips,      \* [1 .. N -> Nat], what went wrong since the snapshot was taken
  sinceTaken, \* [1 .. N -> Nat], since a read was begun under the lease
  stopped     \* [1 .. N -> BOOLEAN], a process ended since

scheduleVars ==
  <<stage, turn, starting, timer, due, spent, passed, mine, leases, ages, old, hands, slips,
    sinceTaken, stopped>>

Workspaces == 1 .. N

\* leaseFor: most of the interval, and not all of it.
LeaseFor == RefreshInterval - RefreshInterval \div 4
Free == [by |-> "nobody", left |-> 0]
PassTime == N * ReadTime

\* What a read that fails, or ends with its process and leaves the lease taken,
\* can cost: a replica is refused by what is left of the lease, and comes again
\* an interval later, the reads before taking as long as they may.
SlipCost == LeaseFor - 1 + RefreshInterval + (N - 1) * ReadTime
Oldest == 2 * RefreshInterval + MaxSlips * SlipCost + PassTime

\* Lookups, and the snapshots they hold, change only with full reads and their own.
snapshotVars == <<ages, old, hands>>

\* A snapshot of this age is due at any start, and is counted no further.
Ancient == RefreshInterval + PassTime + 1
Aged(n) == IF n < Ancient THEN n + 1 ELSE Ancient

\* Refresh: a full read is stored.
Stored(w) ==
  /\ ages' = [ages EXCEPT ![w] = 0]
  /\ old' = [old EXCEPT ![w] = 0]
  /\ UNCHANGED hands

\* Something goes wrong, within the bound, for the workspaces of ws.
Slip(ws) ==
  /\ \A w \in ws : slips[w] < MaxSlips
  /\ slips' = [w \in Workspaces |-> IF w \in ws THEN slips[w] + 1 ELSE slips[w]]

Pass(r, starts) ==
  /\ stage' = [stage EXCEPT ![r] = "pass"]
  /\ turn' = [turn EXCEPT ![r] = 1]
  /\ starting' = [starting EXCEPT ![r] = starts]

\* On to the next workspace, or to the wait for a tick.
Onward(r) ==
  /\ stage' = [stage EXCEPT ![r] = IF turn[r] = N THEN "wait" ELSE "pass"]
  /\ turn' = [turn EXCEPT ![r] = IF turn[r] = N THEN 1 ELSE turn[r] + 1]
  /\ starting' = [starting EXCEPT ![r] = turn[r] # N /\ @]
  /\ spent' = [spent EXCEPT ![r] = 0]
  /\ passed' = [passed EXCEPT ![r] = IF turn[r] = N THEN 0 ELSE @]
  /\ mine' = [mine EXCEPT ![r] = FALSE]

Reading(r) ==
  /\ stage' = [stage EXCEPT ![r] = "read"]
  /\ UNCHANGED <<turn, starting, spent, passed>>

-----------------------------------------------------------------------------
\* Run: the ticker, then the pass over what is due.
Start(r) ==
  /\ stage[r] = "down"
  /\ Pass(r, TRUE)
  /\ UNCHANGED <<timer, due, spent, passed, mine, leases, snapshotVars, slips, sinceTaken, stopped>>

\* The process ends, and the rest of its pass with it.  The lease of a read
\* under way stays taken: it is handed back with the context that ended.
Stop(r) ==
  /\ stage[r] # "down"
  /\ IF stage[r] # "wait" THEN Slip(turn[r] .. N) ELSE UNCHANGED slips
  /\ stopped' = [w \in Workspaces |-> TRUE]
  /\ stage' = [stage EXCEPT ![r] = "down"]
  /\ turn' = [turn EXCEPT ![r] = 1]
  /\ starting' = [starting EXCEPT ![r] = FALSE]
  /\ timer' = [timer EXCEPT ![r] = RefreshInterval]
  /\ due' = [due EXCEPT ![r] = FALSE]
  /\ spent' = [spent EXCEPT ![r] = 0]
  /\ passed' = [passed EXCEPT ![r] = 0]
  /\ mine' = [mine EXCEPT ![r] = FALSE]
  /\ UNCHANGED <<leases, snapshotVars, sinceTaken>>

Received(r) ==
  /\ stage[r] = "wait" /\ due[r]
  /\ due' = [due EXCEPT ![r] = FALSE]
  /\ Pass(r, FALSE)
  /\ UNCHANGED <<timer, spent, passed, mine, leases, snapshotVars, slips, sinceTaken, stopped>>

\* The records cannot be listed: no pass.
ListFails(r) ==
  /\ stage[r] = "pass" /\ turn[r] = 1 /\ Slip(Workspaces)
  /\ stage' = [stage EXCEPT ![r] = "wait"]
  /\ starting' = [starting EXCEPT ![r] = FALSE]
  /\ UNCHANGED <<turn, timer, due, spent, passed, mine, leases, snapshotVars, sinceTaken, stopped>>

\* Mutant: only what is stale is due.
DueStale(r, w) == old[w] - passed[r] >= 2 * RefreshInterval

\* catchUp leaves alone what was not due when it began, and what it cannot read.
DueAtStart(r, w) == old[w] - passed[r] >= RefreshInterval
NotDue(r) ==
  /\ stage[r] = "pass" /\ starting[r]
  /\ \/ ~DueAtStart(r, turn[r]) /\ UNCHANGED slips
     \/ Slip({turn[r]})
  /\ Onward(r)
  /\ UNCHANGED <<timer, due, leases, snapshotVars, sinceTaken, stopped>>

\* refreshOne: the lease is another's, taken, or could not be asked for.
Ready(r) == stage[r] = "pass" /\ (starting[r] => DueAtStart(r, turn[r]))
Refused(r) ==
  /\ Ready(r) /\ leases[turn[r]].left > 0
  /\ Onward(r)
  /\ UNCHANGED <<timer, due, leases, snapshotVars, slips, sinceTaken, stopped>>

Taken(r) ==
  /\ Ready(r) /\ leases[turn[r]].left = 0
  /\ leases' = [leases EXCEPT ![turn[r]] = [by |-> r, left |-> LeaseFor]]
  /\ sinceTaken' = [sinceTaken EXCEPT ![turn[r]] = 0]
  /\ mine' = [mine EXCEPT ![r] = TRUE]
  /\ Reading(r)
  /\ UNCHANGED <<timer, due, snapshotVars, slips, stopped>>

\* The lease was taken and the answer lost, or it was not taken.
LockFails(r) ==
  /\ Ready(r)
  /\ \/ UNCHANGED leases
     \/ leases[turn[r]].left = 0
        /\ leases' = [leases EXCEPT ![turn[r]] = [by |-> "lost", left |-> LeaseFor]]
  /\ mine' = [mine EXCEPT ![r] = FALSE]
  /\ Reading(r)
  /\ UNCHANGED <<timer, due, snapshotVars, slips, sinceTaken, stopped>>

\* Mutant: the lease is handed back when the work is done.
ReadDoneReleases(r) ==
  /\ stage[r] = "read"
  /\ Stored(turn[r])
  /\ slips' = [slips EXCEPT ![turn[r]] = IF mine[r] THEN 0 ELSE @]
  /\ stopped' = [stopped EXCEPT ![turn[r]] = ~mine[r] /\ @]
  /\ leases' = IF mine[r] THEN [leases EXCEPT ![turn[r]] = Free] ELSE leases
  /\ Onward(r)
  /\ UNCHANGED <<timer, due, sinceTaken>>

\* Refresh: the snapshot is stored, and the lease is left to expire.
ReadDone(r) ==
  /\ stage[r] = "read"
  /\ Stored(turn[r])
  /\ slips' = [slips EXCEPT ![turn[r]] = IF mine[r] THEN 0 ELSE @]
  /\ stopped' = [stopped EXCEPT ![turn[r]] = ~mine[r] /\ @]
  /\ Onward(r)
  /\ UNCHANGED <<timer, due, leases, sinceTaken>>

\* The lease is handed back, if it is still the one taken.
HandBack(r) ==
  IF mine[r] /\ leases[turn[r]].by = r
  THEN \/ /\ leases' = [leases EXCEPT ![turn[r]] = Free]
          /\ sinceTaken' = [sinceTaken EXCEPT ![turn[r]] = LeaseFor]
       \/ UNCHANGED <<leases, sinceTaken>>
  ELSE UNCHANGED <<leases, sinceTaken>>

ReadFails(r) ==
  /\ stage[r] = "read" /\ Slip({turn[r]})
  /\ HandBack(r)
  /\ Onward(r)
  /\ UNCHANGED <<timer, due, snapshotVars, stopped>>

Step(r) ==
  \/ Received(r) \/ NotDue(r) \/ Refused(r) \/ Taken(r) \/ LockFails(r)
  \/ ReadDone(r)

\* An operator's Refresh, or a listing that wants no age (ensureFresh): no lease.
Demanded(w) ==
  /\ \E r \in Replicas : stage[r] # "down"
  /\ Stored(w)
  /\ UNCHANGED <<stage, turn, starting, timer, due, spent, passed, mine, leases, slips, sinceTaken, stopped>>

\* point: a lookup has read the snapshot, and asks the directory about one account.
Lookup(w) ==
  /\ \E r \in Replicas : stage[r] # "down"
  /\ Cardinality(hands[w]) < MaxHeld
  /\ hands' = [hands EXCEPT ![w] = @ \cup {old[w]}]
  /\ UNCHANGED <<stage, turn, starting, timer, due, spent, passed, mine, leases, ages, old, slips, sinceTaken, stopped>>

\* pointLive: the snapshot is written back with the account patched in, or the
\* directory did not answer.  Another lookup may hold the same snapshot.
LookupDone(w) ==
  /\ \E h \in hands[w] :
       /\ old' \in {old, [old EXCEPT ![w] = h]}
       /\ hands' \in {hands, [hands EXCEPT ![w] = @ \ {h}]}
  /\ UNCHANGED <<stage, turn, starting, timer, due, spent, passed, mine, leases, ages, slips, sinceTaken, stopped>>

\* A unit of time: only reads take any, and somebody runs.
UnitPasses ==
  /\ \E r \in Replicas : stage[r] # "down"
  /\ \A r \in Replicas :
       /\ stage[r] # "pass" /\ ~(stage[r] = "wait" /\ due[r])
       /\ stage[r] = "read" => spent[r] < ReadTime
  /\ timer' = [r \in Replicas |->
       IF stage[r] = "down" \/ timer[r] = 1 THEN RefreshInterval ELSE timer[r] - 1]
  /\ due' = [r \in Replicas |-> stage[r] # "down" /\ (due[r] \/ timer[r] = 1)]
  /\ spent' = [r \in Replicas |-> IF stage[r] = "read" THEN spent[r] + 1 ELSE 0]
  /\ passed' = [r \in Replicas |->
       IF stage[r] = "read" /\ starting[r] THEN passed[r] + 1 ELSE passed[r]]
  /\ leases' = [w \in Workspaces |->
       IF leases[w].left > 1 THEN [leases[w] EXCEPT !.left = @ - 1] ELSE Free]
  /\ ages' = [w \in Workspaces |-> IF ages[w] > Oldest THEN ages[w] ELSE ages[w] + 1]
  /\ old' = [w \in Workspaces |-> Aged(old[w])]
  /\ hands' = [w \in Workspaces |-> {Aged(h) : h \in hands[w]}]
  /\ sinceTaken' = [w \in Workspaces |-> IF sinceTaken[w] = LeaseFor THEN LeaseFor ELSE sinceTaken[w] + 1]
  /\ UNCHANGED <<stage, turn, starting, mine, slips, stopped>>

-----------------------------------------------------------------------------
\* Replicas at any phase of their interval, every workspace just connected.
ScheduleInit ==
  /\ stage = [r \in Replicas |-> "wait"]
  /\ turn = [r \in Replicas |-> 1]
  /\ starting = [r \in Replicas |-> FALSE]
  /\ timer \in [Replicas -> 1 .. RefreshInterval]
  /\ due = [r \in Replicas |-> FALSE]
  /\ spent = [r \in Replicas |-> 0]
  /\ passed = [r \in Replicas |-> 0]
  /\ mine = [r \in Replicas |-> FALSE]
  /\ leases = [w \in Workspaces |-> Free]
  /\ ages = [w \in Workspaces |-> 0]
  /\ old = [w \in Workspaces |-> 0]
  /\ hands = [w \in Workspaces |-> {}]
  /\ slips = [w \in Workspaces |-> 0]
  /\ sinceTaken = [w \in Workspaces |-> LeaseFor]
  /\ stopped = [w \in Workspaces |-> FALSE]

ScheduleNext ==
  \/ \E r \in Replicas : Start(r) \/ Stop(r) \/ ListFails(r) \/ ReadFails(r) \/ Step(r)
  \/ \E w \in Workspaces : Demanded(w) \/ Lookup(w) \/ LookupDone(w)
  \/ UnitPasses

ScheduleSpec == ScheduleInit /\ [][ScheduleNext]_scheduleVars

-----------------------------------------------------------------------------
(* Properties. *)

PassTypeOK ==
  /\ stage \in [Replicas -> {"down", "wait", "pass", "read"}]
  /\ turn \in [Replicas -> Workspaces]
  /\ timer \in [Replicas -> 1 .. RefreshInterval]
  /\ {starting, due, mine} \subseteq [Replicas -> BOOLEAN]
  /\ spent \in [Replicas -> 0 .. ReadTime]
  /\ passed \in [Replicas -> 0 .. PassTime]
  /\ leases \in [Workspaces -> [by : Replicas \cup {"nobody", "lost"}, left : 0 .. LeaseFor]]
  /\ ages \in [Workspaces -> 0 .. Oldest + 1]
  /\ slips \in [Workspaces -> 0 .. MaxSlips]
  /\ sinceTaken \in [Workspaces -> 0 .. LeaseFor]
  /\ stopped \in [Workspaces -> BOOLEAN]
SnapshotTypeOK ==
  /\ old \in [Workspaces -> 0 .. Ancient]
  /\ hands \in [Workspaces -> SUBSET (0 .. Ancient)]

\* Every variable holds a value of its type.
ScheduleTypeOK == PassTypeOK /\ SnapshotTypeOK

\* The reads before a workspace's in a pass take no longer than what leaseFor leaves
\* of the interval, and a pass less than the lease: a replica that comes on schedule
\* finds the lease of its last pass expired.
ReadsQuick == (N - 1) * ReadTime <= RefreshInterval - LeaseFor /\ PassTime < LeaseFor

\* Every workspace is read in full, and the read stored, within an interval and a
\* pass of the last, whichever replica reads it and whatever lookups write back.
\* Processes that end, however many and however often, add no more than an
\* interval; each pass that fails, or ends with its process and leaves the lease
\* taken, costs the lease, an interval and the reads before in a pass (catchUp,
\* refreshAll, refreshOne).  It takes reads as quick as ReadsQuick says, and is not
\* the age of the snapshot: see SnapshotFresh.
FreshBound ==
  \A w \in Workspaces :
    ages[w] <= RefreshInterval + PassTime
              + (IF stopped[w] THEN RefreshInterval - 1 ELSE 0)
              + slips[w] * SlipCost

\* A replica that ticks on schedule finds the lease it took for its last pass
\* expired (leaseFor).  It takes that the reads before a workspace's in a pass
\* differ by no more than what leaseFor leaves of the interval.
OwnLeaseExpired ==
  \A r \in Replicas : Ready(r) /\ ~starting[r] => leases[turn[r]].by # r

\* However many replicas tick, no two of them read a workspace under the lease
\* within its time, unless the read in between failed and handed it back
\* (refreshOne).
ReadsSpaced ==
  [][\A r \in Replicas :
       stage[r] # "read" /\ stage'[r] = "read" /\ mine'[r] => sinceTaken[turn[r]] = LeaseFor]_scheduleVars

-----------------------------------------------------------------------------
(* What a comment says without exception; it fails.  See the README. *)

\* background.go: "The schedule says fifteen minutes; a restart should not
\* extend it."
RestartExtendsNothing ==
  \A w \in Workspaces : slips[w] = 0 => ages[w] <= RefreshInterval + PassTime

\* Run: "a refresher that replaces each workspace's snapshot every
\* RefreshInterval": a lookup writes the replaced one back.
SnapshotFresh ==
  \A w \in Workspaces :
    slips[w] = 0 /\ ~stopped[w] => old[w] <= RefreshInterval + PassTime
=============================================================================
