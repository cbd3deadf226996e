-------------------------------- MODULE Hub --------------------------------
(***************************************************************************)
(* The directory hub (internal/hub): the records of the tenants it reads,  *)
(* the snapshot kept of each, the readers each replica has open, and the   *)
(* requests that use them.                                                 *)
(*                                                                         *)
(* A request is a point lookup, a group lookup, an operator's choice of    *)
(* the served domains or the synced groups, a probe, a connect or a        *)
(* disconnect.  It runs at one replica and makes one call of the store,    *)
(* or of a directory, a step.  A full read (Refresh) is a flight of its    *)
(* replica: those who ask for one while it is under way share it.          *)
(*                                                                         *)
(* The directories are the environment: who has an account, which tenant   *)
(* holds a domain, who is in a group.  Any call may fail.                  *)
(***************************************************************************)
EXTENDS Integers, FiniteSets

CONSTANTS
  Replicas,         \* processes serving the hub
  Tenants,          \* directory tenants, ordered by TenantOrder
  TenantOrder,      \* [Tenants -> Nat], the order of their ids
  Domains,
  Emails,           \* addresses of people
  Groups,           \* addresses of groups; one that is a person's too is either at a time
  Home,             \* [Emails \cup Groups -> Domains], the part after the @
  AdminDomain,      \* the domain of whoever connects a tenant
  Declared,         \* tenants the deployment declares, each served whole
  ServeChoices, SyncChoices,  \* what an operator may ask for
  Asking, Operating, Probing, \* requests: lookups, an operator's, probes
  None,
  FreshnessWindow,  \* Config.FreshnessWindow
  ReadTime,         \* what may pass between the two reads of a full read
  MaxTime, MaxEvents, MaxRefreshes, MaxRequests, \* bounds
  \* Where the system may start from:
  FirstStandings, FirstOwner, FirstMembers, FirstSyncs, FirstCold

Tasks == Asking \cup Operating \cup Probing

ASSUME HubAssumption ==
  /\ TenantOrder \in [Tenants -> Nat]
  /\ \A t, u \in Tenants : TenantOrder[t] = TenantOrder[u] => t = u
  /\ Home \in [Emails \cup Groups -> Domains]
  /\ AdminDomain \in Domains /\ Declared \subseteq Tenants
  /\ FreshnessWindow \in Nat \ {0} /\ ReadTime \in Nat
  /\ {MaxTime, MaxEvents, MaxRefreshes, MaxRequests} \subseteq Nat
  /\ ServeChoices \subseteq SUBSET Domains /\ SyncChoices \subseteq SUBSET Groups
  /\ FirstStandings \subseteq [Emails -> {"none", "live", "suspended"}]
  /\ FirstOwner \in [Domains -> Tenants] /\ FirstMembers \in [Groups -> SUBSET Emails]
  /\ FirstSyncs \subseteq SUBSET Groups
  /\ None \notin Tenants \cup Domains \cup Emails \cup Groups \cup Tasks

VARIABLES
  now,
  standing,   \* [Emails -> Standing], the world: who has an account
  owner,      \* [Domains -> Tenants], which tenant holds a domain
  members,    \* [Groups -> SUBSET Emails]
  revoked,    \* credentials handed back
  record,     \* [Tenants -> Record or None], the workspace records
  cred,       \* [Tenants -> Credential or None], the sealed credentials
  snapshot,   \* [Tenants -> Snapshot or None], the shared snapshots
  reader,     \* [Replicas -> [Tenants -> Credential or None]], Hub.backends
  flight,     \* [Replicas -> [Tenants -> Flight]], Hub.refreshes
  start,      \* [Replicas -> Starting], what a new process has still to bring up
  pc, job, mem,          \* of each request
  answer,                \* the answer just given; None after any other step
  events, refreshes,     \* counted against their bounds
  \* History: no guard reads what follows.
  last,       \* [Emails -> [Standing -> time]], when it last held
  moved,      \* [Domains -> time], when it last changed hands
  steady,     \* memberships that have held all along
  choice,     \* [Tenants -> the last choice an operator was told is stored]
  mishap      \* tenants where a write crossed another or failed, or that were forgotten

world   == <<standing, owner, members>>
history == <<last, moved, steady, choice, mishap>>
vars == <<now, world, revoked, record, cred, snapshot, reader, flight, start,
          pc, job, mem, answer, events, refreshes, history>>

-----------------------------------------------------------------------------
(* Values. *)

Standing == {"none", "live", "suspended"}
Time == 0 .. MaxTime
Before == -1
Credential == Tasks \cup {"first"}

Record ==
  [domains : SUBSET Domains, serve : SUBSET Domains, sync : SUBSET Groups,
   ok : BOOLEAN, probed : Time, declared : BOOLEAN]

\* made is history: the groups a patch put there and no full read.
Snapshot ==
  [at : Time, accounts : [Emails -> Standing], kept : SUBSET Groups,
   members : [Groups -> SUBSET Emails], discovered : SUBSET Groups,
   made : SUBSET Groups]

ASSUME NoneIsNothing == None \notin Record /\ None \notin Snapshot

FlightPc == {"idle", "open", "record", "accounts", "groups", "put"}
Flight ==
  [pc : FlightPc, ok : BOOLEAN, by : Credential \cup {None}, ws : Record \cup {None},
   accounts : [Emails -> Standing] \cup {None}, began : Time \cup {Before},
   snap : Snapshot \cup {None}]
Idle(ok) ==
  [pc |-> "idle", ok |-> ok, by |-> None, ws |-> None, accounts |-> None,
   began |-> Before, snap |-> None]

\* The declared tenant a new process has read and not yet stored.
Starting == [todo : SUBSET Tenants, t : Tenants \cup {None}, ws : Record \cup {None}]
Up == [todo |-> {}, t |-> None, ws |-> None]

Kinds == {"point", "group", "served", "synced", "probe", "adopt", "disconnect"}
Pc ==
  {"idle", "done", "look", "live", "memberships", "patch", "fresh", "await",
   "check", "store", "narrow", "narrowed", "probe", "probed", "save", "existing",
   "adopt", "revoke", "dropSnapshot", "dropCredential", "dropRecord"}
Job ==
  [kind : Kinds \cup {None}, r : Replicas \cup {None}, t : Tenants \cup {None},
   arg : Emails \cup Groups \cup (SUBSET Domains) \cup (SUBSET Groups) \cup {None},
   demand : BOOLEAN]
Mem ==
  [ws : Record \cup {None}, snap : Snapshot \cup {None}, by : Credential \cup {None},
   conflict : BOOLEAN, known : BOOLEAN, asked : Time \cup {Before},
   standing : Standing, groups : SUBSET Groups]
NoJob == [kind |-> None, r |-> None, t |-> None, arg |-> None, demand |-> FALSE]
NoMem == [ws |-> None, snap |-> None, by |-> None, conflict |-> FALSE, known |-> FALSE,
          asked |-> Before, standing |-> "none", groups |-> {}]

\* Workspace.Served: what discovery returned, narrowed by Serve.
Served(ws) == IF ws.serve = {} THEN ws.domains ELSE ws.domains \cap ws.serve

\* NewSnapshot: no list of discovered groups means the kept ones are all.
NewSnapshot(at, accounts, kept, mem_, discovered, made) ==
  [at |-> at, accounts |-> accounts, kept |-> kept,
   members |-> [g \in Groups |-> IF g \in kept THEN mem_[g] ELSE {}],
   discovered |-> IF discovered = {} THEN kept ELSE discovered,
   made |-> made \cap kept]

\* restrict: accounts at a served domain; groups at one or with a member at
\* one; of those the synced.  An empty list narrows nothing, and members are
\* never filtered.
restrict(s, serve, sync) ==
  LET inServed(a) == serve = {} \/ Home[a] \in serve
      kept == {g \in s.kept : inServed(g) \/ \E e \in s.members[g] : inServed(e)}
  IN  NewSnapshot(s.at,
        [e \in Emails |-> IF inServed(e) THEN s.accounts[e] ELSE "none"],
        IF sync = {} THEN kept ELSE kept \cap sync,
        s.members, s.discovered, s.made)

\* Mutant: a patched snapshot counts as read now.
PatchedYoung(s, e, st, gs) ==
  LET in == IF st = "none" THEN {} ELSE gs
  IN  [s EXCEPT !.at = now, !.accounts[e] = st, !.kept = @ \cup in,
         !.made = @ \cup (in \ s.kept),
         !.members = [g \in Groups |-> (@[g] \ {e}) \cup IF g \in in THEN {e} ELSE {}]]

\* Mutant: the groups an account is in are written afresh.
PatchedAfresh(s, e, st, gs) ==
  LET in == IF st = "none" THEN {} ELSE gs
  IN  [s EXCEPT !.accounts[e] = st, !.kept = @ \cup in, !.made = @ \cup (in \ s.kept),
         !.members = [g \in Groups |-> IF g \in in THEN {e} ELSE @[g] \ {e}]]

\* patchAccount: one account and its memberships, from a live read.  The age
\* of the snapshot stays.
Patched(s, e, st, gs) ==
  LET in == IF st = "none" THEN {} ELSE gs
  IN  [s EXCEPT !.accounts[e] = st, !.kept = @ \cup in, !.made = @ \cup (in \ s.kept),
         !.members = [g \in Groups |-> (@[g] \ {e}) \cup IF g \in in THEN {e} ELSE {}]]

\* routingOf: of several that serve a domain the only declared one wins;
\* otherwise the first by id answers and nobody is trusted.
Claims(d) == {t \in Tenants : record[t] # None /\ d \in Served(record[t])}
Routed(d) == Claims(d) # {}
Winners(d) ==
  LET declared == {t \in Claims(d) : record[t].declared}
  IN  IF Cardinality(Claims(d)) > 1 /\ Cardinality(declared) = 1
      THEN declared ELSE Claims(d)
Conflict(d) == Cardinality(Winners(d)) > 1
Route(d) ==
  CHOOSE t \in Winners(d) : \A u \in Winners(d) : TenantOrder[t] <= TenantOrder[u]

Age(s) == now - s.at
Authoritative(ws, conflict, s) ==
  ~conflict /\ ws.ok /\ s # None /\ Age(s) < FreshnessWindow

\* What a directory answers (external): each call one moment's truth.
Owned(t) == {d \in Domains : owner[d] = t}
AccountAt(t, e) == IF owner[Home[e]] = t THEN standing[e] ELSE "none"
Named(g) == g \in Emails => standing[g] = "none"   \* no account has a group's address
GroupsAt(t) == {g \in Groups : owner[Home[g]] = t /\ Named(g)}
GroupsOfAt(t, e) == {g \in GroupsAt(t) : e \in members[g]}

\* A tenant's record when it is adopted.
Connected(t, ok, serve, sync, declared) ==
  [domains |-> IF ok THEN Owned(t) ELSE {}, serve |-> serve, sync |-> sync,
   ok |-> ok, probed |-> now, declared |-> declared]

\* backendFor: the open reader, or one opened from the stored credential of
\* a tenant that has a record.
Opened(r, t) ==
  IF reader[r][t] # None THEN reader[r][t]
  ELSE IF record[t] # None THEN cred[t] ELSE None
Open(r, t) == reader' = [reader EXCEPT ![r][t] = Opened(r, t)]
Works(r, t) == Opened(r, t) # None /\ Opened(r, t) \notin revoked

Active(x) == pc[x] \notin {"idle", "done"}
\* A full read at one of rs, or a request of xs about t, has its record in hand.
InHandOf(t, rs, xs) ==
  \/ \E r \in rs : flight[r][t].pc \in {"accounts", "groups", "put"}
  \/ \E y \in xs : Active(y) /\ job[y].t = t /\ job[y].kind # "group"
RecordInHand(x, t) == InHandOf(t, Replicas, Tasks \ {x})
\* Another request has t's snapshot in hand, and will write it back.
SnapshotInHand(x, t) ==
  \E y \in Tasks \ {x} :
    job[y].t = t /\ pc[y] \in {"live", "memberships", "patch", "narrowed"}
Mishap(x, crossed) == mishap' = IF crossed THEN mishap \cup {job[x].t} ELSE mishap

-----------------------------------------------------------------------------
(* Refresh: a full read, one flight a replica and tenant. *)

\* refreshSoon, or a caller that waits: joins the read under way or begins.
Soon(r, t) ==
  flight' = IF flight[r][t].pc = "idle"
            THEN [flight EXCEPT ![r][t] = [Idle(FALSE) EXCEPT !.pc = "open"]]
            ELSE flight

requests == <<pc, job, mem>>
FlightOnly ==
  /\ answer' = None
  /\ UNCHANGED <<now, world, revoked, record, cred, start, requests, events,
                 last, moved, steady, choice>>

\* The schedule, or an operator pressing Refresh.
Refresh(r, t) ==
  /\ start[r] = Up /\ flight[r][t].pc = "idle" /\ refreshes < MaxRefreshes
  /\ refreshes' = refreshes + 1
  /\ Soon(r, t)
  /\ FlightOnly /\ UNCHANGED <<snapshot, reader, mishap>>

FlightOpen(r, t) ==
  /\ flight[r][t].pc = "open"
  /\ Open(r, t)
  /\ flight' = [flight EXCEPT ![r][t] =
                  IF Opened(r, t) = None THEN Idle(FALSE)
                  ELSE [@ EXCEPT !.pc = "record", !.by = Opened(r, t)]]
  /\ FlightOnly /\ UNCHANGED <<snapshot, refreshes, mishap>>

FlightRecord(r, t) ==
  /\ flight[r][t].pc = "record"
  /\ flight' = [flight EXCEPT ![r][t] =
                  IF record[t] # None THEN [@ EXCEPT !.pc = "accounts", !.ws = record[t]]
                  ELSE Idle(FALSE)]
  /\ FlightOnly /\ UNCHANGED <<snapshot, reader, refreshes, mishap>>

FlightAccounts(r, t) ==
  /\ flight[r][t].pc = "accounts" /\ flight[r][t].by \notin revoked
  /\ flight' = [flight EXCEPT ![r][t] =
                  [@ EXCEPT !.pc = "groups", !.began = now,
                     !.accounts = [e \in Emails |-> AccountAt(t, e)]]]
  /\ FlightOnly /\ UNCHANGED <<snapshot, reader, refreshes, mishap>>

\* The groups, then the snapshot: narrowed to the record read before, and as
\* old as this moment.
FlightGroups(r, t) ==
  /\ flight[r][t].pc = "groups" /\ flight[r][t].by \notin revoked
  /\ LET f == flight[r][t]
         all == NewSnapshot(now, f.accounts, GroupsAt(t), members, GroupsAt(t), {})
     IN  flight' = [flight EXCEPT ![r][t] =
                      [Idle(FALSE) EXCEPT !.pc = "put",
                         !.snap = restrict(all, f.ws.serve, f.ws.sync)]]
  /\ FlightOnly /\ UNCHANGED <<snapshot, reader, refreshes, mishap>>

FlightPut(r, t) ==
  /\ flight[r][t].pc = "put"
  /\ snapshot' = [snapshot EXCEPT ![t] = flight[r][t].snap]
  /\ flight' = [flight EXCEPT ![r][t] = Idle(TRUE)]
  /\ mishap' = IF \E x \in Tasks : job[x].t = t /\ job[x].kind = "disconnect"
               THEN mishap \cup {t} ELSE mishap
  /\ FlightOnly /\ UNCHANGED <<reader, refreshes>>

\* A call of the directory or of the store fails: nothing partial is stored.
FlightFails(r, t) ==
  /\ flight[r][t].pc # "idle"
  /\ flight' = [flight EXCEPT ![r][t] = Idle(FALSE)]
  /\ FlightOnly /\ UNCHANGED <<snapshot, reader, refreshes, mishap>>

FlightStep(r, t) ==
  \/ Refresh(r, t) \/ FlightOpen(r, t) \/ FlightRecord(r, t)
  \/ FlightAccounts(r, t) \/ FlightGroups(r, t) \/ FlightPut(r, t)
  \/ FlightFails(r, t)

-----------------------------------------------------------------------------
(* Requests.  Begin is a request's first call, Finish its return. *)

Begin(x, kind, r, t, arg, demand, m, where) ==
  /\ pc[x] = "idle"
  /\ job' = [job EXCEPT ![x] =
       [kind |-> kind, r |-> r, t |-> t, arg |-> arg, demand |-> demand]]
  /\ mem' = [mem EXCEPT ![x] = [m EXCEPT !.asked = now]]
  /\ pc' = [pc EXCEPT ![x] = where]
  /\ answer' = None
Go(x, where, m) ==
  /\ pc' = [pc EXCEPT ![x] = where]
  /\ mem' = [mem EXCEPT ![x] = m]
  /\ answer' = None
  /\ UNCHANGED job
Finish(x, a) ==
  /\ pc' = [pc EXCEPT ![x] = "done"]
  /\ mem' = [mem EXCEPT ![x] = NoMem]
  /\ job' = [job EXCEPT ![x] = NoJob]
  /\ answer' = a

At(x, kinds, where) == pc[x] = where /\ job[x].kind \in kinds

\* A store read that may fail: the value, or nothing.
Readable(v) == {v, None}

still == <<now, world, start, events, refreshes, last, moved, steady>>
OnlyAsk == UNCHANGED <<still, revoked, record, cred, snapshot, reader, flight, choice, mishap>>

-----------------------------------------------------------------------------
(* point: one address, by the cheapest path. *)

PointAnswer(x, st, auth) ==
  [kind |-> "point", about |-> job[x].arg, standing |-> st, members |-> {},
   auth |-> auth, asked |-> mem[x].asked,
   probed |-> mem[x].ws.probed, made |-> FALSE]

\* The records are listed; an address nobody serves is no opinion.
AskPoint(x, r, e, demand) ==
  /\ Routed(Home[e])
  /\ LET t == Route(Home[e])
     IN  Begin(x, "point", r, t, e, demand,
           [NoMem EXCEPT !.ws = record[t], !.conflict = Conflict(Home[e])], "look")
  /\ OnlyAsk

\* isGroup: a group when the snapshot was taken, kept or narrowed away.
IsGroup(s, a) == a \in s.kept \cup s.discovered

\* The snapshot answers when it is young enough and holds the address, or has it for a
\* group's: then it is no account's.
GoLive(s, e, demand) ==
  s = None \/ (demand /\ Age(s) > 0) \/ (s.accounts[e] = "none" /\ ~IsGroup(s, e))
Look(x) ==
  /\ At(x, {"point"}, "look")
  /\ \E s \in Readable(snapshot[job[x].t]) :
       IF GoLive(s, job[x].arg, job[x].demand)
       THEN Go(x, "live", [mem[x] EXCEPT !.snap = s])
       ELSE Finish(x, PointAnswer(x, s.accounts[job[x].arg],
                        Authoritative(mem[x].ws, mem[x].conflict, s)))
  /\ OnlyAsk

LiveAccount(x) ==
  /\ At(x, {"point"}, "live") /\ Works(job[x].r, job[x].t)
  /\ Open(job[x].r, job[x].t)
  /\ LET st == AccountAt(job[x].t, job[x].arg)
     IN  Go(x, IF st = "none" THEN "patch" ELSE "memberships",
            [mem[x] EXCEPT !.by = Opened(job[x].r, job[x].t), !.standing = st])
  /\ UNCHANGED <<still, revoked, record, cred, snapshot, flight, choice, mishap>>

LiveGroups(x) ==
  /\ At(x, {"point"}, "memberships") /\ mem[x].by \notin revoked
  /\ Go(x, "patch", [mem[x] EXCEPT !.groups = GroupsOfAt(job[x].t, job[x].arg)])
  /\ OnlyAsk

\* Mutant: what the snapshot lacks is vouched for though nobody was asked.
LiveFailsVouched(x) ==
  /\ pc[x] \in {"live", "memberships"}
  /\ Open(job[x].r, job[x].t) \/ UNCHANGED reader
  /\ LET s == mem[x].snap
     IN  Finish(x, PointAnswer(x, IF s = None THEN "none" ELSE s.accounts[job[x].arg],
                     ~mem[x].conflict /\ mem[x].ws.ok))
  /\ UNCHANGED <<still, revoked, record, cred, snapshot, flight, choice, mishap>>

\* A live read that was needed and failed: the snapshot's word, and no fact.
LiveFails(x) ==
  /\ pc[x] \in {"live", "memberships"}
  /\ Open(job[x].r, job[x].t) \/ UNCHANGED reader
  /\ LET s == mem[x].snap
     IN  Finish(x, PointAnswer(x, IF s = None THEN "none" ELSE s.accounts[job[x].arg], FALSE))
  /\ UNCHANGED <<still, revoked, record, cred, snapshot, flight, choice, mishap>>

\* The snapshot read before is written back with the account in it.
Patch(x) ==
  /\ At(x, {"point"}, "patch")
  /\ LET m == mem[x] IN
     /\ \/ /\ m.snap # None
           /\ snapshot' = [snapshot EXCEPT ![job[x].t] =
                             Patched(m.snap, job[x].arg, m.standing, m.groups)]
        \/ UNCHANGED snapshot
     /\ Finish(x, PointAnswer(x, m.standing, ~m.conflict /\ m.ws.ok))
  /\ UNCHANGED <<still, revoked, record, cred, reader, flight, choice, mishap>>

-----------------------------------------------------------------------------
(* Group and ListGroups: a group's members, out of the snapshot. *)

GroupAnswer(x, s) ==
  LET found == s # None /\ job[x].arg \in s.kept
  IN  [kind |-> "group", about |-> job[x].arg,
       standing |-> IF found THEN "live" ELSE "none",
       members |-> IF found THEN s.members[job[x].arg] ELSE {},
       auth |-> Authoritative(mem[x].ws, mem[x].conflict, s),
       asked |-> mem[x].asked, probed |-> mem[x].ws.probed,
       made |-> found /\ job[x].arg \in s.made]

AskGroup(x, r, g, demand) ==
  /\ Routed(Home[g])
  /\ LET t == Route(Home[g])
     IN  Begin(x, "group", r, t, g, demand,
           [NoMem EXCEPT !.ws = record[t], !.conflict = Conflict(Home[g])], "fresh")
  /\ OnlyAsk

\* ensureFresh.  With no demand the snapshot is served as it is, and a first
\* one is started; a demand it does not meet waits for a full read.
EnsureFresh(x) ==
  /\ At(x, {"group"}, "fresh")
  /\ LET r == job[x].r
         t == job[x].t
     IN  \E s \in Readable(snapshot[t]) :
           IF job[x].demand /\ (s = None \/ Age(s) > 0)
           THEN Soon(r, t) /\ Go(x, "await", [mem[x] EXCEPT !.snap = s])
           ELSE /\ IF s = None THEN Soon(r, t) ELSE UNCHANGED flight
                /\ Finish(x, GroupAnswer(x, s))
  /\ UNCHANGED <<still, revoked, record, cred, snapshot, reader, choice, mishap>>

\* A read that failed leaves what was there before.
Await(x) ==
  /\ At(x, {"group"}, "await")
  /\ LET f == flight[job[x].r][job[x].t]
     IN  /\ f.pc = "idle"
         /\ \E s \in IF f.ok THEN Readable(snapshot[job[x].t]) ELSE {None} :
              Finish(x, GroupAnswer(x, IF s = None THEN mem[x].snap ELSE s))
  /\ OnlyAsk

-----------------------------------------------------------------------------
(* SetServed and SetSynced: an operator's choice. *)

Choose(x, r, t, kind, new) ==
  /\ record[t] # None /\ ~record[t].declared
  /\ kind = "served" => new \subseteq record[t].domains
  /\ Begin(x, kind, r, t, new, FALSE,
       [NoMem EXCEPT !.ws =
          IF kind = "served" THEN [record[t] EXCEPT !.serve = new]
          ELSE [record[t] EXCEPT !.sync = new]],
       IF kind = "synced" /\ new # {} THEN "check" ELSE "store")
  /\ OnlyAsk

\* Only a group the last full read held may be named.
CheckSynced(x) ==
  /\ At(x, {"synced"}, "check")
  /\ LET s == snapshot[job[x].t]
     IN  IF s # None /\ job[x].arg \subseteq s.discovered
         THEN Go(x, "store", mem[x]) ELSE Finish(x, None)
  /\ OnlyAsk

\* The whole record is written back.  The answer of a write may be lost.
StoreChoice(x) ==
  /\ At(x, {"served", "synced"}, "store")
  /\ record' = [record EXCEPT ![job[x].t] = mem[x].ws]
  /\ \/ /\ choice' = [choice EXCEPT ![job[x].t] =
                        [serve |-> mem[x].ws.serve, sync |-> mem[x].ws.sync]]
        /\ Mishap(x, RecordInHand(x, job[x].t))
        /\ Go(x, "narrow", mem[x])
     \/ Mishap(x, TRUE) /\ Finish(x, None) /\ UNCHANGED choice
  /\ UNCHANGED <<still, revoked, cred, snapshot, reader, flight>>

NarrowRead(x) ==
  /\ At(x, {"served", "synced"}, "narrow")
  /\ LET t == job[x].t IN
     \E s \in Readable(snapshot[t]) :
       /\ mishap' = IF s = snapshot[t] THEN mishap ELSE mishap \cup {t}
       /\ IF s = None THEN Soon(job[x].r, t) /\ Finish(x, None)
          ELSE UNCHANGED flight /\ Go(x, "narrowed", [mem[x] EXCEPT !.snap = s])
  /\ UNCHANGED <<still, revoked, record, cred, snapshot, reader, choice>>

\* Mutant: the choice is left to the next full read.
NarrowedLater(kind, s, ws) == s

\* narrow and narrowGroups: a subtraction that keeps the snapshot's age.
Narrowed(kind, s, ws) ==
  IF kind = "served" THEN restrict(s, Served(ws), {}) ELSE restrict(s, {}, ws.sync)

\* A snapshot that cannot be narrowed to the served domains is dropped.
NarrowPut(x) ==
  /\ At(x, {"served", "synced"}, "narrowed")
  /\ LET t == job[x].t
         s == Narrowed(job[x].kind, mem[x].snap, mem[x].ws)
     IN  /\ \/ snapshot' = [snapshot EXCEPT ![t] = s] /\ Mishap(x, SnapshotInHand(x, t))
            \/ /\ job[x].kind = "served"
               /\ snapshot' = [snapshot EXCEPT ![t] = None] /\ Mishap(x, SnapshotInHand(x, t))
            \/ UNCHANGED snapshot /\ Mishap(x, TRUE)
         /\ Soon(job[x].r, t)
  /\ Finish(x, None)
  /\ UNCHANGED <<still, revoked, record, cred, reader, choice>>

-----------------------------------------------------------------------------
(* Probe: the credential is exercised and the domains read again. *)

ProbeOne(x, r, t) ==
  /\ record[t] # None
  /\ Begin(x, "probe", r, t, None, FALSE, [NoMem EXCEPT !.ws = record[t]], "probe")
  /\ OnlyAsk

\* Up to three attempts; the outcome is that of the last.
ProbeAsk(x) ==
  /\ At(x, {"probe"}, "probe")
  /\ Open(job[x].r, job[x].t)
  /\ \E ok \in BOOLEAN :
       /\ ok => Works(job[x].r, job[x].t)
       /\ LET ws == [mem[x].ws EXCEPT !.ok = ok, !.probed = mem[x].asked,
                       !.domains = IF ok THEN Owned(job[x].t) ELSE @]
          IN  Go(x, "probed", [mem[x] EXCEPT !.ws = ws])
  /\ UNCHANGED <<still, revoked, record, cred, snapshot, flight, choice, mishap>>

\* The whole record, as it was read before, with the outcome in it.
ProbeStore(x) ==
  /\ At(x, {"probe"}, "probed")
  /\ record' = [record EXCEPT ![job[x].t] = mem[x].ws]
  /\ Finish(x, None)
  /\ UNCHANGED <<still, revoked, cred, snapshot, reader, flight, choice, mishap>>

-----------------------------------------------------------------------------
(* Adopt: a tenant is connected, or connected again, with a new credential. *)

\* The tenant read is a probe; the reader is open at this replica from here.
Adopt(x, r, t) ==
  /\ \E ok \in BOOLEAN :
       Begin(x, "adopt", r, t, None, FALSE,
         [NoMem EXCEPT !.ws = Connected(t, ok, {}, {}, FALSE)], "save")
  /\ reader' = [reader EXCEPT ![r][t] = x]
  /\ UNCHANGED <<still, revoked, record, cred, snapshot, flight, choice, mishap>>

AdoptSave(x) ==
  /\ At(x, {"adopt"}, "save")
  /\ cred' = [cred EXCEPT ![job[x].t] = x]
  /\ Go(x, "existing", mem[x])
  /\ UNCHANGED <<still, revoked, record, snapshot, reader, flight, choice, mishap>>

\* defaultServe: the administrator's own domain, if the tenant holds it.
DefaultServe(ws) == {AdminDomain} \cap ws.domains

\* Mutant: a reconnected tenant is served as a new one.
AdoptExistingAnew(x) ==
  /\ At(x, {"adopt"}, "existing")
  /\ Go(x, "adopt", [mem[x] EXCEPT !.known = (record[job[x].t] # None),
                       !.ws.serve = DefaultServe(mem[x].ws)])
  /\ UNCHANGED <<still, revoked, record, cred, snapshot, reader, flight, choice, mishap>>

\* What was decided before outlives the credential.  A record that cannot be
\* read is taken for none.
AdoptExisting(x) ==
  /\ At(x, {"adopt"}, "existing")
  /\ LET t == job[x].t IN
     \E old \in Readable(record[t]) :
       /\ mishap' = IF old = record[t] THEN mishap ELSE mishap \cup {t}
       /\ Go(x, "adopt",
            [mem[x] EXCEPT !.known = (old # None),
               !.ws.serve = IF old # None THEN old.serve ELSE DefaultServe(mem[x].ws),
               !.ws.sync = IF old # None THEN old.sync ELSE {}])
  /\ UNCHANGED <<still, revoked, record, cred, snapshot, reader, flight, choice>>

AdoptStore(x) ==
  /\ At(x, {"adopt"}, "adopt")
  /\ LET t == job[x].t
         ws == mem[x].ws
     IN  /\ record' = [record EXCEPT ![t] = ws]
         /\ choice' = IF mem[x].known THEN choice
                      ELSE [choice EXCEPT ![t] = [serve |-> ws.serve, sync |-> ws.sync]]
         /\ Soon(job[x].r, t)
  /\ Mishap(x, RecordInHand(x, job[x].t))
  /\ Finish(x, None)
  /\ UNCHANGED <<still, revoked, cred, snapshot, reader>>

-----------------------------------------------------------------------------
(* Disconnect: the credential is handed back, then everything forgotten.  *)
(* Only the last call's failure is an error.                               *)

Disconnect(x, r, t) ==
  /\ record[t] # None /\ ~record[t].declared
  /\ Begin(x, "disconnect", r, t, None, FALSE, NoMem, "revoke")
  /\ OnlyAsk

Revoke(x) ==
  /\ At(x, {"disconnect"}, "revoke")
  /\ Open(job[x].r, job[x].t)
  /\ \/ revoked' = revoked \cup ({Opened(job[x].r, job[x].t)} \ {None})
     \/ UNCHANGED revoked
  /\ Go(x, "dropSnapshot", mem[x])
  /\ UNCHANGED <<still, record, cred, snapshot, flight, choice, mishap>>

DropSnapshot(x) ==
  /\ At(x, {"disconnect"}, "dropSnapshot")
  /\ \/ snapshot' = [snapshot EXCEPT ![job[x].t] = None] /\ Mishap(x, SnapshotInHand(x, job[x].t))
     \/ UNCHANGED snapshot /\ Mishap(x, TRUE)
  /\ Go(x, "dropCredential", mem[x])
  /\ UNCHANGED <<still, revoked, record, cred, reader, flight, choice>>

DropCredential(x) ==
  /\ At(x, {"disconnect"}, "dropCredential")
  /\ \/ cred' = [cred EXCEPT ![job[x].t] = None] /\ UNCHANGED mishap
     \/ UNCHANGED cred /\ Mishap(x, TRUE)
  /\ reader' = [reader EXCEPT ![job[x].r][job[x].t] = None]
  /\ Go(x, "dropRecord", mem[x])
  /\ UNCHANGED <<still, revoked, record, snapshot, flight, choice>>

DropRecord(x) ==
  /\ At(x, {"disconnect"}, "dropRecord")
  /\ record' = [record EXCEPT ![job[x].t] = None]
  /\ Mishap(x, RecordInHand(x, job[x].t))
  /\ Finish(x, None)
  /\ UNCHANGED <<still, revoked, cred, snapshot, reader, flight, choice>>

\* A call fails and the request returns, or is cancelled.
Abandon(x) ==
  /\ Active(x)
  /\ mishap' = IF job[x].kind \in {"point", "group"} THEN mishap
               ELSE mishap \cup {job[x].t}
  /\ Finish(x, None)
  /\ UNCHANGED <<still, revoked, record, cred, snapshot, reader, flight, choice>>

Arrive(x) ==
  /\ Cardinality({y \in Tasks : pc[y] # "idle"}) < MaxRequests
  /\ \E r \in {q \in Replicas : start[q] = Up} :
    \/ /\ x \in Asking
       /\ \E demand \in BOOLEAN : \/ \E e \in Emails : AskPoint(x, r, e, demand)
                                 \/ \E g \in Groups : AskGroup(x, r, g, demand)
    \/ x \in Probing /\ \E t \in Tenants : ProbeOne(x, r, t)
    \/ /\ x \in Operating
       /\ \E t \in Tenants :
            \/ \E new \in ServeChoices : Choose(x, r, t, "served", new)
            \/ \E new \in SyncChoices : Choose(x, r, t, "synced", new)
            \/ Adopt(x, r, t) \/ Disconnect(x, r, t)

Step(x) ==
  \/ Look(x) \/ LiveAccount(x) \/ LiveGroups(x) \/ LiveFails(x) \/ Patch(x)
  \/ EnsureFresh(x) \/ Await(x)
  \/ CheckSynced(x) \/ StoreChoice(x) \/ NarrowRead(x) \/ NarrowPut(x)
  \/ ProbeAsk(x) \/ ProbeStore(x)
  \/ AdoptSave(x) \/ AdoptExisting(x) \/ AdoptStore(x)
  \/ Revoke(x) \/ DropSnapshot(x) \/ DropCredential(x) \/ DropRecord(x)
  \/ Abandon(x)

-----------------------------------------------------------------------------
(* The environment. *)

hub == <<revoked, record, cred, snapshot, reader, flight, start, requests>>
Event == events < MaxEvents /\ events' = events + 1 /\ answer' = None

\* An account is suspended, restored, deleted or made; one that is deleted
\* leaves its groups.  A group whose address becomes an account's is gone.
SetStanding(e, st) ==
  /\ Event /\ st # standing[e]
  /\ standing' = [standing EXCEPT ![e] = st]
  /\ last' = [last EXCEPT ![e][standing[e]] = now]
  /\ LET left == IF st = "none" THEN {e} ELSE {}
     IN  /\ members' = [g \in Groups |-> IF g = e THEN {} ELSE members[g] \ left]
         /\ steady' = {m \in steady : m[1] # e /\ m[2] \notin left}
  /\ UNCHANGED <<now, owner, hub, refreshes, moved, choice, mishap>>

MoveDomain(d, o) ==
  /\ Event /\ o # owner[d]
  /\ owner' = [owner EXCEPT ![d] = o]
  /\ moved' = [moved EXCEPT ![d] = now]
  /\ UNCHANGED <<now, standing, members, hub, refreshes, last, steady, choice, mishap>>

SetMember(g, e) ==
  /\ Event /\ standing[e] # "none" /\ Named(g)
  /\ members' = [members EXCEPT ![g] = IF e \in @ THEN @ \ {e} ELSE @ \cup {e}]
  /\ steady' = steady \ {<<g, e>>}
  /\ UNCHANGED <<now, standing, owner, hub, refreshes, last, moved, choice, mishap>>

\* A process ends and another takes its place: what it was doing is lost, and it brings
\* up its tenants before it serves anybody.
Restart(r) ==
  /\ Event
  /\ LET mine == {x \in Tasks : Active(x) /\ job[x].r = r}
     IN  /\ pc' = [x \in Tasks |-> IF x \in mine THEN "done" ELSE pc[x]]
         /\ job' = [x \in Tasks |-> IF x \in mine THEN NoJob ELSE job[x]]
         /\ mem' = [x \in Tasks |-> IF x \in mine THEN NoMem ELSE mem[x]]
         /\ mishap' = mishap \cup {job[x].t : x \in mine}
  /\ reader' = [reader EXCEPT ![r] = [t \in Tenants |-> None]]
  /\ flight' = [flight EXCEPT ![r] = [t \in Tenants |-> Idle(FALSE)]]
  /\ start' = [start EXCEPT ![r] = [Up EXCEPT !.todo = Tenants]]
  /\ UNCHANGED <<now, world, revoked, record, cred, snapshot, refreshes, last, moved, steady, choice>>

StartOnly ==
  /\ answer' = None
  /\ UNCHANGED <<now, world, revoked, cred, snapshot, requests, events, refreshes, last, moved, steady>>

\* adoptDeclared: a tenant the deployment declares is read, or cannot be, ...
StartAdopt(r, t) ==
  /\ start[r].t = None /\ t \in start[r].todo \cap Declared
  /\ \E ok \in BOOLEAN :
       start' = [start EXCEPT ![r] =
         [todo |-> start[r].todo \ {t}, t |-> t, ws |-> Connected(t, ok, {}, {}, TRUE)]]
  /\ reader' = [reader EXCEPT ![r][t] = "first"]
  /\ StartOnly /\ UNCHANGED <<record, flight, choice, mishap>>

\* ... and stored as the deployment states it.
StartStore(r) ==
  /\ start[r].t # None
  /\ LET t == start[r].t
         ws == start[r].ws
     IN  /\ record' = [record EXCEPT ![t] = ws]
         /\ choice' = [choice EXCEPT ![t] = [serve |-> ws.serve, sync |-> ws.sync]]
         /\ mishap' = IF InHandOf(t, Replicas, Tasks) THEN mishap \cup {t} ELSE mishap
         /\ Soon(r, t)
  /\ start' = [start EXCEPT ![r] = [Up EXCEPT !.todo = start[r].todo]]
  /\ StartOnly /\ UNCHANGED reader

\* reopenStored: what the deployment no longer declares is forgotten, all but its
\* snapshot; what was connected is opened from its credential, if that can be read.
StartReopen(r, t) ==
  /\ start[r].t = None /\ t \in start[r].todo
  /\ start' = [start EXCEPT ![r] = [Up EXCEPT !.todo = start[r].todo \ {t}]]
  /\ IF record[t] # None /\ record[t].declared
     THEN /\ record' = [record EXCEPT ![t] = None] /\ mishap' = mishap \cup {t}
          /\ UNCHANGED reader
     ELSE /\ \E c \in IF record[t] = None THEN {None} ELSE Readable(cred[t]) :
               reader' = [reader EXCEPT ![r][t] = c]
          /\ UNCHANGED <<record, mishap>>
  /\ StartOnly /\ UNCHANGED <<flight, choice>>

\* Time passes, a full read being done with its reads within ReadTime.
Tick ==
  /\ now < MaxTime
  /\ \A r \in Replicas, t \in Tenants :
       flight[r][t].pc = "groups" => now - flight[r][t].began < ReadTime
  /\ now' = now + 1 /\ answer' = None
  /\ UNCHANGED <<world, hub, events, refreshes, history>>

-----------------------------------------------------------------------------
\* Every tenant connected or declared, read once and just now; the replicas of
\* cold have not opened the connected ones yet.
Init ==
  /\ now = 0
  /\ standing \in FirstStandings /\ owner = FirstOwner
  /\ members = [g \in Groups |-> {e \in FirstMembers[g] : Named(g) /\ standing[e] # "none"}]
  /\ revoked = {}
  /\ \E sync \in FirstSyncs, cold \in FirstCold :
       /\ record = [t \in Tenants |->
            Connected(t, TRUE, {}, IF t \in Declared THEN {} ELSE sync, t \in Declared)]
       /\ cred = [t \in Tenants |-> IF t \in Declared THEN None ELSE "first"]
       /\ reader = [r \in Replicas |-> [t \in Tenants |->
            IF t \notin Declared /\ r \in cold THEN None ELSE "first"]]
  /\ snapshot = [t \in Tenants |->
       restrict(NewSnapshot(0, [e \in Emails |-> AccountAt(t, e)], GroupsAt(t), members,
                            GroupsAt(t), {}), {}, record[t].sync)]
  /\ flight = [r \in Replicas |-> [t \in Tenants |-> Idle(FALSE)]]
  /\ start = [r \in Replicas |-> Up]
  /\ pc = [x \in Tasks |-> "idle"] /\ job = [x \in Tasks |-> NoJob]
  /\ mem = [x \in Tasks |-> NoMem] /\ answer = None
  /\ events = 0 /\ refreshes = 0
  /\ last = [e \in Emails |-> [st \in Standing |-> Before]]
  /\ moved = [d \in Domains |-> Before]
  /\ steady = {m \in Groups \X Emails : m[2] \in members[m[1]]}
  /\ choice = [t \in Tenants |-> [serve |-> {}, sync |-> record[t].sync]]
  /\ mishap = {}

Next ==
  \/ \E x \in Tasks : Arrive(x) \/ Step(x)
  \/ \E r \in Replicas :
       \/ Restart(r) \/ StartStore(r)
       \/ \E t \in Tenants : StartAdopt(r, t) \/ StartReopen(r, t) \/ FlightStep(r, t)
  \/ \E e \in Emails : \/ \E st \in Standing : SetStanding(e, st)
                       \/ \E g \in Groups : SetMember(g, e)
  \/ \E d \in Domains, o \in Tenants : MoveDomain(d, o)
  \/ Tick

Spec == Init /\ [][Next]_vars

-----------------------------------------------------------------------------
(* Properties. *)

\* Every variable holds a value of its type.
TypeOK ==
  /\ now \in Time
  /\ standing \in [Emails -> Standing]
  /\ owner \in [Domains -> Tenants]
  /\ members \in [Groups -> SUBSET Emails]
  /\ revoked \subseteq Credential
  /\ record \in [Tenants -> Record \cup {None}]
  /\ cred \in [Tenants -> Credential \cup {None}]
  /\ snapshot \in [Tenants -> Snapshot \cup {None}]
  /\ reader \in [Replicas -> [Tenants -> Credential \cup {None}]]
  /\ flight \in [Replicas -> [Tenants -> Flight]]
  /\ start \in [Replicas -> Starting]
  /\ pc \in [Tasks -> Pc] /\ job \in [Tasks -> Job] /\ mem \in [Tasks -> Mem]
  /\ \A x \in Tasks : Active(x) <=> job[x] # NoJob
  /\ events \in 0 .. MaxEvents /\ refreshes \in 0 .. MaxRefreshes
  /\ last \in [Emails -> [Standing -> Time \cup {Before}]]
  /\ moved \in [Domains -> Time \cup {Before}]
  /\ steady \subseteq Groups \X Emails
  /\ choice \in [Tenants -> [serve : SUBSET Domains, sync : SUBSET Groups]]
  /\ mishap \subseteq Tenants

Answers(kind) == {a \in {answer} : a # None /\ a.kind = kind}
Held(e, st, since) == standing[e] = st \/ last[e][st] >= since

\* "Not found" is a removal signal: where the hub vouches for it, the account
\* was absent at some moment of the call, or its domain has changed hands since
\* the probe the routing rests on; an address the snapshot has for a group's, which nobody
\* is asked about, was no account's at some moment of the freshness window before
\* (point, pointLive, isGroup, authoritative).
AbsenceTrue ==
  \A a \in Answers("point") :
    a.auth /\ a.standing = "none" =>
      \/ Held(a.about, "none", a.asked) \/ moved[Home[a.about]] >= a.probed
      \/ a.about \in Groups /\ Held(a.about, "none", a.asked - FreshnessWindow)

\* A standing the hub vouches for is one the account had since the freshness
\* window, and the time of a full read, before it was asked, whatever patches, narrowings and full
\* reads overwrote one another (authoritative, patchAccount, narrow, Refresh).
StandingFresh ==
  \A a \in Answers("point") :
    a.auth /\ a.standing # "none" =>
      Held(a.about, a.standing, a.asked - FreshnessWindow - ReadTime)

\* Who has been in a group all along, its domain and theirs at one tenant.
Steady(g) ==
  {m[2] : m \in {n \in steady : n[1] = g /\ moved[Home[g]] = Before
                               /\ moved[Home[n[2]]] = Before}}

\* A group the hub vouches for lists everyone who has been in it all along:
\* no patch, narrowing or crossing write loses a member.  Groups that came into
\* the snapshot by a patch are excepted: see WholeAlways.
GroupsWhole ==
  \A a \in Answers("group") :
    a.auth /\ a.standing = "live" /\ ~a.made =>
      Steady(a.about) \subseteq a.members

\* What an operator chose stays in the record, through probes, full reads and
\* a reconnect, where nothing else was under way and nothing failed (SetServed,
\* SetSynced, Adopt).
DecisionKept ==
  \A t \in Tenants \ mishap :
    record[t] # None => [serve |-> record[t].serve, sync |-> record[t].sync] = choice[t]

Choosing(t) == \E x \in Tasks : Active(x) /\ job[x].t = t /\ job[x].kind \in {"served", "synced"}

\* What an operator excluded is not in the snapshot once the choice has been answered:
\* accounts do not come back with later lookups, full reads and reconnects, and groups come
\* back only by the patch of a lookup (made).  This is where nothing that had the record or
\* the snapshot in hand met the choice, and nothing failed: a patch or a full read that
\* began before brings all of it back (SetServed, SetSynced, Refresh; see ExcludedForGood).
ExcludedGone ==
  \A t \in Tenants \ mishap :
    record[t] # None /\ snapshot[t] # None /\ ~Choosing(t) =>
      /\ choice[t].serve # {} =>
           \A e \in Emails : snapshot[t].accounts[e] # "none" => Home[e] \in choice[t].serve
      /\ choice[t].sync # {} => snapshot[t].kept \ snapshot[t].made \subseteq choice[t].sync

\* A tenant that was disconnected leaves neither snapshot nor credential, where
\* nothing else was under way and no call failed (Disconnect).
NothingLeft ==
  \A t \in Tenants \ mishap :
    record[t] = None /\ ~(\E x \in Tasks : job[x].t = t) =>
      snapshot[t] = None /\ cred[t] = None

-----------------------------------------------------------------------------
(* What the comments say without exception; each fails.  See the README. *)

\* snapshot.go: "A group returned short is a partial list presented as a whole,
\* which is the one thing this hub never does."
WholeAlways ==
  \A a \in Answers("group") :
    a.auth /\ a.standing = "live" =>
      Steady(a.about) \subseteq a.members

\* workspace.go: "The old tenant stops serving it the moment the directory stops
\* listing it".
AbsentIsGone ==
  \A a \in Answers("point") :
    a.auth /\ a.standing = "none" /\ a.about \notin Groups => Held(a.about, "none", a.asked)

\* hub.go: "an account created since the last pass must never be reported absent".
NeverReportedAbsent ==
  \A a \in Answers("point") :
    a.auth /\ a.standing = "none" =>
      Held(a.about, "none", a.asked) \/ moved[Home[a.about]] >= a.probed

\* hub.go: what an operator "has just said to stop keeping must stop being answerable".
ExcludedForGood ==
  \A t \in Tenants \ mishap :
    record[t] # None /\ snapshot[t] # None /\ ~Choosing(t) /\ choice[t].sync # {}
      => snapshot[t].kept \subseteq choice[t].sync

\* The same, whatever met the choice.
ChoiceHolds ==
  \A t \in Tenants :
    record[t] # None => [serve |-> record[t].serve, sync |-> record[t].sync] = choice[t]

\* hub.go: "The store is the truth and the reader map is a cache of it."
ReaderCurrent ==
  \A r \in Replicas, t \in Tenants :
    /\ record[t] # None /\ ~record[t].declared /\ cred[t] # None
    /\ \A x \in Tasks : job[x].t # t
    => reader[r][t] \in {None, cred[t]}

\* snapshot.go: a patch "makes the snapshot a little fresher".
NeverAges ==
  [][\A t \in Tenants : snapshot[t] # None /\ snapshot'[t] # None
       => snapshot'[t].at >= snapshot[t].at]_vars
=============================================================================
