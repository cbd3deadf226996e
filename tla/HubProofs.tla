----------------------------- MODULE HubProofs -----------------------------
(***************************************************************************)
(* Theorems about Hub, for any replicas, tenants, domains, people, groups, *)
(* requests and events: what the hub vouches for was true, and what an     *)
(* operator decided stays decided.                                         *)
(***************************************************************************)
EXTENDS Hub, FiniteSetTheorems, TLAPS

-----------------------------------------------------------------------------
(* What each place knows.                                                  *)

\* A request of a kind is at one of its places.
PcsOf(kind) ==
  CASE kind = "point" -> {"look", "live", "memberships", "patch"}
    [] kind = "group" -> {"fresh", "await"}
    [] kind = "served" -> {"store", "narrow", "narrowed"}
    [] kind = "synced" -> {"check", "store", "narrow", "narrowed"}
    [] kind = "probe" -> {"probe", "probed"}
    [] kind = "adopt" -> {"save", "existing", "adopt"}
    [] kind = "disconnect" -> {"revoke", "dropSnapshot", "dropCredential", "dropRecord"}

ArgsOf(kind) ==
  CASE kind = "point" -> Emails
    [] kind = "group" -> Groups
    [] kind = "served" -> SUBSET Domains
    [] kind = "synced" -> SUBSET Groups
    [] OTHER -> {None}

\* A request at p that does j and remembers m is about a tenant, at a replica, and has
\* what the calls before returned.
Placed(p, j, m) ==
  /\ j.kind \in Kinds /\ j.r \in Replicas /\ j.t \in Tenants
  /\ p \in PcsOf(j.kind)
  /\ j.arg \in ArgsOf(j.kind)
  /\ j.kind # "disconnect" => m.ws \in Record
  /\ p = "narrowed" => m.snap \in Snapshot
  /\ m.asked \in Time

\* A full read has what its reads returned.
FlightPlaced(f) ==
  /\ f.pc \in {"accounts", "groups"} => f.ws \in Record
  /\ f.pc = "groups" => f.accounts \in [Emails -> Standing] /\ f.began \in Time
  /\ f.pc = "put" => f.snap \in Snapshot

\* What a starting process has read of a declared tenant.
StartPlaced(b) == b.t # None => b.ws \in Record /\ b.ws.serve = {} /\ b.ws.sync = {}

Shape ==
  /\ \A x \in Tasks : Active(x) => Placed(pc[x], job[x], mem[x])
  /\ \A r \in Replicas, t \in Tenants : FlightPlaced(flight[r][t])
  /\ \A r \in Replicas : StartPlaced(start[r])

TypeInv == TypeOK /\ Shape

-----------------------------------------------------------------------------
(* What was true when.                                                     *)

\* The directories, and what happened to them, at a moment.
Moment ==
  [now |-> now, standing |-> standing, owner |-> owner, members |-> members,
   last |-> last, moved |-> moved, steady |-> steady]
Moments ==
  [now : Time, standing : [Emails -> Standing], owner : [Domains -> Tenants],
   members : [Groups -> SUBSET Emails], last : [Emails -> [Standing -> Time \cup {Before}]],
   moved : [Domains -> Time \cup {Before}], steady : SUBSET (Groups \X Emails)]

\* Nothing is dated later than now, and who has been in a group all along still is, the
\* group's address being nobody's.
Dated(w) ==
  /\ \A e \in Emails, st \in Standing : w.last[e][st] <= w.now
  /\ \A d \in Domains : w.moved[d] <= w.now
  /\ \A g \in Groups, e \in Emails :
       <<g, e>> \in w.steady =>
         /\ e \in w.members[g] /\ w.standing[e] # "none"
         /\ g \in Emails => w.standing[g] = "none"

HeldAt(w, e, st, since) == w.standing[e] = st \/ w.last[e][st] >= since

\* A domain that is t's, or has changed hands.
Hers(w, d, t) == w.owner[d] = t \/ w.moved[d] # Before

\* Somebody who has been in a group all along, as Steady has it.
Always(w, g, e) ==
  <<g, e>> \in w.steady /\ w.moved[Home[g]] = Before /\ w.moved[Home[e]] = Before

RecordTrue(w, ws, t) ==
  /\ ws.probed <= w.now
  /\ \A d \in ws.domains : Hers(w, d, t)
  /\ ws.ok => \A d \in ws.domains : w.owner[d] = t \/ w.moved[d] >= ws.probed

\* The addresses a snapshot has for groups'.
GroupsIn(s) == s.kept \cup s.discovered

SnapshotTrue(w, s, t) ==
  /\ s.at <= w.now
  /\ \A e \in Emails : s.accounts[e] # "none" => HeldAt(w, e, s.accounts[e], s.at - ReadTime)
  /\ \A g \in s.kept : Hers(w, Home[g], t)
  /\ \A g \in s.kept \ s.made, e \in Emails : Always(w, g, e) => e \in s.members[g]
  /\ \A g \in GroupsIn(s) \cap Emails : HeldAt(w, g, "none", s.at)

FlightTrue(w, f, t) ==
  /\ f.pc = "groups" =>
       /\ f.began <= w.now /\ w.now - f.began <= ReadTime
       /\ \A e \in Emails : f.accounts[e] # "none" => HeldAt(w, e, f.accounts[e], f.began)
  /\ f.pc = "put" => SnapshotTrue(w, f.snap, t)

\* What a live read said of an address.
LiveTrue(w, m, e) ==
  /\ m.standing # "none" => HeldAt(w, e, m.standing, m.asked)
  /\ m.standing # "none" /\ m.snap # None => HeldAt(w, e, m.standing, m.snap.at - ReadTime)
  /\ \A g \in Groups : Always(w, g, e) => m.standing # "none"

\* What is about to be patched into the snapshot, and answered.
PatchTrue(w, m, e) ==
  /\ m.standing = "none" =>
       \/ HeldAt(w, e, "none", m.asked)
       \/ ~m.ws.ok
       \/ w.moved[Home[e]] >= m.ws.probed
  /\ m.snap # None => \A g \in m.snap.kept : Always(w, g, e) => g \in m.groups
  /\ m.snap # None /\ m.standing # "none" =>
       \A g \in m.groups \cap Emails : HeldAt(w, g, "none", m.snap.at)

RequestTrue(w, p, j, m) ==
  /\ m.asked <= w.now
  /\ j.kind # "disconnect" => RecordTrue(w, m.ws, j.t)
  /\ m.snap # None => SnapshotTrue(w, m.snap, j.t)
  /\ \A g \in m.groups : Hers(w, Home[g], j.t)
  /\ j.kind = "point" => Home[j.arg] \in m.ws.domains
  /\ p \in {"memberships", "patch"} => LiveTrue(w, m, j.arg)
  /\ p = "memberships" => m.standing # "none"
  /\ p = "patch" => PatchTrue(w, m, j.arg)

TruthInv ==
  /\ Dated(Moment)
  /\ \A t \in Tenants : record[t] # None => RecordTrue(Moment, record[t], t)
  /\ \A t \in Tenants : snapshot[t] # None => SnapshotTrue(Moment, snapshot[t], t)
  /\ \A r \in Replicas, t \in Tenants : FlightTrue(Moment, flight[r][t], t)
  /\ \A x \in Tasks : Active(x) => RequestTrue(Moment, pc[x], job[x], mem[x])
  /\ \A r \in Replicas : start[r].t # None => RecordTrue(Moment, start[r].ws, start[r].t)

-----------------------------------------------------------------------------
(* What an operator decided.                                               *)

As(ws, c) == ws.serve = c.serve /\ ws.sync = c.sync
OnlyServed(s, c) ==
  c.serve # {} => \A e \in Emails : s.accounts[e] # "none" => Home[e] \in c.serve
OnlySynced(s, c) == c.sync # {} => s.kept \ s.made \subseteq c.sync

\* A stored choice that the snapshot has yet to be narrowed to.
Narrowing(x, t) == pc[x] \in {"narrow", "narrowed"} /\ job[x].t = t
Owed(t) == {job[x].kind : x \in {y \in Tasks : Narrowing(y, t)}}

\* What the store holds of a tenant, and what was decided.
View(t) == [record |-> record[t], snapshot |-> snapshot[t], choice |-> choice[t], owed |-> Owed(t)]

Obeys(v, s) ==
  /\ "served" \in v.owed \/ OnlyServed(s, v.choice)
  /\ "synced" \in v.owed \/ OnlySynced(s, v.choice)

\* A request at p that does j and remembers m.
RequestObeys(v, p, j, m) ==
  /\ j.kind = "point" /\ v.choice.serve # {} => Home[j.arg] \in v.choice.serve
  /\ m.snap # None /\ j.kind # "group" =>
       /\ p \in {"live", "memberships", "patch", "narrowed"}
       /\ v.snapshot # None /\ Obeys(v, m.snap)
  /\ j.kind = "served" => m.ws.serve \subseteq m.ws.domains /\ m.ws.sync = v.choice.sync
  /\ j.kind = "synced" => m.ws.serve = v.choice.serve
  /\ p \in {"narrow", "narrowed"} => As(m.ws, v.choice)
  /\ j.kind = "probe" => As(m.ws, v.choice) /\ v.record # None
  /\ p = "adopt" /\ m.known => As(m.ws, v.choice)
  /\ p = "adopt" /\ ~m.known => v.record = None
  /\ p \in {"dropCredential", "dropRecord"} => v.snapshot = None

FlightObeys(v, f) ==
  /\ f.pc \in {"accounts", "groups", "put"} => v.record # None
  /\ f.pc \in {"accounts", "groups"} => As(f.ws, v.choice)
  /\ f.pc = "put" => OnlyServed(f.snap, v.choice) /\ OnlySynced(f.snap, v.choice)

Obedient(t) ==
  /\ record[t] # None => As(record[t], choice[t])
  /\ record[t] = None => snapshot[t] = None
  /\ snapshot[t] # None => Obeys(View(t), snapshot[t])
  /\ \A r \in Replicas : FlightObeys(View(t), flight[r][t])
  /\ \A x \in Tasks : Active(x) /\ job[x].t = t => RequestObeys(View(t), pc[x], job[x], mem[x])

ChoiceInv == \A t \in Tenants \ mishap : Obedient(t)

-----------------------------------------------------------------------------
(* Values.                                                                 *)

\* The constants, as the proofs use them.
LEMMA Constants ==
  /\ Home \in [Emails \cup Groups -> Domains]
  /\ \A e \in Emails : Home[e] \in Domains
  /\ \A g \in Groups : Home[g] \in Domains
  /\ Time \subseteq Nat /\ 0 \in Time /\ ReadTime \in Nat /\ MaxTime \in Nat
  /\ Before = -1 /\ Before \notin Time
BY HubAssumption DEF Time, Before

\* Times are numbers.
LEMMA TimeIs == /\ \A n \in Time : n \in Int /\ n \in Nat /\ n >= 0 /\ n # Before
                /\ \A n \in Time \cup {Before} : n \in Int
                /\ ReadTime \in Nat /\ Before \in Int
BY HubAssumption DEF Time, Before

\* None is neither a record nor a snapshot nor a tenant.
LEMMA Nothing ==
  /\ \A ws \in Record : ws # None
  /\ \A s \in Snapshot : s # None
  /\ \A t \in Tenants : t # None
BY HubAssumption, NoneIsNothing

\* The fields of a snapshot.
LEMMA SnapshotFields ==
  ASSUME NEW s \in Snapshot
  PROVE  /\ s.at \in Time /\ s.accounts \in [Emails -> Standing]
         /\ s.kept \subseteq Groups /\ s.members \in [Groups -> SUBSET Emails]
         /\ s.discovered \subseteq Groups /\ s.made \subseteq Groups
BY DEF Snapshot

\* The fields of a record.
LEMMA RecordFields ==
  ASSUME NEW ws \in Record
  PROVE  /\ ws.domains \subseteq Domains /\ ws.serve \subseteq Domains
         /\ ws.sync \subseteq Groups /\ ws.ok \in BOOLEAN /\ ws.probed \in Time
         /\ ws.declared \in BOOLEAN
BY DEF Record

\* restrict takes away, and keeps what it keeps as it was.
LEMMA RestrictIs ==
  \A s \in Snapshot, serve \in SUBSET Domains, sync \in SUBSET Groups :
    LET n == restrict(s, serve, sync) IN
    /\ n \in Snapshot
    /\ n.at = s.at
    /\ \A e \in Emails : n.accounts[e] # "none" =>
         n.accounts[e] = s.accounts[e] /\ (serve = {} \/ Home[e] \in serve)
    /\ n.kept \subseteq s.kept
    /\ sync # {} => n.kept \subseteq sync
    /\ n.made = s.made \cap n.kept
    /\ \A g \in n.kept : n.members[g] = s.members[g]
    /\ GroupsIn(n) \subseteq GroupsIn(s)
<1>. TAKE s \in Snapshot, serve \in SUBSET Domains, sync \in SUBSET Groups
<1>. DEFINE inServed(a) == serve = {} \/ Home[a] \in serve
            kept == {g \in s.kept : inServed(g) \/ \E e \in s.members[g] : inServed(e)}
            all == IF sync = {} THEN kept ELSE kept \cap sync
            accounts == [e \in Emails |-> IF inServed(e) THEN s.accounts[e] ELSE "none"]
            new == NewSnapshot(s.at, accounts, all, s.members, s.discovered, s.made)
<1>1. restrict(s, serve, sync) = new
  BY DEF restrict
<1>2. all \subseteq s.kept /\ all \subseteq Groups /\ (sync # {} => all \subseteq sync)
  BY SnapshotFields
<1>3. accounts \in [Emails -> Standing]
  BY SnapshotFields DEF Standing
<1>4. /\ new \in Snapshot /\ new.at = s.at /\ new.accounts = accounts /\ new.kept = all
      /\ new.made = s.made \cap all /\ \A g \in all : new.members[g] = s.members[g]
      /\ new.discovered = IF s.discovered = {} THEN all ELSE s.discovered
  <2>1. /\ s.at \in Time /\ s.members \in [Groups -> SUBSET Emails]
        /\ s.discovered \subseteq Groups /\ s.made \subseteq Groups
    BY SnapshotFields
  <2>. HIDE DEF accounts, all
  <2>. QED
    BY <1>2, <1>3, <2>1 DEF NewSnapshot, Snapshot
<1>5. \A e \in Emails : accounts[e] # "none" =>
        accounts[e] = s.accounts[e] /\ (serve = {} \/ Home[e] \in serve)
  OBVIOUS
<1>. HIDE DEF new, accounts, all
<1>6. GroupsIn(new) \subseteq GroupsIn(s)
  BY <1>2, <1>4 DEF GroupsIn
<1>. QED
  BY <1>1, <1>2, <1>4, <1>5, <1>6

\* What is restricted is a snapshot.
LEMMA RestrictType ==
  \A s \in Snapshot, serve \in SUBSET Domains, sync \in SUBSET Groups :
    restrict(s, serve, sync) \in Snapshot
BY RestrictIs

\* patchAccount changes one account and its memberships.
LEMMA PatchedIs ==
  ASSUME NEW s \in Snapshot, NEW e \in Emails, NEW st \in Standing, NEW gs, gs \subseteq Groups
  PROVE  LET n == Patched(s, e, st, gs)
             in == IF st = "none" THEN {} ELSE gs
         IN  /\ n \in Snapshot
             /\ n.at = s.at
             /\ \A f \in Emails : n.accounts[f] = IF f = e THEN st ELSE s.accounts[f]
             /\ n.kept = s.kept \cup in
             /\ n.made = s.made \cup (in \ s.kept)
             /\ \A g \in Groups :
                  n.members[g] = (s.members[g] \ {e}) \cup IF g \in in THEN {e} ELSE {}
             /\ GroupsIn(n) = GroupsIn(s) \cup in
<1>. DEFINE in == IF st = "none" THEN {} ELSE gs
<1>1. in \subseteq Groups
  OBVIOUS
<1>. HIDE DEF in
<1>2. PICK accounts : accounts = [s.accounts EXCEPT ![e] = st]
  OBVIOUS
<1>3. PICK mm : mm = [g \in Groups |-> (s.members[g] \ {e}) \cup IF g \in in THEN {e} ELSE {}]
  OBVIOUS
<1>4. /\ accounts \in [Emails -> Standing]
      /\ \A f \in Emails : accounts[f] = IF f = e THEN st ELSE s.accounts[f]
  BY <1>2, SnapshotFields
<1>5. /\ mm \in [Groups -> SUBSET Emails]
      /\ \A g \in Groups : mm[g] = (s.members[g] \ {e}) \cup IF g \in in THEN {e} ELSE {}
  BY <1>3, SnapshotFields
<1>6. Patched(s, e, st, gs) =
        [at |-> s.at, accounts |-> accounts, kept |-> s.kept \cup in, members |-> mm,
         discovered |-> s.discovered, made |-> s.made \cup (in \ s.kept)]
  <2>1. s = [at |-> s.at, accounts |-> s.accounts, kept |-> s.kept, members |-> s.members,
             discovered |-> s.discovered, made |-> s.made]
    BY DEF Snapshot
  <2>2. Patched(s, e, st, gs) =
          [s EXCEPT !.accounts[e] = st, !.kept = @ \cup in, !.made = @ \cup (in \ s.kept),
             !.members = [g \in Groups |-> (@[g] \ {e}) \cup IF g \in in THEN {e} ELSE {}]]
    BY DEF Patched, in
  <2>. QED
    BY <1>2, <1>3, <2>1, <2>2
<1>7. Patched(s, e, st, gs) \in Snapshot
  BY <1>1, <1>4, <1>5, <1>6, SnapshotFields DEF Snapshot
<1>. QED
  BY <1>4, <1>5, <1>6, <1>7 DEF in, GroupsIn

\* A domain that somebody serves is routed to one of those who serve it.
LEMMA RouteServes ==
  ASSUME NEW d \in Domains, Routed(d)
  PROVE  Route(d) \in Tenants /\ record[Route(d)] # None /\ d \in Served(record[Route(d)])
<1>1. Winners(d) \subseteq Claims(d) /\ Winners(d) # {}
  <2>. DEFINE declared == {t \in Claims(d) : record[t].declared}
  <2>1. Cardinality(declared) = 1 => declared # {}
    <3>. HIDE DEF declared
    <3>. QED
      BY FS_EmptySet
  <2>. QED
    BY <2>1 DEF Winners, Routed
<1>2. Claims(d) \subseteq Tenants
  BY DEF Claims
<1>. DEFINE W == {TenantOrder[t] : t \in Winners(d)}
            R == OpToRel(<, Nat)
<1>3. W \subseteq Nat /\ W # {}
  BY <1>1, <1>2, HubAssumption
<1>4. PICK n \in W : \A m \in W : ~(<<m, n>> \in R)
  <2>1. IsWellFoundedOn(R, Nat)
    BY NatLessThanWellFounded
  <2>. HIDE DEF W, R
  <2>. QED
    BY <1>3, <2>1, WFMin
<1>5. \A m \in W : n <= m
  <2>1. \A m, k \in Nat : m < k => <<m, k>> \in R
    BY DEF OpToRel
  <2>2. n \in Nat /\ \A m \in W : m \in Nat
    BY <1>3, <1>4
  <2>3. \A m \in W : ~(m < n)
    BY <1>4, <2>1, <2>2
  <2>. HIDE DEF W, R
  <2>. QED
    BY <2>2, <2>3
<1>6. \E t \in Winners(d) : \A u \in Winners(d) : TenantOrder[t] <= TenantOrder[u]
  BY <1>5
<1>7. Route(d) \in Winners(d)
  BY <1>6 DEF Route
<1>. QED
  BY <1>1, <1>7 DEF Claims

-----------------------------------------------------------------------------
(* Types, a part of the state at a time.                                   *)

StartsTyped == start \in [Replicas -> Starting] /\ \A r \in Replicas : StartPlaced(start[r])
EnvTyped ==
  /\ now \in Time /\ standing \in [Emails -> Standing] /\ owner \in [Domains -> Tenants]
  /\ members \in [Groups -> SUBSET Emails]
  /\ events \in 0 .. MaxEvents /\ refreshes \in 0 .. MaxRefreshes
  /\ last \in [Emails -> [Standing -> Time \cup {Before}]]
  /\ moved \in [Domains -> Time \cup {Before}]
  /\ steady \subseteq Groups \X Emails
  /\ StartsTyped
Choices == [serve : SUBSET Domains, sync : SUBSET Groups]
StoreTyped ==
  /\ revoked \subseteq Credential
  /\ record \in [Tenants -> Record \cup {None}]
  /\ cred \in [Tenants -> Credential \cup {None}]
  /\ snapshot \in [Tenants -> Snapshot \cup {None}]
ReadersTyped == reader \in [Replicas -> [Tenants -> Credential \cup {None}]]
FlightsTyped ==
  /\ flight \in [Replicas -> [Tenants -> Flight]]
  /\ \A r \in Replicas, t \in Tenants : FlightPlaced(flight[r][t])
TasksTyped ==
  /\ pc \in [Tasks -> Pc] /\ job \in [Tasks -> Job] /\ mem \in [Tasks -> Mem]
  /\ \A x \in Tasks : Active(x) <=> job[x] # NoJob
  /\ \A x \in Tasks : Active(x) => Placed(pc[x], job[x], mem[x])
ChoicesTyped == choice \in [Tenants -> Choices] /\ mishap \subseteq Tenants

\* TypeInv, part by part: the world, the store, the readers, the full reads, the requests
\* and the choices.
LEMMA TypeInvIs ==
  TypeInv <=> /\ EnvTyped /\ StoreTyped /\ ReadersTyped
              /\ FlightsTyped /\ TasksTyped /\ ChoicesTyped
BY DEF TypeInv, TypeOK, Shape, EnvTyped, StartsTyped, StoreTyped, ReadersTyped, FlightsTyped,
       TasksTyped, ChoicesTyped, Choices

\* The same of the next state.
LEMMA TypeInvNext ==
  ASSUME EnvTyped', StoreTyped', ReadersTyped', FlightsTyped', TasksTyped', ChoicesTyped'
  PROVE  TypeInv'
BY DEF TypeInv, TypeOK, Shape, EnvTyped, StartsTyped, StoreTyped, ReadersTyped, FlightsTyped,
       TasksTyped, ChoicesTyped, Choices

-----------------------------------------------------------------------------
(* How a request moves.                                                    *)

\* Only x moves.
Moves(x) ==
  /\ pc' = [pc EXCEPT ![x] = pc'[x]]
  /\ job' = [job EXCEPT ![x] = job'[x]]
  /\ mem' = [mem EXCEPT ![x] = mem'[x]]

\* The others stay where they are.
LEMMA MovesOthers ==
  ASSUME TypeInv, NEW x \in Tasks, Moves(x)
  PROVE  \A y \in Tasks : y # x => pc'[y] = pc[y] /\ job'[y] = job[y] /\ mem'[y] = mem[y]
BY DEF Moves, TypeInv, TypeOK

\* A request that went somewhere, or is done, is where it should be.
LEMMA MovesType ==
  ASSUME TypeInv, NEW x \in Tasks, Moves(x), job'[x] \in Job, mem'[x] \in Mem,
         \/ pc'[x] = "done" /\ job'[x] = NoJob
         \/ pc'[x] \in Pc \ {"idle", "done"} /\ Placed(pc'[x], job'[x], mem'[x])
  PROVE  TasksTyped'
<1>1. /\ pc \in [Tasks -> Pc] /\ job \in [Tasks -> Job] /\ mem \in [Tasks -> Mem]
      /\ \A y \in Tasks : Active(y) <=> job[y] # NoJob
      /\ \A y \in Tasks : Active(y) => Placed(pc[y], job[y], mem[y])
  BY TypeInvIs DEF TasksTyped
<1>2. /\ pc' \in [Tasks -> Pc] /\ job' \in [Tasks -> Job] /\ mem' \in [Tasks -> Mem]
  BY <1>1 DEF Moves, Pc
<1>3. (pc'[x] \notin {"idle", "done"}) <=> job'[x] # NoJob
  BY Nothing DEF Placed, NoJob
<1>4. ASSUME NEW y \in Tasks
      PROVE  /\ (pc'[y] \notin {"idle", "done"}) <=> job'[y] # NoJob
             /\ pc'[y] \notin {"idle", "done"} => Placed(pc'[y], job'[y], mem'[y])
  <2>1. CASE y = x
    BY <1>3, <2>1
  <2>2. CASE y # x
    BY <1>1, <2>2, MovesOthers DEF Active
  <2>. QED
    BY <2>1, <2>2
<1>. QED
  BY <1>2, <1>4 DEF TasksTyped, Active

\* A request under way is placed.
LEMMA ActivePlaced ==
  ASSUME TypeInv, NEW x \in Tasks, Active(x)
  PROVE  /\ Placed(pc[x], job[x], mem[x])
         /\ pc[x] \in Pc /\ job[x] \in Job /\ mem[x] \in Mem /\ job[x] # NoJob
         /\ job[x].r \in Replicas /\ job[x].t \in Tenants /\ job[x].kind \in Kinds
BY DEF TypeInv, TypeOK, Shape, Placed

\* What NoMem and NoJob are.
LEMMA NoneType == NoMem \in Mem /\ NoJob \in Job /\ NoMem.snap = None /\ NoMem.groups = {}
<1>1. NoMem \in Mem /\ NoMem.snap = None /\ NoMem.groups = {}
  BY DEF NoMem, Mem, Standing
<1>2. NoJob \in Job
  BY DEF NoJob, Job
<1>. QED
  BY <1>1, <1>2

\* Go and Finish, as what becomes of x.
LEMMA GoDoes ==
  ASSUME TypeInv, NEW x \in Tasks, NEW p, NEW m, Go(x, p, m)
  PROVE  /\ Moves(x) /\ pc'[x] = p /\ mem'[x] = m /\ job'[x] = job[x] /\ answer' = None
BY DEF TypeInv, TypeOK, Go, Moves

\* What a request that is answered leaves: it is done, and nothing is in its hand.
LEMMA FinishDoes ==
  ASSUME TypeInv, NEW x \in Tasks, NEW a, Finish(x, a)
  PROVE  /\ Moves(x) /\ pc'[x] = "done" /\ mem'[x] = NoMem /\ job'[x] = NoJob /\ answer' = a
BY DEF TypeInv, TypeOK, Finish, Moves

\* What a request is told, it is done with.
LEMMA FinishType ==
  ASSUME TypeInv, NEW x \in Tasks, NEW a, Finish(x, a)
  PROVE  TasksTyped'
BY FinishDoes, NoneType, MovesType

\* The arguments of a kind are arguments.
LEMMA ArgsAre ==
  ASSUME NEW kind \in Kinds
  PROVE  ArgsOf(kind) \subseteq Emails \cup Groups \cup (SUBSET Domains) \cup (SUBSET Groups) \cup {None}
<1>1. /\ ArgsOf("point") = Emails /\ ArgsOf("group") = Groups
      /\ ArgsOf("served") = SUBSET Domains /\ ArgsOf("synced") = SUBSET Groups
      /\ ArgsOf("probe") = {None} /\ ArgsOf("adopt") = {None} /\ ArgsOf("disconnect") = {None}
  BY DEF ArgsOf
<1>. QED
  BY <1>1 DEF Kinds

\* A request that begins remembers when.
LEMMA BeginDoes ==
  ASSUME TypeInv, NEW x \in Tasks, NEW kind \in Kinds, NEW r \in Replicas, NEW t \in Tenants,
         NEW arg \in ArgsOf(kind), NEW demand \in BOOLEAN, NEW m \in Mem, NEW p,
         Begin(x, kind, r, t, arg, demand, m, p)
  PROVE  /\ Moves(x) /\ pc[x] = "idle" /\ pc'[x] = p /\ answer' = None
         /\ job'[x] \in Job /\ mem'[x] \in Mem
         /\ job'[x].kind = kind /\ job'[x].r = r /\ job'[x].t = t /\ job'[x].arg = arg
         /\ mem'[x].asked = now /\ mem'[x].ws = m.ws /\ mem'[x].snap = m.snap
         /\ mem'[x].groups = m.groups /\ mem'[x].standing = m.standing
         /\ mem'[x].known = m.known
<1>1. Moves(x) /\ pc[x] = "idle" /\ pc'[x] = p /\ answer' = None
  BY DEF TypeInv, TypeOK, Begin, Moves
<1>2. job'[x] = [kind |-> kind, r |-> r, t |-> t, arg |-> arg, demand |-> demand]
  BY DEF TypeInv, TypeOK, Begin
<1>3. mem'[x] = [m EXCEPT !.asked = now]
  BY DEF TypeInv, TypeOK, Begin
<1>4. job'[x] \in Job
  BY <1>2, ArgsAre DEF Job
<1>5. now \in Time
  BY DEF TypeInv, TypeOK
<1>. QED
  BY <1>1, <1>2, <1>3, <1>4, <1>5 DEF Mem

\* What a request is told of, it has in hand.
LEMMA BeginType ==
  ASSUME TypeInv, NEW x \in Tasks, NEW kind \in Kinds, NEW r \in Replicas, NEW t \in Tenants,
         NEW arg \in ArgsOf(kind), NEW demand \in BOOLEAN, NEW m \in Mem, NEW p,
         p \in Pc \ {"idle", "done", "narrowed"}, p \in PcsOf(kind),
         kind # "disconnect" => m.ws \in Record,
         Begin(x, kind, r, t, arg, demand, m, p)
  PROVE  TasksTyped'
<1>1. now \in Time
  BY DEF TypeInv, TypeOK
<1>. QED
  BY <1>1, BeginDoes, MovesType DEF Placed

\* What a request remembers, with one answer more.
LEMMA MemSnap ==
  ASSUME NEW m \in Mem, NEW s \in Snapshot \cup {None},
         NEW n, n = [m EXCEPT !.snap = s]
  PROVE  /\ n \in Mem /\ n.snap = s
         /\ n.ws = m.ws /\ n.asked = m.asked /\ n.standing = m.standing
         /\ n.groups = m.groups /\ n.known = m.known
BY DEF Mem

\* A request keeps the memberships a live read brought, and all else it remembers.
LEMMA MemGroups ==
  ASSUME NEW m \in Mem, NEW gs, gs \subseteq Groups,
         NEW n, n = [m EXCEPT !.groups = gs]
  PROVE  /\ n \in Mem /\ n.groups = gs
         /\ n.ws = m.ws /\ n.asked = m.asked /\ n.snap = m.snap
         /\ n.standing = m.standing /\ n.known = m.known
BY DEF Mem

\* A reader is opened from a credential there is.
LEMMA OpenedType ==
  ASSUME TypeInv, NEW r \in Replicas, NEW t \in Tenants
  PROVE  Opened(r, t) \in Credential \cup {None}
BY DEF TypeInv, TypeOK, Opened

\* A replica that opens a reader keeps a credential there is, or none.
LEMMA OpenType ==
  ASSUME TypeInv, NEW r \in Replicas, NEW t \in Tenants, Open(r, t)
  PROVE  ReadersTyped'
BY OpenedType DEF TypeInv, TypeOK, Open, ReadersTyped

\* A full read that starts, or is not under way.
LEMMA IdleType ==
  ASSUME NEW ok \in BOOLEAN
  PROVE  /\ Idle(ok) \in Flight /\ FlightPlaced(Idle(ok)) /\ Idle(ok).pc = "idle"
         /\ [Idle(ok) EXCEPT !.pc = "open"] \in Flight
         /\ FlightPlaced([Idle(ok) EXCEPT !.pc = "open"])
         /\ [Idle(ok) EXCEPT !.pc = "open"].pc = "open"
BY DEF Idle, Flight, FlightPlaced, FlightPc

\* One full read goes on, and no other.
LEMMA FlightDoes ==
  ASSUME TypeInv, NEW r \in Replicas, NEW t \in Tenants, NEW f,
         flight' = [flight EXCEPT ![r][t] = f]
  PROVE  \A q \in Replicas, u \in Tenants :
           flight'[q][u] = IF q = r /\ u = t THEN f ELSE flight[q][u]
BY DEF TypeInv, TypeOK

\* A full read that goes on to a place it may be in leaves the full reads well placed.
LEMMA FlightType ==
  ASSUME TypeInv, NEW r \in Replicas, NEW t \in Tenants, NEW f \in Flight, FlightPlaced(f),
         flight' = [flight EXCEPT ![r][t] = f]
  PROVE  FlightsTyped'
<1>1. flight \in [Replicas -> [Tenants -> Flight]]
  BY DEF TypeInv, TypeOK
<1>2. flight' \in [Replicas -> [Tenants -> Flight]]
  BY <1>1
<1>3. \A q \in Replicas, u \in Tenants : FlightPlaced(flight[q][u])
  BY DEF TypeInv, Shape
<1>4. ASSUME NEW q \in Replicas, NEW u \in Tenants PROVE FlightPlaced(flight'[q][u])
  BY <1>3, FlightDoes
<1>. QED
  BY <1>2, <1>4 DEF FlightsTyped

\* Soon begins a full read, or joins one.
LEMMA SoonDoes ==
  ASSUME TypeInv, NEW r \in Replicas, NEW t \in Tenants, Soon(r, t)
  PROVE  /\ FlightsTyped'
         /\ \A q \in Replicas, u \in Tenants :
              flight'[q][u] = flight[q][u] \/ flight'[q][u].pc = "open"
<1>1. CASE flight[r][t].pc = "idle"
  <2>1. PICK f : f = [Idle(FALSE) EXCEPT !.pc = "open"]
    OBVIOUS
  <2>2. f \in Flight /\ FlightPlaced(f) /\ f.pc = "open"
    BY <2>1, IdleType
  <2>3. flight' = [flight EXCEPT ![r][t] = f]
    BY <1>1, <2>1 DEF Soon
  <2>4. FlightsTyped'
    BY <2>2, <2>3, FlightType
  <2>5. ASSUME NEW q \in Replicas, NEW u \in Tenants
        PROVE  flight'[q][u] = flight[q][u] \/ flight'[q][u].pc = "open"
    <3>1. flight \in [Replicas -> [Tenants -> Flight]]
      BY DEF TypeInv, TypeOK
    <3>2. flight'[q][u] = IF q = r /\ u = t THEN f ELSE flight[q][u]
      BY <2>3, <3>1
    <3>. QED
      BY <2>2, <3>2
  <2>. QED
    BY <2>4, <2>5
<1>2. CASE flight[r][t].pc # "idle"
  BY <1>2, TypeInvIs DEF Soon, FlightsTyped
<1>. QED
  BY <1>1, <1>2

\* What a step leaves alone keeps its type.
LEMMA StillTyped ==
  ASSUME TypeInv
  PROVE  /\ UNCHANGED still => EnvTyped'
         /\ UNCHANGED <<revoked, record, cred, snapshot>> => StoreTyped'
         /\ UNCHANGED reader => ReadersTyped'
         /\ UNCHANGED flight => FlightsTyped'
         /\ UNCHANGED <<choice, mishap>> => ChoicesTyped'
BY TypeInvIs
   DEF still, world, EnvTyped, StartsTyped, StoreTyped, ReadersTyped, FlightsTyped, ChoicesTyped

\* A step that is about what a request remembers and answers alone.
LEMMA OnlyAskType ==
  ASSUME TypeInv, OnlyAsk, TasksTyped'
  PROVE  TypeInv'
BY StillTyped, TypeInvNext DEF OnlyAsk

\* The places of each kind.
LEMMA Places ==
  /\ PcsOf("point") = {"look", "live", "memberships", "patch"}
  /\ PcsOf("group") = {"fresh", "await"}
  /\ PcsOf("served") = {"store", "narrow", "narrowed"}
  /\ PcsOf("synced") = {"check", "store", "narrow", "narrowed"}
  /\ PcsOf("probe") = {"probe", "probed"}
  /\ PcsOf("adopt") = {"save", "existing", "adopt"}
  /\ PcsOf("disconnect") = {"revoke", "dropSnapshot", "dropCredential", "dropRecord"}
  /\ ArgsOf("point") = Emails /\ ArgsOf("group") = Groups
  /\ ArgsOf("served") = SUBSET Domains /\ ArgsOf("synced") = SUBSET Groups
  /\ ArgsOf("probe") = {None} /\ ArgsOf("adopt") = {None} /\ ArgsOf("disconnect") = {None}
BY DEF PcsOf, ArgsOf

\* A request that goes on keeps what it is about.
LEMMA GoType ==
  ASSUME TypeInv, NEW x \in Tasks, Active(x), NEW p, p \in Pc \ {"idle", "done"},
         p \in PcsOf(job[x].kind), NEW m \in Mem,
         m.asked = mem[x].asked, job[x].kind # "disconnect" => m.ws \in Record,
         p = "narrowed" => m.snap \in Snapshot,
         Go(x, p, m)
  PROVE  TasksTyped'
<1>1. /\ Placed(pc[x], job[x], mem[x]) /\ job[x] \in Job
  BY ActivePlaced
<1>2. Placed(p, job[x], m)
  BY <1>1 DEF Placed
<1>. QED
  BY <1>1, <1>2, GoDoes, MovesType

-----------------------------------------------------------------------------
(* What each step does, and that it keeps the types.                       *)

\* A request begins: what it is about, and the record it has read.
Starts(x, kind, t, arg, p, ws) ==
  /\ Moves(x) /\ pc[x] = "idle" /\ pc'[x] = p /\ answer' = None
  /\ job'[x].kind = kind /\ job'[x].t = t /\ job'[x].arg = arg
  /\ mem'[x].asked = now /\ mem'[x].ws = ws /\ mem'[x].snap = None /\ mem'[x].groups = {}

\* A request goes on: where, and what it has in hand.
Goes(x, p, ws, snap, st, groups) ==
  /\ Active(x) /\ Moves(x) /\ pc'[x] = p /\ job'[x] = job[x] /\ answer' = None
  /\ mem'[x].asked = mem[x].asked /\ mem'[x].ws = ws /\ mem'[x].snap = snap
  /\ mem'[x].standing = st /\ mem'[x].groups = groups

\* A request is answered.
Ends(x, a) ==
  /\ Active(x) /\ Moves(x) /\ pc'[x] = "done" /\ job'[x] = NoJob /\ mem'[x] = NoMem
  /\ answer' = a

\* A request that begins with m.
LEMMA Beginning ==
  ASSUME TypeInv, NEW x \in Tasks, NEW kind \in Kinds, NEW r \in Replicas, NEW t \in Tenants,
         NEW arg \in ArgsOf(kind), NEW demand \in BOOLEAN, NEW m \in Mem, NEW p,
         p \in Pc \ {"idle", "done", "narrowed"}, p \in PcsOf(kind),
         kind # "disconnect" => m.ws \in Record, m.snap = None, m.groups = {},
         Begin(x, kind, r, t, arg, demand, m, p)
  PROVE  TasksTyped' /\ Starts(x, kind, t, arg, p, m.ws)
BY BeginType, BeginDoes DEF Starts

\* A request that goes on with m.
LEMMA GoingOn ==
  ASSUME TypeInv, NEW x \in Tasks, Active(x), NEW p, p \in Pc \ {"idle", "done"},
         p \in PcsOf(job[x].kind), NEW m \in Mem,
         m.asked = mem[x].asked, job[x].kind # "disconnect" => m.ws \in Record,
         p = "narrowed" => m.snap \in Snapshot,
         Go(x, p, m)
  PROVE  TasksTyped' /\ Goes(x, p, m.ws, m.snap, m.standing, m.groups)
BY GoType, GoDoes DEF Goes

\* A request that ends.
LEMMA Ending ==
  ASSUME TypeInv, NEW x \in Tasks, Active(x), NEW a, Finish(x, a)
  PROVE  TasksTyped' /\ Ends(x, a)
BY FinishType, FinishDoes DEF Ends

\* A point lookup starts at the tenant that serves the address's domain.
LEMMA AskPointDoes ==
  ASSUME TypeInv, NEW x \in Tasks, NEW r \in Replicas, NEW e \in Emails, NEW demand \in BOOLEAN,
         AskPoint(x, r, e, demand)
  PROVE  /\ TypeInv'
         /\ \E t \in Tenants :
              /\ record[t] \in Record /\ Home[e] \in Served(record[t])
              /\ Starts(x, "point", t, e, "look", record[t])
<1>1. PICK t : t = Route(Home[e])
  OBVIOUS
<1>2. t \in Tenants /\ record[t] \in Record /\ Home[e] \in Served(record[t])
  BY <1>1, RouteServes, Constants DEF AskPoint, TypeInv, TypeOK
<1>3. PICK m : m = [NoMem EXCEPT !.ws = record[t], !.conflict = Conflict(Home[e])]
  OBVIOUS
<1>4. Conflict(Home[e]) \in BOOLEAN
  BY DEF Conflict
<1>5. m \in Mem /\ m.ws = record[t] /\ m.snap = None /\ m.groups = {}
  BY <1>2, <1>3, <1>4, NoneType DEF Mem
<1>6. Begin(x, "point", r, t, e, demand, m, "look")
  BY <1>1, <1>3 DEF AskPoint
<1>7. TasksTyped' /\ Starts(x, "point", t, e, "look", record[t])
  <2>1. "point" \in Kinds /\ "look" \in Pc /\ "look" \in PcsOf("point") /\ e \in ArgsOf("point")
    BY Places DEF Kinds, Pc
  <2>. QED
    BY <1>2, <1>5, <1>6, <2>1, Beginning
<1>. QED
  BY <1>2, <1>7, OnlyAskType DEF AskPoint

\* A group lookup starts at the tenant that serves the group's domain.
LEMMA AskGroupDoes ==
  ASSUME TypeInv, NEW x \in Tasks, NEW r \in Replicas, NEW g \in Groups, NEW demand \in BOOLEAN,
         AskGroup(x, r, g, demand)
  PROVE  /\ TypeInv'
         /\ \E t \in Tenants :
              record[t] \in Record /\ Starts(x, "group", t, g, "fresh", record[t])
<1>1. PICK t : t = Route(Home[g])
  OBVIOUS
<1>2. t \in Tenants /\ record[t] \in Record
  BY <1>1, RouteServes, Constants DEF AskGroup, TypeInv, TypeOK
<1>3. PICK m : m = [NoMem EXCEPT !.ws = record[t], !.conflict = Conflict(Home[g])]
  OBVIOUS
<1>4. Conflict(Home[g]) \in BOOLEAN
  BY DEF Conflict
<1>5. m \in Mem /\ m.ws = record[t] /\ m.snap = None /\ m.groups = {}
  BY <1>2, <1>3, <1>4, NoneType DEF Mem
<1>6. Begin(x, "group", r, t, g, demand, m, "fresh")
  BY <1>1, <1>3 DEF AskGroup
<1>7. TasksTyped' /\ Starts(x, "group", t, g, "fresh", record[t])
  <2>1. "group" \in Kinds /\ "fresh" \in Pc /\ "fresh" \in PcsOf("group") /\ g \in ArgsOf("group")
    BY Places DEF Kinds, Pc
  <2>. QED
    BY <1>2, <1>5, <1>6, <2>1, Beginning
<1>. QED
  BY <1>2, <1>7, OnlyAskType DEF AskGroup

\* A lookup under way: what it has in hand.
LEMMA Asked ==
  ASSUME TypeInv, NEW x \in Tasks, Active(x), job[x].kind \in {"point", "group"}
  PROVE  /\ mem[x] \in Mem /\ job[x].t \in Tenants /\ job[x].r \in Replicas
         /\ mem[x].ws \in Record /\ mem[x].asked \in Time
         /\ mem[x].standing \in Standing /\ mem[x].groups \subseteq Groups
         /\ mem[x].snap \in Snapshot \cup {None}
         /\ job[x].kind = "point" => job[x].arg \in Emails
         /\ job[x].kind = "group" => job[x].arg \in Groups
<1>1. /\ Placed(pc[x], job[x], mem[x]) /\ mem[x] \in Mem
  BY ActivePlaced
<1>. QED
  BY <1>1, Places DEF Placed, Mem

\* Look answers from a snapshot that holds the address, or asks the directory.
LEMMA LookDoes ==
  ASSUME TypeInv, NEW x \in Tasks, Look(x)
  PROVE  /\ TypeInv' /\ Active(x) /\ job[x].kind = "point"
         /\ \E s \in {snapshot[job[x].t], None} :
              \/ Goes(x, "live", mem[x].ws, s, mem[x].standing, mem[x].groups)
              \/ /\ s # None /\ (s.accounts[job[x].arg] # "none" \/ job[x].arg \in GroupsIn(s))
                 /\ Ends(x, PointAnswer(x, s.accounts[job[x].arg],
                              Authoritative(mem[x].ws, mem[x].conflict, s)))
<1>1. Active(x) /\ job[x].kind = "point"
  BY DEF Look, At, Active
<1>2. mem[x] \in Mem /\ job[x].t \in Tenants /\ mem[x].ws \in Record
  BY <1>1, Asked
<1>3. PICK s \in {snapshot[job[x].t], None} :
         \/ Go(x, "live", [mem[x] EXCEPT !.snap = s])
         \/ /\ s # None /\ (s.accounts[job[x].arg] # "none" \/ job[x].arg \in GroupsIn(s))
            /\ Finish(x, PointAnswer(x, s.accounts[job[x].arg],
                           Authoritative(mem[x].ws, mem[x].conflict, s)))
  BY DEF Look, Readable, GoLive, IsGroup, GroupsIn
<1>4. s \in Snapshot \cup {None}
  BY <1>2, <1>3 DEF TypeInv, TypeOK
<1>5. CASE Go(x, "live", [mem[x] EXCEPT !.snap = s])
  <2>1. PICK m : m = [mem[x] EXCEPT !.snap = s]
    OBVIOUS
  <2>2. /\ m \in Mem /\ m.asked = mem[x].asked /\ m.ws = mem[x].ws /\ m.snap = s
        /\ m.standing = mem[x].standing /\ m.groups = mem[x].groups
    BY <1>2, <1>4, <2>1, MemSnap
  <2>3. TasksTyped' /\ Goes(x, "live", m.ws, m.snap, m.standing, m.groups)
    <3>1. "live" \in Pc /\ "live" \in PcsOf(job[x].kind)
      BY <1>1, Places DEF Pc
    <3>. QED
      BY <1>1, <1>2, <1>5, <2>1, <2>2, <3>1, GoingOn
  <2>. QED
    BY <1>1, <1>3, <2>2, <2>3, OnlyAskType DEF Look
<1>. QED
  BY <1>1, <1>3, <1>5, Ending, OnlyAskType DEF Look

\* LiveAccount brings the account's standing.
LEMMA LiveAccountDoes ==
  ASSUME TypeInv, NEW x \in Tasks, LiveAccount(x)
  PROVE  /\ TypeInv' /\ Active(x) /\ job[x].kind = "point"
         /\ \E st \in Standing :
              /\ st = AccountAt(job[x].t, job[x].arg)
              /\ Goes(x, IF st = "none" THEN "patch" ELSE "memberships",
                      mem[x].ws, mem[x].snap, st, mem[x].groups)
<1>1. Active(x) /\ job[x].kind = "point"
  BY DEF LiveAccount, At, Active
<1>2. /\ mem[x] \in Mem /\ job[x].t \in Tenants /\ mem[x].ws \in Record
      /\ job[x].r \in Replicas /\ job[x].arg \in Emails
  BY <1>1, Asked
<1>3. PICK st : st = AccountAt(job[x].t, job[x].arg)
  OBVIOUS
<1>4. PICK by : by = Opened(job[x].r, job[x].t)
  OBVIOUS
<1>5. st \in Standing /\ by \in Credential \cup {None}
  BY <1>2, <1>3, <1>4, OpenedType DEF AccountAt, TypeInv, TypeOK, Standing
<1>6. PICK m : m = [mem[x] EXCEPT !.by = by, !.standing = st]
  OBVIOUS
<1>7. /\ m \in Mem /\ m.asked = mem[x].asked /\ m.ws = mem[x].ws /\ m.snap = mem[x].snap
      /\ m.standing = st /\ m.groups = mem[x].groups
  BY <1>2, <1>5, <1>6 DEF Mem
<1>8. PICK p : p = IF st = "none" THEN "patch" ELSE "memberships"
  OBVIOUS
<1>9. Go(x, p, m)
  BY <1>3, <1>4, <1>6, <1>8 DEF LiveAccount
<1>10. p \in Pc \ {"idle", "done", "narrowed"} /\ p \in PcsOf(job[x].kind)
  BY <1>1, <1>8, Places DEF Pc
<1>11. TasksTyped' /\ Goes(x, p, m.ws, m.snap, m.standing, m.groups)
  BY <1>1, <1>2, <1>7, <1>9, <1>10, GoingOn
<1>12. ReadersTyped'
  BY <1>2, OpenType DEF LiveAccount
<1>13. TypeInv'
  BY <1>11, <1>12, StillTyped, TypeInvNext DEF LiveAccount
<1>. QED
  BY <1>1, <1>3, <1>5, <1>7, <1>8, <1>11, <1>13

\* LiveGroups brings the groups it is in.
LEMMA LiveGroupsDoes ==
  ASSUME TypeInv, NEW x \in Tasks, LiveGroups(x)
  PROVE  /\ TypeInv' /\ Active(x) /\ job[x].kind = "point" /\ pc[x] = "memberships"
         /\ Goes(x, "patch", mem[x].ws, mem[x].snap, mem[x].standing,
                 GroupsOfAt(job[x].t, job[x].arg))
<1>1. Active(x) /\ job[x].kind = "point" /\ pc[x] = "memberships"
  BY DEF LiveGroups, At, Active
<1>2. mem[x] \in Mem /\ mem[x].ws \in Record
  BY <1>1, Asked
<1>3. PICK gs : gs = GroupsOfAt(job[x].t, job[x].arg)
  OBVIOUS
<1>4. PICK m : m = [mem[x] EXCEPT !.groups = gs]
  OBVIOUS
<1>5. gs \subseteq Groups
  BY <1>3 DEF GroupsOfAt, GroupsAt
<1>6. /\ m \in Mem /\ m.asked = mem[x].asked /\ m.ws = mem[x].ws /\ m.snap = mem[x].snap
      /\ m.standing = mem[x].standing /\ m.groups = gs
  BY <1>2, <1>4, <1>5, MemGroups
<1>7. Go(x, "patch", m)
  BY <1>3, <1>4 DEF LiveGroups
<1>8. "patch" \in Pc /\ "patch" \in PcsOf(job[x].kind)
  BY <1>1, Places DEF Pc
<1>9. TasksTyped' /\ Goes(x, "patch", m.ws, m.snap, m.standing, m.groups)
  BY <1>1, <1>2, <1>6, <1>7, <1>8, GoingOn
<1>. QED
  BY <1>1, <1>3, <1>6, <1>9, OnlyAskType DEF LiveGroups

\* LiveFails answers what the hub does not vouch for.
LEMMA LiveFailsDoes ==
  ASSUME TypeInv, NEW x \in Tasks, LiveFails(x)
  PROVE  /\ TypeInv'
         /\ \E st : Ends(x, PointAnswer(x, st, FALSE))
<1>1. Active(x) /\ job[x].r \in Replicas /\ job[x].t \in Tenants
  BY ActivePlaced DEF LiveFails, Active
<1>2. ReadersTyped'
  BY <1>1, OpenType, StillTyped DEF LiveFails
<1>3. PICK st : Finish(x, PointAnswer(x, st, FALSE))
  BY DEF LiveFails
<1>4. TasksTyped' /\ Ends(x, PointAnswer(x, st, FALSE))
  BY <1>1, <1>3, Ending
<1>5. TypeInv'
  BY <1>2, <1>4, StillTyped, TypeInvNext DEF LiveFails
<1>. QED
  BY <1>4, <1>5

\* A snapshot is stored, or dropped.
LEMMA SnapshotStored ==
  ASSUME TypeInv, NEW t \in Tenants, NEW s \in Snapshot \cup {None},
         snapshot' = [snapshot EXCEPT ![t] = s], UNCHANGED <<revoked, record, cred>>
  PROVE  /\ StoreTyped'
         /\ \A u \in Tenants : snapshot'[u] = IF u = t THEN s ELSE snapshot[u]
BY DEF TypeInv, TypeOK, StoreTyped

\* Patch stores the snapshot it had read, with the account in it, and answers.
LEMMA PatchDoes ==
  ASSUME TypeInv, NEW x \in Tasks, Patch(x)
  PROVE  /\ TypeInv' /\ pc[x] = "patch" /\ job[x].kind = "point"
         /\ Ends(x, PointAnswer(x, mem[x].standing, ~mem[x].conflict /\ mem[x].ws.ok))
         /\ \/ UNCHANGED snapshot
            \/ /\ mem[x].snap \in Snapshot
               /\ \E n \in Snapshot :
                    /\ n = Patched(mem[x].snap, job[x].arg, mem[x].standing, mem[x].groups)
                    /\ \A u \in Tenants : snapshot'[u] = IF u = job[x].t THEN n ELSE snapshot[u]
<1>1. Active(x) /\ job[x].kind = "point" /\ pc[x] = "patch"
  BY DEF Patch, At, Active
<1>2. /\ mem[x] \in Mem /\ job[x].t \in Tenants /\ job[x].arg \in Emails
      /\ mem[x].snap \in Snapshot \cup {None} /\ mem[x].standing \in Standing
      /\ mem[x].groups \subseteq Groups
  BY <1>1, Asked
<1>3. TasksTyped' /\ Ends(x, PointAnswer(x, mem[x].standing, ~mem[x].conflict /\ mem[x].ws.ok))
  BY <1>1, Ending DEF Patch
<1>4. CASE UNCHANGED snapshot
  <2>1. StoreTyped'
    BY <1>4, StillTyped DEF Patch
  <2>2. TypeInv'
    BY <1>3, <2>1, StillTyped, TypeInvNext DEF Patch
  <2>. QED
    BY <1>1, <1>3, <1>4, <2>2
<1>5. CASE mem[x].snap # None /\ snapshot' = [snapshot EXCEPT ![job[x].t] =
             Patched(mem[x].snap, job[x].arg, mem[x].standing, mem[x].groups)]
  <2>1. PICK n : n = Patched(mem[x].snap, job[x].arg, mem[x].standing, mem[x].groups)
    OBVIOUS
  <2>2. mem[x].snap \in Snapshot
    BY <1>2, <1>5
  <2>3. n \in Snapshot
    BY <1>2, <2>1, <2>2, PatchedIs
  <2>4. /\ StoreTyped'
        /\ \A u \in Tenants : snapshot'[u] = IF u = job[x].t THEN n ELSE snapshot[u]
    <3>1. snapshot' = [snapshot EXCEPT ![job[x].t] = n] /\ UNCHANGED <<revoked, record, cred>>
      BY <1>5, <2>1 DEF Patch
    <3>. QED
      BY <1>2, <2>3, <3>1, SnapshotStored
  <2>5. TypeInv'
    BY <1>3, <2>4, StillTyped, TypeInvNext DEF Patch
  <2>. QED
    BY <1>1, <1>3, <2>1, <2>2, <2>3, <2>4, <2>5
<1>. QED
  BY <1>4, <1>5 DEF Patch

\* EnsureFresh answers out of the snapshot, or waits for a full read.
LEMMA EnsureFreshDoes ==
  ASSUME TypeInv, NEW x \in Tasks, EnsureFresh(x)
  PROVE  /\ TypeInv' /\ Active(x) /\ job[x].kind = "group"
         /\ \A q \in Replicas, u \in Tenants :
              flight'[q][u] = flight[q][u] \/ flight'[q][u].pc = "open"
         /\ \E s \in {snapshot[job[x].t], None} :
              \/ Goes(x, "await", mem[x].ws, s, mem[x].standing, mem[x].groups)
              \/ Ends(x, GroupAnswer(x, s))
<1>1. Active(x) /\ job[x].kind = "group"
  BY DEF EnsureFresh, At, Active
<1>2. /\ mem[x] \in Mem /\ job[x].t \in Tenants /\ job[x].r \in Replicas /\ mem[x].ws \in Record
  BY <1>1, Asked
<1>3. PICK s \in {snapshot[job[x].t], None} :
         /\ Soon(job[x].r, job[x].t) \/ UNCHANGED flight
         /\ \/ Go(x, "await", [mem[x] EXCEPT !.snap = s])
            \/ Finish(x, GroupAnswer(x, s))
  BY DEF EnsureFresh, Readable
<1>4. s \in Snapshot \cup {None}
  BY <1>2, <1>3 DEF TypeInv, TypeOK
<1>5. /\ FlightsTyped'
      /\ \A q \in Replicas, u \in Tenants :
           flight'[q][u] = flight[q][u] \/ flight'[q][u].pc = "open"
  BY <1>2, <1>3, SoonDoes, StillTyped
<1>6. TasksTyped' => TypeInv'
  BY <1>5, StillTyped, TypeInvNext DEF EnsureFresh
<1>7. CASE Go(x, "await", [mem[x] EXCEPT !.snap = s])
  <2>1. PICK m : m = [mem[x] EXCEPT !.snap = s]
    OBVIOUS
  <2>2. /\ m \in Mem /\ m.asked = mem[x].asked /\ m.ws = mem[x].ws /\ m.snap = s
        /\ m.standing = mem[x].standing /\ m.groups = mem[x].groups
    BY <1>2, <1>4, <2>1, MemSnap
  <2>3. "await" \in Pc /\ "await" \in PcsOf(job[x].kind)
    BY <1>1, Places DEF Pc
  <2>4. TasksTyped' /\ Goes(x, "await", m.ws, m.snap, m.standing, m.groups)
    BY <1>1, <1>2, <1>7, <2>1, <2>2, <2>3, GoingOn
  <2>. QED
    BY <1>1, <1>3, <1>5, <1>6, <2>2, <2>4
<1>8. CASE Finish(x, GroupAnswer(x, s))
  BY <1>1, <1>3, <1>5, <1>6, <1>8, Ending
<1>. QED
  BY <1>3, <1>7, <1>8

\* Await answers from the snapshot there is now, or the one there was before.
LEMMA AwaitDoes ==
  ASSUME TypeInv, NEW x \in Tasks, Await(x)
  PROVE  /\ TypeInv' /\ Active(x) /\ job[x].kind = "group"
         /\ \E s \in {snapshot[job[x].t], mem[x].snap} : Ends(x, GroupAnswer(x, s))
<1>1. Active(x) /\ job[x].kind = "group"
  BY DEF Await, At, Active
<1>2. PICK s \in {snapshot[job[x].t], None} : Finish(x, GroupAnswer(x, IF s = None THEN mem[x].snap ELSE s))
  BY DEF Await, Readable
<1>3. PICK n : n = IF s = None THEN mem[x].snap ELSE s
  OBVIOUS
<1>4. TasksTyped' /\ Ends(x, GroupAnswer(x, n))
  BY <1>1, <1>2, <1>3, Ending
<1>5. TypeInv'
  BY <1>4, OnlyAskType DEF Await
<1>. QED
  BY <1>1, <1>2, <1>3, <1>4, <1>5

\* An operator's request, a probe, a connect or a disconnect: what it has in hand.
LEMMA Operated ==
  ASSUME TypeInv, NEW x \in Tasks, Active(x)
  PROVE  /\ mem[x] \in Mem /\ job[x].t \in Tenants /\ job[x].r \in Replicas
         /\ mem[x].asked \in Time /\ mem[x].snap \in Snapshot \cup {None}
         /\ job[x].kind # "disconnect" => mem[x].ws \in Record
         /\ job[x].kind = "synced" => job[x].arg \subseteq Groups
         /\ pc[x] = "narrowed" => mem[x].snap \in Snapshot
<1>1. /\ Placed(pc[x], job[x], mem[x]) /\ mem[x] \in Mem
  BY ActivePlaced
<1>. QED
  BY <1>1, Places DEF Placed, Mem

\* An operator's choice starts with the record as it would be stored.
LEMMA ChooseDoes ==
  ASSUME TypeInv, NEW x \in Tasks, NEW r \in Replicas, NEW t \in Tenants,
         NEW kind \in {"served", "synced"}, NEW new \in ArgsOf(kind),
         Choose(x, r, t, kind, new)
  PROVE  /\ TypeInv' /\ record[t] \in Record
         /\ \E ws \in Record, p \in {"check", "store"} :
              /\ Starts(x, kind, t, new, p, ws)
              /\ ws.domains = record[t].domains /\ ws.ok = record[t].ok
              /\ ws.probed = record[t].probed
              /\ kind = "served" => /\ ws.serve = new /\ ws.sync = record[t].sync
                                    /\ new \subseteq record[t].domains
              /\ kind = "synced" => ws.sync = new /\ ws.serve = record[t].serve
<1>1. record[t] \in Record
  BY DEF Choose, TypeInv, TypeOK
<1>2. PICK ws : ws = IF kind = "served" THEN [record[t] EXCEPT !.serve = new]
                     ELSE [record[t] EXCEPT !.sync = new]
  OBVIOUS
<1>3. /\ ws \in Record /\ ws.domains = record[t].domains /\ ws.ok = record[t].ok
      /\ ws.probed = record[t].probed
      /\ kind = "served" => ws.serve = new /\ ws.sync = record[t].sync
      /\ kind = "synced" => ws.sync = new /\ ws.serve = record[t].serve
  <2>1. CASE kind = "served"
    BY <1>1, <1>2, <2>1, Places DEF Record
  <2>2. CASE kind = "synced"
    BY <1>1, <1>2, <2>2, Places DEF Record
  <2>. QED
    BY <2>1, <2>2
<1>4. PICK m : m = [NoMem EXCEPT !.ws = ws]
  OBVIOUS
<1>5. m \in Mem /\ m.ws = ws /\ m.snap = None /\ m.groups = {}
  BY <1>3, <1>4, NoneType DEF Mem
<1>6. PICK p : p = IF kind = "synced" /\ new # {} THEN "check" ELSE "store"
  OBVIOUS
<1>7. Begin(x, kind, r, t, new, FALSE, m, p)
  BY <1>2, <1>4, <1>6 DEF Choose
<1>8. /\ p \in {"check", "store"} /\ p \in Pc \ {"idle", "done", "narrowed"}
      /\ p \in PcsOf(kind) /\ kind \in Kinds
  BY <1>6, Places DEF Pc, Kinds
<1>9. TasksTyped' /\ Starts(x, kind, t, new, p, ws)
  BY <1>3, <1>5, <1>7, <1>8, Beginning
<1>10. TypeInv'
  BY <1>9, OnlyAskType DEF Choose
<1>11. kind = "served" => new \subseteq record[t].domains
  BY DEF Choose
<1>. QED
  BY <1>1, <1>3, <1>8, <1>9, <1>10, <1>11

\* CheckSynced goes on to store the choice, or refuses it.
LEMMA CheckSyncedDoes ==
  ASSUME TypeInv, NEW x \in Tasks, CheckSynced(x)
  PROVE  /\ TypeInv' /\ job[x].kind = "synced" /\ pc[x] = "check"
         /\ \/ Goes(x, "store", mem[x].ws, mem[x].snap, mem[x].standing, mem[x].groups)
            \/ Ends(x, None)
<1>1. Active(x) /\ job[x].kind = "synced" /\ pc[x] = "check"
  BY DEF CheckSynced, At, Active
<1>2. mem[x] \in Mem /\ mem[x].ws \in Record
  BY <1>1, Operated
<1>3. "store" \in Pc /\ "store" \in PcsOf(job[x].kind)
  BY <1>1, Places DEF Pc
<1>4. Go(x, "store", mem[x]) \/ Finish(x, None)
  BY DEF CheckSynced
<1>. QED
  BY <1>1, <1>2, <1>3, <1>4, GoingOn, Ending, OnlyAskType DEF CheckSynced

\* A record is stored, or dropped.
LEMMA RecordStored ==
  ASSUME TypeInv, NEW t \in Tenants, NEW ws \in Record \cup {None},
         record' = [record EXCEPT ![t] = ws], UNCHANGED <<revoked, snapshot, cred>>
  PROVE  /\ StoreTyped'
         /\ \A u \in Tenants : record'[u] = IF u = t THEN ws ELSE record[u]
BY DEF TypeInv, TypeOK, StoreTyped

\* Where a write crossed another, the tenant is marked.
LEMMA MishapDoes ==
  ASSUME TypeInv, NEW x \in Tasks, Active(x), NEW crossed, Mishap(x, crossed)
  PROVE  /\ mishap' \subseteq Tenants /\ mishap \subseteq mishap'
         /\ crossed => job[x].t \in mishap'
BY ActivePlaced DEF Mishap, TypeInv, TypeOK

\* StoreChoice stores the record as it was read, with the choice in it.
LEMMA StoreChoiceDoes ==
  ASSUME TypeInv, NEW x \in Tasks, StoreChoice(x)
  PROVE  /\ TypeInv' /\ Active(x) /\ pc[x] = "store" /\ job[x].kind \in {"served", "synced"}
         /\ mem[x].ws \in Record /\ job[x].t \in Tenants
         /\ \A u \in Tenants : record'[u] = IF u = job[x].t THEN mem[x].ws ELSE record[u]
         /\ mishap \subseteq mishap'
         /\ \/ /\ Goes(x, "narrow", mem[x].ws, mem[x].snap, mem[x].standing, mem[x].groups)
               /\ \A u \in Tenants : u # job[x].t => choice'[u] = choice[u]
               /\ choice'[job[x].t] = [serve |-> mem[x].ws.serve, sync |-> mem[x].ws.sync]
               /\ RecordInHand(x, job[x].t) => job[x].t \in mishap'
            \/ /\ Ends(x, None) /\ UNCHANGED choice /\ job[x].t \in mishap'
<1>1. Active(x) /\ job[x].kind \in {"served", "synced"} /\ pc[x] = "store"
  BY DEF StoreChoice, At, Active
<1>2. mem[x] \in Mem /\ mem[x].ws \in Record /\ job[x].t \in Tenants
  BY <1>1, Operated
<1>3. /\ StoreTyped'
      /\ \A u \in Tenants : record'[u] = IF u = job[x].t THEN mem[x].ws ELSE record[u]
  <2>1. record' = [record EXCEPT ![job[x].t] = mem[x].ws] /\ UNCHANGED <<revoked, snapshot, cred>>
    BY DEF StoreChoice
  <2>. QED
    BY <1>2, <2>1, RecordStored
<1>4. CASE /\ choice' = [choice EXCEPT ![job[x].t] =
                           [serve |-> mem[x].ws.serve, sync |-> mem[x].ws.sync]]
           /\ Mishap(x, RecordInHand(x, job[x].t)) /\ Go(x, "narrow", mem[x])
  <2>1. PICK c : c = [serve |-> mem[x].ws.serve, sync |-> mem[x].ws.sync]
    OBVIOUS
  <2>2. c \in Choices
    BY <1>2, <2>1, RecordFields DEF Choices
  <2>3. choice \in [Tenants -> Choices] /\ choice' = [choice EXCEPT ![job[x].t] = c]
    BY <1>4, <2>1, TypeInvIs DEF ChoicesTyped
  <2>4. /\ choice' \in [Tenants -> Choices] /\ choice'[job[x].t] = c
        /\ \A u \in Tenants : u # job[x].t => choice'[u] = choice[u]
    BY <1>2, <2>2, <2>3
  <2>5. /\ mishap' \subseteq Tenants /\ mishap \subseteq mishap'
        /\ RecordInHand(x, job[x].t) => job[x].t \in mishap'
    BY <1>1, <1>4, MishapDoes
  <2>6. "narrow" \in Pc /\ "narrow" \in PcsOf(job[x].kind)
    BY <1>1, Places DEF Pc
  <2>7. /\ TasksTyped'
        /\ Goes(x, "narrow", mem[x].ws, mem[x].snap, mem[x].standing, mem[x].groups)
    BY <1>1, <1>2, <1>4, <2>6, GoingOn
  <2>8. ChoicesTyped'
    BY <2>4, <2>5 DEF ChoicesTyped
  <2>9. TypeInv'
    BY <1>3, <2>7, <2>8, StillTyped, TypeInvNext DEF StoreChoice
  <2>. QED
    BY <1>1, <1>2, <1>3, <2>1, <2>4, <2>5, <2>7, <2>9
<1>5. CASE Mishap(x, TRUE) /\ Finish(x, None) /\ UNCHANGED choice
  <2>1. mishap' \subseteq Tenants /\ mishap \subseteq mishap' /\ job[x].t \in mishap'
    BY <1>1, <1>5, MishapDoes
  <2>2. TasksTyped' /\ Ends(x, None)
    BY <1>1, <1>5, Ending
  <2>3. ChoicesTyped'
    BY <1>5, <2>1, TypeInvIs DEF ChoicesTyped
  <2>4. TypeInv'
    BY <1>3, <2>2, <2>3, StillTyped, TypeInvNext DEF StoreChoice
  <2>. QED
    BY <1>1, <1>2, <1>3, <1>5, <2>1, <2>2, <2>4
<1>. QED
  BY <1>4, <1>5 DEF StoreChoice

\* NarrowRead brings the snapshot to narrow, if there is one.
LEMMA NarrowReadDoes ==
  ASSUME TypeInv, NEW x \in Tasks, NarrowRead(x)
  PROVE  /\ TypeInv' /\ Active(x) /\ pc[x] = "narrow" /\ job[x].kind \in {"served", "synced"}
         /\ mishap \subseteq mishap'
         /\ \A q \in Replicas, u \in Tenants :
              flight'[q][u] = flight[q][u] \/ flight'[q][u].pc = "open"
         /\ \/ /\ snapshot[job[x].t] \in Snapshot
               /\ Goes(x, "narrowed", mem[x].ws, snapshot[job[x].t], mem[x].standing, mem[x].groups)
            \/ /\ Ends(x, None)
               /\ snapshot[job[x].t] = None \/ job[x].t \in mishap'
<1>1. Active(x) /\ job[x].kind \in {"served", "synced"} /\ pc[x] = "narrow"
  BY DEF NarrowRead, At, Active
<1>2. mem[x] \in Mem /\ mem[x].ws \in Record /\ job[x].t \in Tenants /\ job[x].r \in Replicas
  BY <1>1, Operated
<1>3. PICK s \in {snapshot[job[x].t], None} :
         /\ mishap' = IF s = snapshot[job[x].t] THEN mishap ELSE mishap \cup {job[x].t}
         /\ IF s = None THEN Soon(job[x].r, job[x].t) /\ Finish(x, None)
            ELSE UNCHANGED flight /\ Go(x, "narrowed", [mem[x] EXCEPT !.snap = s])
  BY DEF NarrowRead, Readable
<1>4. snapshot[job[x].t] \in Snapshot \cup {None} /\ mishap \subseteq Tenants
  BY <1>2 DEF TypeInv, TypeOK
<1>5. ChoicesTyped' /\ mishap \subseteq mishap'
  <2>1. choice' = choice
    BY DEF NarrowRead
  <2>. QED
    BY <1>2, <1>3, <1>4, <2>1, TypeInvIs DEF ChoicesTyped
<1>6. /\ FlightsTyped'
      /\ \A q \in Replicas, u \in Tenants :
           flight'[q][u] = flight[q][u] \/ flight'[q][u].pc = "open"
  BY <1>2, <1>3, SoonDoes, StillTyped
<1>7. TasksTyped' => TypeInv'
  BY <1>5, <1>6, StillTyped, TypeInvNext DEF NarrowRead
<1>8. CASE s = None
  <2>1. TasksTyped' /\ Ends(x, None)
    BY <1>1, <1>3, <1>8, Ending
  <2>2. snapshot[job[x].t] = None \/ job[x].t \in mishap'
    BY <1>3, <1>8
  <2>. QED
    BY <1>1, <1>5, <1>6, <1>7, <2>1, <2>2
<1>9. CASE s # None
  <2>1. s = snapshot[job[x].t] /\ s \in Snapshot
    BY <1>3, <1>4, <1>9
  <2>2. PICK m : m = [mem[x] EXCEPT !.snap = s]
    OBVIOUS
  <2>3. /\ m \in Mem /\ m.asked = mem[x].asked /\ m.ws = mem[x].ws /\ m.snap = s
        /\ m.standing = mem[x].standing /\ m.groups = mem[x].groups
    BY <1>2, <2>1, <2>2 DEF Mem
  <2>4. "narrowed" \in Pc /\ "narrowed" \in PcsOf(job[x].kind)
    BY <1>1, Places DEF Pc
  <2>5. TasksTyped' /\ Goes(x, "narrowed", m.ws, m.snap, m.standing, m.groups)
    BY <1>1, <1>2, <1>3, <1>9, <2>1, <2>2, <2>3, <2>4, GoingOn
  <2>. QED
    BY <1>1, <1>5, <1>6, <1>7, <2>1, <2>3, <2>5
<1>. QED
  BY <1>8, <1>9

\* What is narrowed is a snapshot.
LEMMA NarrowedIs ==
  ASSUME NEW s \in Snapshot, NEW ws \in Record, NEW kind \in {"served", "synced"}
  PROVE  Narrowed(kind, s, ws) \in Snapshot
<1>1. Served(ws) \subseteq Domains /\ ws.sync \subseteq Groups
  BY RecordFields DEF Served
<1>2. restrict(s, Served(ws), {}) \in Snapshot /\ restrict(s, {}, ws.sync) \in Snapshot
  BY <1>1, RestrictType
<1>. QED
  BY <1>2 DEF Narrowed

\* NarrowPut stores the snapshot it had read, narrowed, or drops it.
LEMMA NarrowPutDoes ==
  ASSUME TypeInv, NEW x \in Tasks, NarrowPut(x)
  PROVE  /\ TypeInv' /\ Active(x) /\ pc[x] = "narrowed" /\ job[x].kind \in {"served", "synced"}
         /\ mem[x].snap \in Snapshot /\ mem[x].ws \in Record
         /\ Ends(x, None) /\ mishap \subseteq mishap'
         /\ \A q \in Replicas, u \in Tenants :
              flight'[q][u] = flight[q][u] \/ flight'[q][u].pc = "open"
         /\ \/ UNCHANGED snapshot /\ job[x].t \in mishap'
            \/ /\ SnapshotInHand(x, job[x].t) => job[x].t \in mishap'
               /\ \E s \in Snapshot \cup {None} :
                    /\ s = None \/ s = Narrowed(job[x].kind, mem[x].snap, mem[x].ws)
                    /\ \A u \in Tenants : snapshot'[u] = IF u = job[x].t THEN s ELSE snapshot[u]
<1>1. Active(x) /\ job[x].kind \in {"served", "synced"} /\ pc[x] = "narrowed"
  BY DEF NarrowPut, At, Active
<1>2. /\ mem[x] \in Mem /\ mem[x].ws \in Record /\ job[x].t \in Tenants /\ job[x].r \in Replicas
      /\ mem[x].snap \in Snapshot
  BY <1>1, Operated
<1>3. TasksTyped' /\ Ends(x, None)
  BY <1>1, Ending DEF NarrowPut
<1>4. /\ FlightsTyped'
      /\ \A q \in Replicas, u \in Tenants :
           flight'[q][u] = flight[q][u] \/ flight'[q][u].pc = "open"
  <2>1. Soon(job[x].r, job[x].t)
    BY DEF NarrowPut
  <2>. QED
    BY <1>2, <2>1, SoonDoes
<1>5. PICK n : n = Narrowed(job[x].kind, mem[x].snap, mem[x].ws)
  OBVIOUS
<1>6. n \in Snapshot
  BY <1>1, <1>2, <1>5, NarrowedIs
<1>7. ChoicesTyped' /\ mishap \subseteq mishap'
  <2>1. choice' = choice /\ (Mishap(x, SnapshotInHand(x, job[x].t)) \/ Mishap(x, TRUE))
    BY DEF NarrowPut
  <2>2. mishap' \subseteq Tenants /\ mishap \subseteq mishap'
    BY <1>1, <2>1, MishapDoes
  <2>. QED
    BY <2>1, <2>2, TypeInvIs DEF ChoicesTyped
<1>8. StoreTyped' => TypeInv'
  BY <1>3, <1>4, <1>7, StillTyped, TypeInvNext DEF NarrowPut
<1>9. ASSUME NEW s \in Snapshot \cup {None}, s \in {n, None},
             snapshot' = [snapshot EXCEPT ![job[x].t] = s], Mishap(x, SnapshotInHand(x, job[x].t))
      PROVE  /\ StoreTyped'
             /\ SnapshotInHand(x, job[x].t) => job[x].t \in mishap'
             /\ \A u \in Tenants : snapshot'[u] = IF u = job[x].t THEN s ELSE snapshot[u]
  <2>1. UNCHANGED <<revoked, record, cred>>
    BY DEF NarrowPut
  <2>. QED
    BY <1>1, <1>2, <1>9, <2>1, SnapshotStored, MishapDoes
<1>10. CASE UNCHANGED snapshot /\ Mishap(x, TRUE)
  <2>1. StoreTyped'
    BY <1>10, StillTyped DEF NarrowPut
  <2>2. job[x].t \in mishap'
    BY <1>1, <1>10, MishapDoes
  <2>. QED
    BY <1>1, <1>2, <1>3, <1>4, <1>7, <1>8, <1>10, <2>1, <2>2
<1>11. CASE \E s \in {n, None} :
              snapshot' = [snapshot EXCEPT ![job[x].t] = s] /\ Mishap(x, SnapshotInHand(x, job[x].t))
  <2>1. PICK s \in {n, None} :
              snapshot' = [snapshot EXCEPT ![job[x].t] = s] /\ Mishap(x, SnapshotInHand(x, job[x].t))
    BY <1>11
  <2>2. s \in Snapshot \cup {None}
    BY <1>6, <2>1
  <2>3. /\ StoreTyped'
        /\ SnapshotInHand(x, job[x].t) => job[x].t \in mishap'
        /\ \A u \in Tenants : snapshot'[u] = IF u = job[x].t THEN s ELSE snapshot[u]
    BY <1>9, <2>1, <2>2
  <2>4. s = None \/ s = Narrowed(job[x].kind, mem[x].snap, mem[x].ws)
    BY <1>5, <2>1
  <2>. QED
    BY <1>1, <1>2, <1>3, <1>4, <1>7, <1>8, <2>2, <2>3, <2>4
<1>12. \/ UNCHANGED snapshot /\ Mishap(x, TRUE)
       \/ \E s \in {n, None} :
            snapshot' = [snapshot EXCEPT ![job[x].t] = s] /\ Mishap(x, SnapshotInHand(x, job[x].t))
  BY <1>5 DEF NarrowPut
<1>. QED
  BY <1>10, <1>11, <1>12

\* A probe starts with the record.
LEMMA ProbeOneDoes ==
  ASSUME TypeInv, NEW x \in Tasks, NEW r \in Replicas, NEW t \in Tenants, ProbeOne(x, r, t)
  PROVE  TypeInv' /\ record[t] \in Record /\ Starts(x, "probe", t, None, "probe", record[t])
<1>1. record[t] \in Record
  BY DEF ProbeOne, TypeInv, TypeOK
<1>2. PICK m : m = [NoMem EXCEPT !.ws = record[t]]
  OBVIOUS
<1>3. m \in Mem /\ m.ws = record[t] /\ m.snap = None /\ m.groups = {}
  BY <1>1, <1>2, NoneType DEF Mem
<1>4. "probe" \in Kinds /\ "probe" \in Pc /\ "probe" \in PcsOf("probe") /\ None \in ArgsOf("probe")
  BY Places DEF Kinds, Pc
<1>5. Begin(x, "probe", r, t, None, FALSE, m, "probe")
  BY <1>2 DEF ProbeOne
<1>6. TasksTyped' /\ Starts(x, "probe", t, None, "probe", record[t])
  BY <1>1, <1>3, <1>4, <1>5, Beginning
<1>. QED
  BY <1>1, <1>6, OnlyAskType DEF ProbeOne

\* ProbeAsk brings the outcome: the domains if it went well.
LEMMA ProbeAskDoes ==
  ASSUME TypeInv, NEW x \in Tasks, ProbeAsk(x)
  PROVE  /\ TypeInv' /\ Active(x) /\ job[x].kind = "probe" /\ mem[x].ws \in Record
         /\ mem[x].asked \in Time
         /\ \E ws \in Record :
              /\ Goes(x, "probed", ws, mem[x].snap, mem[x].standing, mem[x].groups)
              /\ ws.serve = mem[x].ws.serve /\ ws.sync = mem[x].ws.sync
              /\ ws.probed = mem[x].asked
              /\ ws.domains = IF ws.ok THEN Owned(job[x].t) ELSE mem[x].ws.domains
<1>1. Active(x) /\ job[x].kind = "probe"
  BY DEF ProbeAsk, At, Active
<1>2. /\ mem[x] \in Mem /\ mem[x].ws \in Record /\ job[x].t \in Tenants /\ job[x].r \in Replicas
      /\ mem[x].asked \in Time
  BY <1>1, Operated
<1>3. PICK ok \in BOOLEAN :
        Go(x, "probed", [mem[x] EXCEPT !.ws =
          [mem[x].ws EXCEPT !.ok = ok, !.probed = mem[x].asked,
             !.domains = IF ok THEN Owned(job[x].t) ELSE @]])
  BY DEF ProbeAsk
<1>4. PICK ws : ws = [mem[x].ws EXCEPT !.ok = ok, !.probed = mem[x].asked,
                        !.domains = IF ok THEN Owned(job[x].t) ELSE @]
  OBVIOUS
<1>5. PICK m : m = [mem[x] EXCEPT !.ws = ws]
  OBVIOUS
<1>6. Owned(job[x].t) \subseteq Domains
  BY DEF Owned
<1>7. /\ ws \in Record /\ ws.serve = mem[x].ws.serve /\ ws.sync = mem[x].ws.sync
      /\ ws.probed = mem[x].asked /\ ws.ok = ok
      /\ ws.domains = IF ok THEN Owned(job[x].t) ELSE mem[x].ws.domains
  BY <1>2, <1>4, <1>6 DEF Record
<1>8. /\ m \in Mem /\ m.asked = mem[x].asked /\ m.ws = ws /\ m.snap = mem[x].snap
      /\ m.standing = mem[x].standing /\ m.groups = mem[x].groups
  BY <1>2, <1>5, <1>7 DEF Mem
<1>9. Go(x, "probed", m)
  BY <1>3, <1>4, <1>5
<1>10. "probed" \in Pc /\ "probed" \in PcsOf(job[x].kind)
  BY <1>1, Places DEF Pc
<1>11. TasksTyped' /\ Goes(x, "probed", m.ws, m.snap, m.standing, m.groups)
  BY <1>1, <1>7, <1>8, <1>9, <1>10, GoingOn
<1>12. ReadersTyped'
  BY <1>2, OpenType DEF ProbeAsk
<1>13. TypeInv'
  BY <1>11, <1>12, StillTyped, TypeInvNext DEF ProbeAsk
<1>. QED
  BY <1>1, <1>2, <1>7, <1>8, <1>11, <1>13

\* ProbeStore stores the record it had read, with the outcome in it.
LEMMA ProbeStoreDoes ==
  ASSUME TypeInv, NEW x \in Tasks, ProbeStore(x)
  PROVE  /\ TypeInv' /\ Active(x) /\ job[x].kind = "probe" /\ mem[x].ws \in Record
         /\ Ends(x, None)
         /\ \A u \in Tenants : record'[u] = IF u = job[x].t THEN mem[x].ws ELSE record[u]
<1>1. Active(x) /\ job[x].kind = "probe"
  BY DEF ProbeStore, At, Active
<1>2. mem[x].ws \in Record /\ job[x].t \in Tenants
  BY <1>1, Operated
<1>3. /\ StoreTyped'
      /\ \A u \in Tenants : record'[u] = IF u = job[x].t THEN mem[x].ws ELSE record[u]
  <2>1. record' = [record EXCEPT ![job[x].t] = mem[x].ws] /\ UNCHANGED <<revoked, snapshot, cred>>
    BY DEF ProbeStore
  <2>. QED
    BY <1>2, <2>1, RecordStored
<1>4. TasksTyped' /\ Ends(x, None)
  BY <1>1, Ending DEF ProbeStore
<1>5. TypeInv'
  BY <1>3, <1>4, StillTyped, TypeInvNext DEF ProbeStore
<1>. QED
  BY <1>1, <1>2, <1>3, <1>4, <1>5

\* A connect starts with what the tenant holds.
LEMMA AdoptDoes ==
  ASSUME TypeInv, NEW x \in Tasks, NEW r \in Replicas, NEW t \in Tenants, Adopt(x, r, t)
  PROVE  /\ TypeInv'
         /\ \E ws \in Record :
              /\ Starts(x, "adopt", t, None, "save", ws)
              /\ ws.probed = now /\ ws.domains \subseteq Owned(t)
<1>1. PICK ok \in BOOLEAN :
        Begin(x, "adopt", r, t, None, FALSE,
          [NoMem EXCEPT !.ws = Connected(t, ok, {}, {}, FALSE)], "save")
  BY DEF Adopt
<1>2. PICK ws : ws = Connected(t, ok, {}, {}, FALSE)
  OBVIOUS
<1>3. ws \in Record /\ ws.probed = now /\ ws.domains \subseteq Owned(t)
  <2>1. now \in Time /\ Owned(t) \subseteq Domains
    BY DEF TypeInv, TypeOK, Owned
  <2>. QED
    BY <1>2, <2>1 DEF Connected, Record
<1>4. PICK m : m = [NoMem EXCEPT !.ws = ws]
  OBVIOUS
<1>5. m \in Mem /\ m.ws = ws /\ m.snap = None /\ m.groups = {}
  BY <1>3, <1>4, NoneType DEF Mem
<1>6. "adopt" \in Kinds /\ "save" \in Pc /\ "save" \in PcsOf("adopt") /\ None \in ArgsOf("adopt")
  BY Places DEF Kinds, Pc
<1>7. TasksTyped' /\ Starts(x, "adopt", t, None, "save", ws)
  <2>1. Begin(x, "adopt", r, t, None, FALSE, m, "save")
    BY <1>1, <1>2, <1>4
  <2>. QED
    BY <1>3, <1>5, <1>6, <2>1, Beginning
<1>8. ReadersTyped'
  BY DEF Adopt, ReadersTyped, TypeInv, TypeOK, Credential
<1>9. TypeInv'
  BY <1>7, <1>8, StillTyped, TypeInvNext DEF Adopt
<1>. QED
  BY <1>3, <1>7, <1>9

\* AdoptSave seals the credential.
LEMMA AdoptSaveDoes ==
  ASSUME TypeInv, NEW x \in Tasks, AdoptSave(x)
  PROVE  /\ TypeInv' /\ job[x].kind = "adopt" /\ pc[x] = "save"
         /\ Goes(x, "existing", mem[x].ws, mem[x].snap, mem[x].standing, mem[x].groups)
<1>1. Active(x) /\ job[x].kind = "adopt" /\ pc[x] = "save"
  BY DEF AdoptSave, At, Active
<1>2. mem[x] \in Mem /\ mem[x].ws \in Record /\ job[x].t \in Tenants
  BY <1>1, Operated
<1>3. "existing" \in Pc /\ "existing" \in PcsOf(job[x].kind)
  BY <1>1, Places DEF Pc
<1>4. /\ TasksTyped'
      /\ Goes(x, "existing", mem[x].ws, mem[x].snap, mem[x].standing, mem[x].groups)
  <2>1. Go(x, "existing", mem[x])
    BY DEF AdoptSave
  <2>. QED
    BY <1>1, <1>2, <1>3, <2>1, GoingOn
<1>5. StoreTyped'
  BY <1>2 DEF AdoptSave, StoreTyped, TypeInv, TypeOK, Credential
<1>6. TypeInv'
  BY <1>4, <1>5, StillTyped, TypeInvNext DEF AdoptSave
<1>. QED
  BY <1>1, <1>4, <1>6

\* AdoptExisting takes over what was decided before.
LEMMA AdoptExistingDoes ==
  ASSUME TypeInv, NEW x \in Tasks, AdoptExisting(x)
  PROVE  /\ TypeInv' /\ Active(x) /\ job[x].kind = "adopt" /\ pc[x] = "existing"
         /\ mem[x].ws \in Record /\ mishap \subseteq mishap'
         /\ \E ws \in Record, old \in {record[job[x].t], None} :
              /\ Goes(x, "adopt", ws, mem[x].snap, mem[x].standing, mem[x].groups)
              /\ mem'[x].known = (old # None)
              /\ ws.domains = mem[x].ws.domains /\ ws.ok = mem[x].ws.ok
              /\ ws.probed = mem[x].ws.probed
              /\ old # None => ws.serve = old.serve /\ ws.sync = old.sync
              /\ old = record[job[x].t] \/ job[x].t \in mishap'
<1>1. Active(x) /\ job[x].kind = "adopt" /\ pc[x] = "existing"
  BY DEF AdoptExisting, At, Active
<1>2. mem[x] \in Mem /\ mem[x].ws \in Record /\ job[x].t \in Tenants
  BY <1>1, Operated
<1>3. PICK old \in {record[job[x].t], None} :
       /\ mishap' = IF old = record[job[x].t] THEN mishap ELSE mishap \cup {job[x].t}
       /\ Go(x, "adopt",
            [mem[x] EXCEPT !.known = (old # None),
               !.ws.serve = IF old # None THEN old.serve ELSE DefaultServe(mem[x].ws),
               !.ws.sync = IF old # None THEN old.sync ELSE {}])
  BY DEF AdoptExisting, Readable
<1>4. old \in Record \cup {None}
  BY <1>2, <1>3 DEF TypeInv, TypeOK
<1>5. PICK serve : serve = IF old # None THEN old.serve ELSE DefaultServe(mem[x].ws)
  OBVIOUS
<1>6. PICK sync : sync = IF old # None THEN old.sync ELSE {}
  OBVIOUS
<1>7. serve \subseteq Domains /\ sync \subseteq Groups
  BY <1>2, <1>4, <1>5, <1>6, RecordFields DEF DefaultServe
<1>8. PICK ws : ws = [mem[x].ws EXCEPT !.serve = serve, !.sync = sync]
  OBVIOUS
<1>9. /\ ws \in Record /\ ws.domains = mem[x].ws.domains /\ ws.ok = mem[x].ws.ok
      /\ ws.probed = mem[x].ws.probed /\ ws.serve = serve /\ ws.sync = sync
  BY <1>2, <1>7, <1>8 DEF Record
<1>10. PICK known : known = (old # None)
  OBVIOUS
<1>11. PICK m : m = [mem[x] EXCEPT !.known = known, !.ws = ws]
  OBVIOUS
<1>12. /\ m \in Mem /\ m.asked = mem[x].asked /\ m.ws = ws /\ m.snap = mem[x].snap
       /\ m.standing = mem[x].standing /\ m.groups = mem[x].groups /\ m.known = known
  <2>1. known \in BOOLEAN
    BY <1>10
  <2>. QED
    BY <1>2, <1>9, <1>11, <2>1 DEF Mem
<1>13. Go(x, "adopt", m)
  <2>1. [mem[x] EXCEPT !.known = known, !.ws.serve = serve, !.ws.sync = sync] = m
    BY <1>2, <1>8, <1>11 DEF Mem
  <2>. QED
    BY <1>3, <1>5, <1>6, <1>10, <2>1
<1>14. "adopt" \in Pc /\ "adopt" \in PcsOf(job[x].kind)
  BY <1>1, Places DEF Pc
<1>15. /\ TasksTyped' /\ Goes(x, "adopt", ws, mem[x].snap, mem[x].standing, mem[x].groups)
       /\ mem'[x].known = known
  <2>1. /\ TasksTyped' /\ Goes(x, "adopt", m.ws, m.snap, m.standing, m.groups)
    BY <1>1, <1>9, <1>12, <1>13, <1>14, GoingOn
  <2>2. mem'[x] = m
    BY <1>13, GoDoes
  <2>. QED
    BY <1>12, <2>1, <2>2
<1>16. ChoicesTyped' /\ mishap \subseteq mishap'
  <2>1. choice' = choice /\ mishap \subseteq Tenants
    BY DEF AdoptExisting, TypeInv, TypeOK
  <2>. QED
    BY <1>2, <1>3, <2>1, TypeInvIs DEF ChoicesTyped
<1>17. TypeInv'
  BY <1>15, <1>16, StillTyped, TypeInvNext DEF AdoptExisting
<1>18. /\ old # None => ws.serve = old.serve /\ ws.sync = old.sync
       /\ old = record[job[x].t] \/ job[x].t \in mishap'
  BY <1>3, <1>5, <1>6, <1>9
<1>. QED
  BY <1>1, <1>2, <1>3, <1>9, <1>10, <1>15, <1>16, <1>17, <1>18

\* AdoptStore stores the record, and has the tenant read.
LEMMA AdoptStoreDoes ==
  ASSUME TypeInv, NEW x \in Tasks, AdoptStore(x)
  PROVE  /\ TypeInv' /\ Active(x) /\ job[x].kind = "adopt" /\ pc[x] = "adopt"
         /\ mem[x].ws \in Record /\ job[x].t \in Tenants /\ Ends(x, None)
         /\ \A u \in Tenants : record'[u] = IF u = job[x].t THEN mem[x].ws ELSE record[u]
         /\ \A u \in Tenants : u # job[x].t \/ mem[x].known => choice'[u] = choice[u]
         /\ ~mem[x].known =>
              choice'[job[x].t] = [serve |-> mem[x].ws.serve, sync |-> mem[x].ws.sync]
         /\ mishap \subseteq mishap' /\ (RecordInHand(x, job[x].t) => job[x].t \in mishap')
         /\ \A q \in Replicas, u \in Tenants :
              flight'[q][u] = flight[q][u] \/ flight'[q][u].pc = "open"
<1>1. Active(x) /\ job[x].kind = "adopt" /\ pc[x] = "adopt"
  BY DEF AdoptStore, At, Active
<1>2. mem[x].ws \in Record /\ job[x].t \in Tenants /\ job[x].r \in Replicas
  BY <1>1, Operated
<1>3. /\ StoreTyped'
      /\ \A u \in Tenants : record'[u] = IF u = job[x].t THEN mem[x].ws ELSE record[u]
  <2>1. record' = [record EXCEPT ![job[x].t] = mem[x].ws] /\ UNCHANGED <<revoked, snapshot, cred>>
    BY DEF AdoptStore
  <2>. QED
    BY <1>2, <2>1, RecordStored
<1>4. TasksTyped' /\ Ends(x, None)
  BY <1>1, Ending DEF AdoptStore
<1>5. /\ FlightsTyped'
      /\ \A q \in Replicas, u \in Tenants :
           flight'[q][u] = flight[q][u] \/ flight'[q][u].pc = "open"
  BY <1>2, SoonDoes DEF AdoptStore
<1>6. /\ mishap' \subseteq Tenants /\ mishap \subseteq mishap'
      /\ RecordInHand(x, job[x].t) => job[x].t \in mishap'
  BY <1>1, MishapDoes DEF AdoptStore
<1>7. PICK c : c = [serve |-> mem[x].ws.serve, sync |-> mem[x].ws.sync]
  OBVIOUS
<1>8. c \in Choices
  BY <1>2, <1>7, RecordFields DEF Choices
<1>9. /\ choice \in [Tenants -> Choices]
      /\ choice' = IF mem[x].known THEN choice ELSE [choice EXCEPT ![job[x].t] = c]
  BY <1>7, TypeInvIs DEF ChoicesTyped, AdoptStore
<1>10. /\ choice' \in [Tenants -> Choices]
       /\ \A u \in Tenants : u # job[x].t \/ mem[x].known => choice'[u] = choice[u]
       /\ ~mem[x].known => choice'[job[x].t] = c
  BY <1>2, <1>8, <1>9
<1>11. ChoicesTyped'
  BY <1>6, <1>10 DEF ChoicesTyped
<1>12. TypeInv'
  BY <1>3, <1>4, <1>5, <1>11, StillTyped, TypeInvNext DEF AdoptStore
<1>. QED
  BY <1>1, <1>2, <1>3, <1>4, <1>5, <1>6, <1>7, <1>10, <1>12

\* A disconnect starts.
LEMMA DisconnectDoes ==
  ASSUME TypeInv, NEW x \in Tasks, NEW r \in Replicas, NEW t \in Tenants, Disconnect(x, r, t)
  PROVE  TypeInv' /\ Starts(x, "disconnect", t, None, "revoke", None)
<1>1. /\ "disconnect" \in Kinds /\ "revoke" \in Pc /\ "revoke" \in PcsOf("disconnect")
      /\ None \in ArgsOf("disconnect")
  BY Places DEF Kinds, Pc
<1>2. NoMem \in Mem /\ NoMem.ws = None /\ NoMem.snap = None /\ NoMem.groups = {}
  BY NoneType DEF NoMem
<1>3. Begin(x, "disconnect", r, t, None, FALSE, NoMem, "revoke")
  BY DEF Disconnect
<1>4. TasksTyped' /\ Starts(x, "disconnect", t, None, "revoke", None)
  BY <1>1, <1>2, <1>3, Beginning
<1>. QED
  BY <1>4, OnlyAskType DEF Disconnect

\* A step of a disconnect goes on to the next.
LEMMA Disconnecting ==
  ASSUME TypeInv, NEW x \in Tasks, Active(x), job[x].kind = "disconnect",
         NEW p \in {"dropSnapshot", "dropCredential", "dropRecord"}, Go(x, p, mem[x])
  PROVE  TasksTyped' /\ Goes(x, p, mem[x].ws, mem[x].snap, mem[x].standing, mem[x].groups)
<1>1. p \in Pc \ {"idle", "done", "narrowed"} /\ p \in PcsOf(job[x].kind)
  BY Places DEF Pc
<1>2. mem[x] \in Mem
  BY Operated
<1>. QED
  BY <1>1, <1>2, GoingOn

\* Revoke hands the credential back.
LEMMA RevokeDoes ==
  ASSUME TypeInv, NEW x \in Tasks, Revoke(x)
  PROVE  /\ TypeInv' /\ job[x].kind = "disconnect" /\ pc[x] = "revoke"
         /\ Goes(x, "dropSnapshot", mem[x].ws, mem[x].snap, mem[x].standing, mem[x].groups)
<1>1. Active(x) /\ job[x].kind = "disconnect" /\ pc[x] = "revoke"
  BY DEF Revoke, At, Active
<1>2. job[x].t \in Tenants /\ job[x].r \in Replicas
  BY <1>1, Operated
<1>3. ReadersTyped'
  BY <1>2, OpenType DEF Revoke
<1>4. StoreTyped'
  BY <1>2, OpenedType DEF Revoke, StoreTyped, TypeInv, TypeOK
<1>5. TasksTyped' /\ Goes(x, "dropSnapshot", mem[x].ws, mem[x].snap, mem[x].standing, mem[x].groups)
  BY <1>1, Disconnecting DEF Revoke
<1>6. TypeInv'
  BY <1>3, <1>4, <1>5, StillTyped, TypeInvNext DEF Revoke
<1>. QED
  BY <1>1, <1>5, <1>6

\* DropSnapshot leaves no snapshot, or the tenant is marked.
LEMMA DropSnapshotDoes ==
  ASSUME TypeInv, NEW x \in Tasks, DropSnapshot(x)
  PROVE  /\ TypeInv' /\ Active(x) /\ job[x].kind = "disconnect" /\ pc[x] = "dropSnapshot"
         /\ Goes(x, "dropCredential", mem[x].ws, mem[x].snap, mem[x].standing, mem[x].groups)
         /\ mishap \subseteq mishap'
         /\ \/ UNCHANGED snapshot /\ job[x].t \in mishap'
            \/ /\ SnapshotInHand(x, job[x].t) => job[x].t \in mishap'
               /\ \A u \in Tenants : snapshot'[u] = IF u = job[x].t THEN None ELSE snapshot[u]
<1>1. Active(x) /\ job[x].kind = "disconnect" /\ pc[x] = "dropSnapshot"
  BY DEF DropSnapshot, At, Active
<1>2. job[x].t \in Tenants
  BY <1>1, Operated
<1>3. TasksTyped' /\ Goes(x, "dropCredential", mem[x].ws, mem[x].snap, mem[x].standing, mem[x].groups)
  BY <1>1, Disconnecting DEF DropSnapshot
<1>4. /\ mishap' \subseteq Tenants /\ mishap \subseteq mishap'
      /\ \/ UNCHANGED snapshot /\ job[x].t \in mishap'
         \/ /\ snapshot' = [snapshot EXCEPT ![job[x].t] = None]
            /\ SnapshotInHand(x, job[x].t) => job[x].t \in mishap'
  BY <1>1, MishapDoes DEF DropSnapshot
<1>5. /\ StoreTyped'
      /\ snapshot' = [snapshot EXCEPT ![job[x].t] = None] =>
           \A u \in Tenants : snapshot'[u] = IF u = job[x].t THEN None ELSE snapshot[u]
  <2>1. UNCHANGED <<revoked, record, cred>>
    BY DEF DropSnapshot
  <2>. QED
    BY <1>2, <1>4, <2>1, SnapshotStored, StillTyped
<1>6. ChoicesTyped'
  BY <1>4, TypeInvIs DEF ChoicesTyped, DropSnapshot
<1>7. TypeInv'
  BY <1>3, <1>5, <1>6, StillTyped, TypeInvNext DEF DropSnapshot
<1>. QED
  BY <1>1, <1>3, <1>4, <1>5, <1>7

\* DropCredential forgets the credential, or the tenant is marked.
LEMMA DropCredentialDoes ==
  ASSUME TypeInv, NEW x \in Tasks, DropCredential(x)
  PROVE  /\ TypeInv' /\ Active(x) /\ job[x].kind = "disconnect" /\ pc[x] = "dropCredential"
         /\ Goes(x, "dropRecord", mem[x].ws, mem[x].snap, mem[x].standing, mem[x].groups)
         /\ mishap \subseteq mishap'
<1>1. Active(x) /\ job[x].kind = "disconnect" /\ pc[x] = "dropCredential"
  BY DEF DropCredential, At, Active
<1>2. job[x].t \in Tenants /\ job[x].r \in Replicas
  BY <1>1, Operated
<1>3. TasksTyped' /\ Goes(x, "dropRecord", mem[x].ws, mem[x].snap, mem[x].standing, mem[x].groups)
  BY <1>1, Disconnecting DEF DropCredential
<1>4. mishap' \subseteq Tenants /\ mishap \subseteq mishap'
  <2>1. Mishap(x, TRUE) \/ mishap' = mishap
    BY DEF DropCredential
  <2>. QED
    BY <1>1, <2>1, MishapDoes DEF TypeInv, TypeOK
<1>5. StoreTyped' /\ ReadersTyped'
  BY <1>2 DEF DropCredential, StoreTyped, ReadersTyped, TypeInv, TypeOK
<1>6. ChoicesTyped'
  BY <1>4, TypeInvIs DEF ChoicesTyped, DropCredential
<1>7. TypeInv'
  BY <1>3, <1>5, <1>6, StillTyped, TypeInvNext DEF DropCredential
<1>. QED
  BY <1>1, <1>3, <1>4, <1>7

\* DropRecord forgets the record.
LEMMA DropRecordDoes ==
  ASSUME TypeInv, NEW x \in Tasks, DropRecord(x)
  PROVE  /\ TypeInv' /\ Active(x) /\ job[x].kind = "disconnect" /\ pc[x] = "dropRecord"
         /\ Ends(x, None) /\ mishap \subseteq mishap'
         /\ RecordInHand(x, job[x].t) => job[x].t \in mishap'
         /\ \A u \in Tenants : record'[u] = IF u = job[x].t THEN None ELSE record[u]
<1>1. Active(x) /\ job[x].kind = "disconnect" /\ pc[x] = "dropRecord"
  BY DEF DropRecord, At, Active
<1>2. job[x].t \in Tenants
  BY <1>1, Operated
<1>3. /\ StoreTyped'
      /\ \A u \in Tenants : record'[u] = IF u = job[x].t THEN None ELSE record[u]
  <2>1. record' = [record EXCEPT ![job[x].t] = None] /\ UNCHANGED <<revoked, snapshot, cred>>
    BY DEF DropRecord
  <2>. QED
    BY <1>2, <2>1, RecordStored
<1>4. TasksTyped' /\ Ends(x, None)
  BY <1>1, Ending DEF DropRecord
<1>5. /\ mishap' \subseteq Tenants /\ mishap \subseteq mishap'
      /\ RecordInHand(x, job[x].t) => job[x].t \in mishap'
  BY <1>1, MishapDoes DEF DropRecord
<1>6. ChoicesTyped'
  BY <1>5, TypeInvIs DEF ChoicesTyped, DropRecord
<1>7. TypeInv'
  BY <1>3, <1>4, <1>6, StillTyped, TypeInvNext DEF DropRecord
<1>. QED
  BY <1>1, <1>3, <1>4, <1>5, <1>7

\* A request that is abandoned marks its tenant, but for a lookup.
LEMMA AbandonDoes ==
  ASSUME TypeInv, NEW x \in Tasks, Abandon(x)
  PROVE  /\ TypeInv' /\ Ends(x, None) /\ mishap \subseteq mishap'
         /\ job[x].t \in mishap' \/ job[x].kind \in {"point", "group"}
<1>1. Active(x) /\ job[x].t \in Tenants
  BY Operated DEF Abandon
<1>2. TasksTyped' /\ Ends(x, None)
  BY <1>1, Ending DEF Abandon
<1>3. /\ mishap' \subseteq Tenants /\ mishap \subseteq mishap'
      /\ job[x].t \in mishap' \/ job[x].kind \in {"point", "group"}
  BY <1>1 DEF Abandon, TypeInv, TypeOK
<1>4. ChoicesTyped'
  BY <1>3, TypeInvIs DEF ChoicesTyped, Abandon
<1>5. TypeInv'
  BY <1>2, <1>4, StillTyped, TypeInvNext DEF Abandon
<1>. QED
  BY <1>2, <1>3, <1>5

-----------------------------------------------------------------------------
(* Full reads, and the environment.                                        *)

\* A step of a full read: f is what becomes of it.
Flies(r, t, f) ==
  /\ \A q \in Replicas, u \in Tenants :
       flight'[q][u] = IF q = r /\ u = t THEN f ELSE flight[q][u]
  /\ FlightOnly

\* What a full read leaves alone keeps its type.
LEMMA FlightOnlyType ==
  ASSUME TypeInv, FlightOnly
  PROVE  /\ TasksTyped' /\ (UNCHANGED refreshes => EnvTyped')
         /\ UNCHANGED snapshot => StoreTyped'
         /\ mishap' \subseteq Tenants => ChoicesTyped'
BY TypeInvIs
   DEF FlightOnly, requests, world, EnvTyped, StartsTyped, StoreTyped, ChoicesTyped, TasksTyped,
       Active

\* A full read, as one.
LEMMA FlightTyped ==
  ASSUME TypeInv, NEW r \in Replicas, NEW t \in Tenants
  PROVE  flight[r][t] \in Flight /\ FlightPlaced(flight[r][t])
BY DEF TypeInv, TypeOK, Shape

\* A full read goes on, and nothing else happens.
LEMMA FlightGoesOn ==
  ASSUME TypeInv, NEW r \in Replicas, NEW t \in Tenants, NEW f \in Flight, FlightPlaced(f),
         flight' = [flight EXCEPT ![r][t] = f], FlightOnly,
         UNCHANGED <<snapshot, refreshes, mishap>>, ReadersTyped'
  PROVE  TypeInv' /\ Flies(r, t, f)
<1>1. FlightsTyped'
  BY FlightType
<1>2. flight \in [Replicas -> [Tenants -> Flight]]
  BY DEF TypeInv, TypeOK
<1>3. Flies(r, t, f)
  BY <1>2 DEF Flies
<1>4. TasksTyped' /\ EnvTyped' /\ StoreTyped' /\ ChoicesTyped'
  BY FlightOnlyType DEF TypeInv, TypeOK
<1>. QED
  BY <1>1, <1>3, <1>4, TypeInvNext

\* Refresh begins one.
LEMMA RefreshDoes ==
  ASSUME TypeInv, NEW r \in Replicas, NEW t \in Tenants, Refresh(r, t)
  PROVE  /\ TypeInv' /\ FlightOnly /\ UNCHANGED <<snapshot, mishap>>
         /\ \A q \in Replicas, u \in Tenants :
              flight'[q][u] = flight[q][u] \/ flight'[q][u].pc = "open"
<1>1. /\ FlightsTyped'
      /\ \A q \in Replicas, u \in Tenants :
           flight'[q][u] = flight[q][u] \/ flight'[q][u].pc = "open"
  BY SoonDoes DEF Refresh
<1>2. EnvTyped'
  BY HubAssumption, TypeInvIs DEF Refresh, EnvTyped, StartsTyped, FlightOnly, world
<1>3. TasksTyped' /\ StoreTyped' /\ ChoicesTyped' /\ ReadersTyped'
  BY FlightOnlyType, StillTyped DEF Refresh, TypeInv, TypeOK
<1>. QED
  BY <1>1, <1>2, <1>3, TypeInvNext DEF Refresh

\* FlightOpen opens the reader.
LEMMA FlightOpenDoes ==
  ASSUME TypeInv, NEW r \in Replicas, NEW t \in Tenants, FlightOpen(r, t)
  PROVE  /\ TypeInv' /\ UNCHANGED <<snapshot, mishap>>
         /\ \E f \in Flight : Flies(r, t, f) /\ f.pc \in {"idle", "record"}
<1>1. PICK f : f = IF Opened(r, t) = None THEN Idle(FALSE)
                   ELSE [flight[r][t] EXCEPT !.pc = "record", !.by = Opened(r, t)]
  OBVIOUS
<1>2. f \in Flight /\ FlightPlaced(f) /\ f.pc \in {"idle", "record"}
  <2>1. CASE Opened(r, t) = None
    BY <1>1, <2>1, IdleType
  <2>2. CASE Opened(r, t) # None
    <3>1. f = [flight[r][t] EXCEPT !.pc = "record", !.by = Opened(r, t)]
      BY <1>1, <2>2
    <3>. QED
      BY <3>1, OpenedType, FlightTyped DEF Flight, FlightPlaced, FlightPc
  <2>. QED
    BY <2>1, <2>2
<1>3. flight \in [Replicas -> [Tenants -> Flight]]
  BY DEF TypeInv, TypeOK
<1>4. flight' = [flight EXCEPT ![r][t] = f]
  BY <1>1, <1>3 DEF FlightOpen
<1>5. ReadersTyped'
  BY OpenType DEF FlightOpen
<1>. QED
  BY <1>2, <1>4, <1>5, FlightGoesOn DEF FlightOpen

\* FlightRecord reads the record.
LEMMA FlightRecordDoes ==
  ASSUME TypeInv, NEW r \in Replicas, NEW t \in Tenants, FlightRecord(r, t)
  PROVE  /\ TypeInv' /\ UNCHANGED <<snapshot, mishap>>
         /\ \E f \in Flight :
              /\ Flies(r, t, f)
              /\ \/ f.pc = "idle"
                 \/ f.pc = "accounts" /\ record[t] \in Record /\ f.ws = record[t]
<1>1. PICK f : f = IF record[t] # None THEN [flight[r][t] EXCEPT !.pc = "accounts", !.ws = record[t]]
                   ELSE Idle(FALSE)
  OBVIOUS
<1>2. /\ f \in Flight /\ FlightPlaced(f)
      /\ f.pc = "idle" \/ (f.pc = "accounts" /\ record[t] \in Record /\ f.ws = record[t])
  <2>1. CASE record[t] = None
    BY <1>1, <2>1, IdleType
  <2>2. CASE record[t] # None
    <3>1. f = [flight[r][t] EXCEPT !.pc = "accounts", !.ws = record[t]]
      BY <1>1, <2>2
    <3>2. record[t] \in Record
      BY <2>2 DEF TypeInv, TypeOK
    <3>. QED
      BY <3>1, <3>2, FlightTyped DEF Flight, FlightPlaced, FlightPc
  <2>. QED
    BY <2>1, <2>2
<1>3. flight \in [Replicas -> [Tenants -> Flight]]
  BY DEF TypeInv, TypeOK
<1>4. flight' = [flight EXCEPT ![r][t] = f]
  BY <1>1, <1>3 DEF FlightRecord
<1>5. ReadersTyped'
  BY StillTyped DEF FlightRecord
<1>. QED
  BY <1>2, <1>4, <1>5, FlightGoesOn DEF FlightRecord

\* FlightAccounts lists the accounts.
LEMMA FlightAccountsDoes ==
  ASSUME TypeInv, NEW r \in Replicas, NEW t \in Tenants, FlightAccounts(r, t)
  PROVE  /\ TypeInv' /\ flight[r][t].pc = "accounts" /\ UNCHANGED <<snapshot, mishap>>
         /\ \E f \in Flight :
              /\ Flies(r, t, f) /\ f.pc = "groups" /\ f.ws = flight[r][t].ws /\ f.began = now
              /\ f.accounts \in [Emails -> Standing]
              /\ \A e \in Emails : f.accounts[e] = AccountAt(t, e)
<1>1. PICK accounts : accounts = [e \in Emails |-> AccountAt(t, e)]
  OBVIOUS
<1>2. accounts \in [Emails -> Standing] /\ \A e \in Emails : accounts[e] = AccountAt(t, e)
  BY <1>1 DEF AccountAt, TypeInv, TypeOK, Standing
<1>3. PICK f : f = [flight[r][t] EXCEPT !.pc = "groups", !.began = now, !.accounts = accounts]
  OBVIOUS
<1>4. flight[r][t] \in Flight /\ flight[r][t].ws \in Record /\ now \in Time
  BY FlightTyped DEF FlightPlaced, FlightAccounts, TypeInv, TypeOK
<1>5. /\ f \in Flight /\ f.pc = "groups" /\ f.ws = flight[r][t].ws /\ f.began = now
      /\ f.accounts = accounts
  BY <1>2, <1>3, <1>4 DEF Flight, FlightPc
<1>6. FlightPlaced(f)
  BY <1>2, <1>4, <1>5 DEF FlightPlaced
<1>7. flight \in [Replicas -> [Tenants -> Flight]]
  BY DEF TypeInv, TypeOK
<1>8. flight' = [flight EXCEPT ![r][t] = f]
  BY <1>1, <1>3, <1>7 DEF FlightAccounts
<1>9. ReadersTyped' /\ flight[r][t].pc = "accounts" /\ UNCHANGED <<snapshot, mishap>>
  BY StillTyped DEF FlightAccounts
<1>10. TypeInv' /\ Flies(r, t, f)
  BY <1>5, <1>6, <1>8, <1>9, FlightGoesOn DEF FlightAccounts
<1>. QED
  BY <1>2, <1>5, <1>9, <1>10

\* FlightGroups lists the groups, and makes the snapshot.
LEMMA FlightGroupsDoes ==
  ASSUME TypeInv, NEW r \in Replicas, NEW t \in Tenants, FlightGroups(r, t)
  PROVE  /\ TypeInv' /\ flight[r][t].pc = "groups" /\ UNCHANGED <<snapshot, mishap>>
         /\ flight[r][t].ws \in Record
         /\ \E all \in Snapshot, f \in Flight :
              /\ all.at = now /\ all.accounts = flight[r][t].accounts
              /\ all.kept = GroupsAt(t) /\ all.made = {} /\ all.discovered = GroupsAt(t)
              /\ \A g \in GroupsAt(t) : all.members[g] = members[g]
              /\ Flies(r, t, f) /\ f.pc = "put"
              /\ f.snap = restrict(all, flight[r][t].ws.serve, flight[r][t].ws.sync)
<1>1. PICK all : all = NewSnapshot(now, flight[r][t].accounts, GroupsAt(t), members, GroupsAt(t), {})
  OBVIOUS
<1>2. /\ flight[r][t].ws \in Record /\ flight[r][t].accounts \in [Emails -> Standing]
      /\ now \in Time /\ members \in [Groups -> SUBSET Emails] /\ GroupsAt(t) \subseteq Groups
      /\ flight[r][t].pc = "groups"
  BY FlightTyped DEF FlightPlaced, FlightGroups, TypeInv, TypeOK, GroupsAt
<1>3. /\ all \in Snapshot /\ all.at = now /\ all.accounts = flight[r][t].accounts
      /\ all.kept = GroupsAt(t) /\ all.made = {} /\ all.discovered = GroupsAt(t)
      /\ \A g \in GroupsAt(t) : all.members[g] = members[g]
  BY <1>1, <1>2 DEF NewSnapshot, Snapshot
<1>4. PICK n : n = restrict(all, flight[r][t].ws.serve, flight[r][t].ws.sync)
  OBVIOUS
<1>5. n \in Snapshot
  <2>1. flight[r][t].ws.serve \subseteq Domains /\ flight[r][t].ws.sync \subseteq Groups
    BY <1>2, RecordFields
  <2>. QED
    BY <1>3, <1>4, <2>1, RestrictType
<1>6. PICK f : f = [Idle(FALSE) EXCEPT !.pc = "put", !.snap = n]
  OBVIOUS
<1>7. f \in Flight /\ FlightPlaced(f) /\ f.pc = "put" /\ f.snap = n
  BY <1>5, <1>6 DEF Idle, Flight, FlightPlaced, FlightPc
<1>8. flight' = [flight EXCEPT ![r][t] = f]
  BY <1>1, <1>4, <1>6 DEF FlightGroups
<1>9. ReadersTyped' /\ UNCHANGED <<snapshot, mishap>>
  BY StillTyped DEF FlightGroups
<1>10. TypeInv' /\ Flies(r, t, f)
  BY <1>7, <1>8, <1>9, FlightGoesOn DEF FlightGroups
<1>. QED
  BY <1>2, <1>3, <1>4, <1>7, <1>9, <1>10

\* FlightPut stores it.
LEMMA FlightPutDoes ==
  ASSUME TypeInv, NEW r \in Replicas, NEW t \in Tenants, FlightPut(r, t)
  PROVE  /\ TypeInv' /\ flight[r][t].pc = "put" /\ flight[r][t].snap \in Snapshot
         /\ \A u \in Tenants :
              snapshot'[u] = IF u = t THEN flight[r][t].snap ELSE snapshot[u]
         /\ \E f \in Flight : Flies(r, t, f) /\ f.pc = "idle"
         /\ mishap \subseteq mishap'
         /\ (\E x \in Tasks : job[x].t = t /\ job[x].kind = "disconnect") => t \in mishap'
<1>1. flight[r][t].snap \in Snapshot /\ flight[r][t].pc = "put"
  BY FlightTyped DEF FlightPlaced, FlightPut
<1>2. /\ StoreTyped'
      /\ \A u \in Tenants : snapshot'[u] = IF u = t THEN flight[r][t].snap ELSE snapshot[u]
  <2>1. /\ snapshot' = [snapshot EXCEPT ![t] = flight[r][t].snap]
        /\ UNCHANGED <<revoked, record, cred>>
    BY DEF FlightPut, FlightOnly
  <2>. QED
    BY <1>1, <2>1, SnapshotStored
<1>3. PICK f : f = Idle(TRUE)
  OBVIOUS
<1>4. f \in Flight /\ FlightPlaced(f) /\ f.pc = "idle"
  BY <1>3, IdleType
<1>5. flight' = [flight EXCEPT ![r][t] = f] /\ FlightOnly
  BY <1>3 DEF FlightPut
<1>6. FlightsTyped'
  BY <1>4, <1>5, FlightType
<1>7. flight \in [Replicas -> [Tenants -> Flight]]
  BY DEF TypeInv, TypeOK
<1>8. Flies(r, t, f)
  BY <1>5, <1>7 DEF Flies
<1>9. /\ mishap' \subseteq Tenants /\ mishap \subseteq mishap'
      /\ (\E x \in Tasks : job[x].t = t /\ job[x].kind = "disconnect") => t \in mishap'
  BY DEF FlightPut, TypeInv, TypeOK
<1>10. ReadersTyped' /\ TasksTyped' /\ EnvTyped' /\ ChoicesTyped'
  BY <1>9, FlightOnlyType, StillTyped DEF FlightPut
<1>11. TypeInv'
  BY <1>2, <1>6, <1>10, TypeInvNext
<1>. QED
  BY <1>1, <1>2, <1>4, <1>8, <1>9, <1>11

\* FlightFails ends it.
LEMMA FlightFailsDoes ==
  ASSUME TypeInv, NEW r \in Replicas, NEW t \in Tenants, FlightFails(r, t)
  PROVE  /\ TypeInv' /\ UNCHANGED <<snapshot, mishap>>
         /\ \E f \in Flight : Flies(r, t, f) /\ f.pc = "idle"
<1>1. PICK f : f = Idle(FALSE)
  OBVIOUS
<1>2. f \in Flight /\ FlightPlaced(f) /\ f.pc = "idle"
  BY <1>1, IdleType
<1>3. flight' = [flight EXCEPT ![r][t] = f]
  BY <1>1 DEF FlightFails
<1>4. ReadersTyped'
  BY StillTyped DEF FlightFails
<1>. QED
  BY <1>2, <1>3, <1>4, FlightGoesOn DEF FlightFails

\* What the environment leaves alone keeps its type.
LEMMA HubStill ==
  ASSUME TypeInv, UNCHANGED <<hub, choice, mishap>>, EnvTyped'
  PROVE  TypeInv'
<1>1. StoreTyped' /\ ReadersTyped' /\ ChoicesTyped' /\ FlightsTyped'
  BY StillTyped DEF hub
<1>2. TasksTyped'
  BY TypeInvIs DEF TasksTyped, hub, requests, Active
<1>. QED
  BY <1>1, <1>2, TypeInvNext

\* An account changes.
LEMMA SetStandingType ==
  ASSUME TypeInv, NEW e \in Emails, NEW st \in Standing, SetStanding(e, st)
  PROVE  TypeInv'
<1>1. EnvTyped
  BY TypeInvIs
<1>2. standing' \in [Emails -> Standing] /\ last' \in [Emails -> [Standing -> Time \cup {Before}]]
  BY <1>1 DEF SetStanding, EnvTyped
<1>3. members' \in [Groups -> SUBSET Emails] /\ steady' \subseteq Groups \X Emails
  BY <1>1 DEF SetStanding, EnvTyped
<1>4. events' \in 0 .. MaxEvents
  BY <1>1, HubAssumption DEF SetStanding, Event, EnvTyped
<1>5. EnvTyped'
  BY <1>1, <1>2, <1>3, <1>4 DEF SetStanding, EnvTyped, StartsTyped, hub
<1>. QED
  BY <1>5, HubStill DEF SetStanding

\* A domain changes hands.
LEMMA MoveDomainType ==
  ASSUME TypeInv, NEW d \in Domains, NEW o \in Tenants, MoveDomain(d, o)
  PROVE  TypeInv'
<1>1. EnvTyped
  BY TypeInvIs
<1>2. owner' \in [Domains -> Tenants] /\ moved' \in [Domains -> Time \cup {Before}]
  BY <1>1 DEF MoveDomain, EnvTyped
<1>3. events' \in 0 .. MaxEvents
  BY <1>1, HubAssumption DEF MoveDomain, Event, EnvTyped
<1>4. EnvTyped'
  BY <1>1, <1>2, <1>3 DEF MoveDomain, EnvTyped, StartsTyped, hub
<1>. QED
  BY <1>4, HubStill DEF MoveDomain

\* Somebody joins or leaves a group.
LEMMA SetMemberType ==
  ASSUME TypeInv, NEW g \in Groups, NEW e \in Emails, SetMember(g, e)
  PROVE  TypeInv'
<1>1. EnvTyped
  BY TypeInvIs
<1>2. members' \in [Groups -> SUBSET Emails] /\ steady' \subseteq Groups \X Emails
  BY <1>1 DEF SetMember, EnvTyped
<1>3. events' \in 0 .. MaxEvents
  BY <1>1, HubAssumption DEF SetMember, Event, EnvTyped
<1>4. EnvTyped'
  BY <1>1, <1>2, <1>3 DEF SetMember, EnvTyped, StartsTyped, hub
<1>. QED
  BY <1>4, HubStill DEF SetMember

\* Time passes.
LEMMA TickType ==
  ASSUME TypeInv, Tick
  PROVE  TypeInv'
<1>1. EnvTyped
  BY TypeInvIs
<1>2. now' \in Time
  BY <1>1, HubAssumption DEF Tick, EnvTyped, Time
<1>3. EnvTyped'
  BY <1>1, <1>2 DEF Tick, EnvTyped, StartsTyped, hub, world, history
<1>4. UNCHANGED <<hub, choice, mishap>>
  BY DEF Tick, history
<1>. QED
  BY <1>3, <1>4, HubStill

\* The requests a process loses when it ends.
Mine(r) == {x \in Tasks : Active(x) /\ job[x].r = r}

\* One process's start goes on, and no other's.
LEMMA StartsAre ==
  ASSUME TypeInv, NEW r \in Replicas, NEW b \in Starting, StartPlaced(b),
         start' = [start EXCEPT ![r] = b]
  PROVE  StartsTyped' /\ \A q \in Replicas : start'[q] = start[q] \/ start'[q] = b
<1>1. start \in [Replicas -> Starting] /\ \A q \in Replicas : StartPlaced(start[q])
  BY TypeInvIs DEF EnvTyped, StartsTyped
<1>2. start' \in [Replicas -> Starting] /\ \A q \in Replicas : start'[q] = IF q = r THEN b ELSE start[q]
  BY <1>1
<1>3. \A q \in Replicas : StartPlaced(start'[q])
  BY <1>1, <1>2
<1>. QED
  BY <1>2, <1>3 DEF StartsTyped

\* A restart: the requests and the full reads of the process are gone.
LEMMA RestartDoes ==
  ASSUME TypeInv, NEW r \in Replicas, Restart(r)
  PROVE  /\ TypeInv' /\ answer' = None
         /\ \A y \in Tasks :
              \/ y \in Mine(r) /\ pc'[y] = "done" /\ job'[y] = NoJob /\ mem'[y] = NoMem
              \/ y \notin Mine(r) /\ pc'[y] = pc[y] /\ job'[y] = job[y] /\ mem'[y] = mem[y]
         /\ \A q \in Replicas, u \in Tenants :
              \/ flight'[q][u] = flight[q][u]
              \/ flight'[q][u].pc = "idle"
         /\ \A q \in Replicas : start'[q] = start[q] \/ start'[q].t = None
         /\ mishap \subseteq mishap'
         /\ \A x \in Mine(r) : job[x].t \in mishap'
<1>1. /\ pc' = [x \in Tasks |-> IF x \in Mine(r) THEN "done" ELSE pc[x]]
      /\ job' = [x \in Tasks |-> IF x \in Mine(r) THEN NoJob ELSE job[x]]
      /\ mem' = [x \in Tasks |-> IF x \in Mine(r) THEN NoMem ELSE mem[x]]
      /\ mishap' = mishap \cup {job[x].t : x \in Mine(r)}
  BY DEF Restart, Mine
<1>2. \A y \in Tasks :
        \/ y \in Mine(r) /\ pc'[y] = "done" /\ job'[y] = NoJob /\ mem'[y] = NoMem
        \/ y \notin Mine(r) /\ pc'[y] = pc[y] /\ job'[y] = job[y] /\ mem'[y] = mem[y]
  BY <1>1
<1>3. TasksTyped'
  <2>1. /\ pc \in [Tasks -> Pc] /\ job \in [Tasks -> Job] /\ mem \in [Tasks -> Mem]
        /\ \A y \in Tasks : Active(y) <=> job[y] # NoJob
        /\ \A y \in Tasks : Active(y) => Placed(pc[y], job[y], mem[y])
    BY TypeInvIs DEF TasksTyped
  <2>2. pc' \in [Tasks -> Pc]
    BY <1>1, <2>1 DEF Pc
  <2>3. job' \in [Tasks -> Job] /\ mem' \in [Tasks -> Mem]
    BY <1>1, <2>1, NoneType
  <2>4. ASSUME NEW y \in Tasks
        PROVE  /\ Active(y)' <=> job'[y] # NoJob
               /\ Active(y)' => Placed(pc'[y], job'[y], mem'[y])
    BY <1>2, <2>1 DEF Active
  <2>. QED
    BY <2>2, <2>3, <2>4 DEF TasksTyped
<1>4. /\ mishap' \subseteq Tenants /\ mishap \subseteq mishap'
      /\ \A x \in Mine(r) : job[x].t \in mishap'
  <2>1. mishap \subseteq Tenants
    BY DEF TypeInv, TypeOK
  <2>2. \A x \in Mine(r) : x \in Tasks /\ job[x].t \in Tenants
    BY ActivePlaced DEF Mine
  <2>. QED
    BY <1>1, <2>1, <2>2
<1>5. StoreTyped'
  BY StillTyped DEF Restart
<1>6. ReadersTyped'
  <2>1. PICK rd : rd = [t \in Tenants |-> None]
    OBVIOUS
  <2>2. rd \in [Tenants -> Credential \cup {None}] /\ reader' = [reader EXCEPT ![r] = rd]
    BY <2>1 DEF Restart
  <2>. QED
    BY <2>2, TypeInvIs DEF ReadersTyped
<1>7. /\ FlightsTyped'
      /\ \A q \in Replicas, u \in Tenants :
           \/ flight'[q][u] = flight[q][u]
           \/ flight'[q][u].pc = "idle"
  <2>1. PICK fs : fs = [t \in Tenants |-> Idle(FALSE)]
    OBVIOUS
  <2>2. /\ fs \in [Tenants -> Flight]
        /\ \A u \in Tenants : fs[u] \in Flight /\ FlightPlaced(fs[u]) /\ fs[u].pc = "idle"
    BY <2>1, IdleType
  <2>3. /\ flight \in [Replicas -> [Tenants -> Flight]]
        /\ \A q \in Replicas, u \in Tenants : FlightPlaced(flight[q][u])
    BY TypeInvIs DEF FlightsTyped
  <2>4. flight' = [flight EXCEPT ![r] = fs]
    BY <2>1 DEF Restart
  <2>5. /\ flight' \in [Replicas -> [Tenants -> Flight]]
        /\ \A q \in Replicas : flight'[q] = IF q = r THEN fs ELSE flight[q]
    BY <2>2, <2>3, <2>4
  <2>6. \A q \in Replicas, u \in Tenants : FlightPlaced(flight'[q][u])
    BY <2>2, <2>3, <2>5
  <2>. QED
    BY <2>2, <2>5, <2>6 DEF FlightsTyped
<1>8. /\ StartsTyped'
      /\ \A q \in Replicas : start'[q] = start[q] \/ start'[q].t = None
  <2>1. PICK b : b = [Up EXCEPT !.todo = Tenants]
    OBVIOUS
  <2>2. start' = [start EXCEPT ![r] = b]
    BY <2>1 DEF Restart
  <2>3. b \in Starting /\ b.t = None
    BY <2>1 DEF Up, Starting
  <2>. QED
    BY <2>2, <2>3, StartsAre DEF StartPlaced
<1>9. EnvTyped'
  BY <1>8, HubAssumption, TypeInvIs DEF Restart, Event, EnvTyped, world
<1>10. ChoicesTyped' /\ answer' = None
  BY <1>4, TypeInvIs DEF ChoicesTyped, Restart, Event
<1>11. TypeInv'
  BY <1>3, <1>5, <1>6, <1>7, <1>9, <1>10, TypeInvNext
<1>. QED
  BY <1>2, <1>4, <1>7, <1>8, <1>10, <1>11

\* What a start leaves alone keeps its type.
LEMMA StartOnlyType ==
  ASSUME TypeInv, StartOnly, StartsTyped'
  PROVE  EnvTyped' /\ TasksTyped'
BY TypeInvIs DEF StartOnly, EnvTyped, TasksTyped, requests, world, Active

\* StartAdopt has read a declared tenant, or could not.
LEMMA StartAdoptDoes ==
  ASSUME TypeInv, NEW r \in Replicas, NEW t \in Tenants, StartAdopt(r, t)
  PROVE  /\ TypeInv' /\ StartOnly /\ UNCHANGED <<record, flight, choice, mishap>>
         /\ \E ws \in Record :
              /\ ws.probed = now /\ ws.domains \subseteq Owned(t)
              /\ \A q \in Replicas : start'[q] = start[q] \/ (start'[q].t = t /\ start'[q].ws = ws)
<1>1. PICK ok \in BOOLEAN : start' = [start EXCEPT ![r] =
         [todo |-> start[r].todo \ {t}, t |-> t, ws |-> Connected(t, ok, {}, {}, TRUE)]]
  BY DEF StartAdopt
<1>2. PICK ws : ws = Connected(t, ok, {}, {}, TRUE)
  OBVIOUS
<1>3. /\ ws \in Record /\ ws.probed = now /\ ws.domains \subseteq Owned(t)
      /\ ws.serve = {} /\ ws.sync = {}
  <2>1. now \in Time /\ Owned(t) \subseteq Domains
    BY DEF TypeInv, TypeOK, Owned
  <2>. QED
    BY <1>2, <2>1 DEF Connected, Record
<1>4. PICK b : b = [todo |-> start[r].todo \ {t}, t |-> t, ws |-> ws]
  OBVIOUS
<1>5. b \in Starting /\ b.t = t /\ b.ws = ws
  <2>1. start[r].todo \subseteq Tenants
    BY DEF TypeInv, TypeOK, Starting
  <2>. QED
    BY <1>3, <1>4, <2>1 DEF Starting
<1>6. start' = [start EXCEPT ![r] = b]
  BY <1>1, <1>2, <1>4
<1>7. StartsTyped' /\ \A q \in Replicas : start'[q] = start[q] \/ start'[q] = b
  BY <1>3, <1>5, <1>6, StartsAre DEF StartPlaced
<1>8. ReadersTyped'
  BY TypeInvIs DEF StartAdopt, ReadersTyped, Credential
<1>9. UNCHANGED <<revoked, record, cred, snapshot, flight, choice, mishap>> /\ StartOnly
  BY DEF StartAdopt, StartOnly
<1>10. TypeInv'
  BY <1>7, <1>8, <1>9, StartOnlyType, StillTyped, TypeInvNext
<1>. QED
  BY <1>3, <1>5, <1>7, <1>9, <1>10

\* StartStore stores what was read, as the deployment has it.
LEMMA StartStoreDoes ==
  ASSUME TypeInv, NEW r \in Replicas, StartStore(r)
  PROVE  /\ TypeInv' /\ StartOnly /\ start[r].t \in Tenants /\ start[r].ws \in Record
         /\ start[r].ws.serve = {} /\ start[r].ws.sync = {}
         /\ \A u \in Tenants : record'[u] = IF u = start[r].t THEN start[r].ws ELSE record[u]
         /\ \A u \in Tenants : choice'[u] = IF u = start[r].t THEN [serve |-> {}, sync |-> {}]
                                            ELSE choice[u]
         /\ \A q \in Replicas, u \in Tenants :
              flight'[q][u] = flight[q][u] \/ flight'[q][u].pc = "open"
         /\ \A q \in Replicas : start'[q] = start[q] \/ start'[q].t = None
         /\ mishap \subseteq mishap'
         /\ InHandOf(start[r].t, Replicas, Tasks) => start[r].t \in mishap'
<1>1. PICK t : t = start[r].t
  OBVIOUS
<1>2. PICK ws : ws = start[r].ws
  OBVIOUS
<1>3. /\ t \in Tenants /\ ws \in Record /\ ws.serve = {} /\ ws.sync = {}
      /\ start[r].todo \subseteq Tenants
  BY <1>1, <1>2 DEF StartStore, TypeInv, TypeOK, Shape, StartPlaced, Starting
<1>4. /\ record' = [record EXCEPT ![t] = ws]
      /\ choice' = [choice EXCEPT ![t] = [serve |-> ws.serve, sync |-> ws.sync]]
      /\ mishap' = IF InHandOf(t, Replicas, Tasks) THEN mishap \cup {t} ELSE mishap
      /\ Soon(r, t)
      /\ start' = [start EXCEPT ![r] = [Up EXCEPT !.todo = start[r].todo]]
      /\ StartOnly /\ UNCHANGED reader
  BY <1>1, <1>2 DEF StartStore
<1>5. /\ StoreTyped' /\ \A u \in Tenants : record'[u] = IF u = t THEN ws ELSE record[u]
  <2>1. UNCHANGED <<revoked, snapshot, cred>>
    BY <1>4 DEF StartOnly
  <2>. QED
    BY <1>3, <1>4, <2>1, RecordStored
<1>6. /\ choice' \in [Tenants -> Choices]
      /\ \A u \in Tenants : choice'[u] = IF u = t THEN [serve |-> {}, sync |-> {}] ELSE choice[u]
  <2>1. choice \in [Tenants -> Choices]
    BY TypeInvIs DEF ChoicesTyped
  <2>2. PICK c : c = [serve |-> ws.serve, sync |-> ws.sync]
    OBVIOUS
  <2>3. c \in Choices /\ c = [serve |-> {}, sync |-> {}]
    BY <1>3, <2>2 DEF Choices
  <2>4. choice' = [choice EXCEPT ![t] = c]
    BY <1>4, <2>2
  <2>. QED
    BY <1>3, <2>1, <2>3, <2>4
<1>7. mishap' \subseteq Tenants /\ mishap \subseteq mishap' /\ (InHandOf(t, Replicas, Tasks) => t \in mishap')
  BY <1>3, <1>4 DEF TypeInv, TypeOK
<1>8. /\ FlightsTyped'
      /\ \A q \in Replicas, u \in Tenants :
           flight'[q][u] = flight[q][u] \/ flight'[q][u].pc = "open"
  BY <1>3, <1>4, SoonDoes
<1>9. PICK b : b = [Up EXCEPT !.todo = start[r].todo]
  OBVIOUS
<1>10. b \in Starting /\ b.t = None
  BY <1>3, <1>9 DEF Up, Starting
<1>11. StartsTyped' /\ \A q \in Replicas : start'[q] = start[q] \/ start'[q].t = None
  BY <1>4, <1>9, <1>10, StartsAre DEF StartPlaced
<1>12. ReadersTyped' /\ ChoicesTyped'
  BY <1>4, <1>6, <1>7, StillTyped DEF ChoicesTyped
<1>13. TypeInv'
  BY <1>4, <1>5, <1>8, <1>11, <1>12, StartOnlyType, TypeInvNext
<1>. QED
  BY <1>1, <1>2, <1>3, <1>4, <1>5, <1>6, <1>7, <1>8, <1>11, <1>13

\* StartReopen opens what was connected, or forgets what was declared.
LEMMA StartReopenDoes ==
  ASSUME TypeInv, NEW r \in Replicas, NEW t \in Tenants, StartReopen(r, t)
  PROVE  /\ TypeInv' /\ StartOnly /\ UNCHANGED <<flight, choice>>
         /\ \A q \in Replicas : start'[q] = start[q] \/ start'[q].t = None
         /\ mishap \subseteq mishap'
         /\ \/ UNCHANGED record
            \/ /\ t \in mishap'
               /\ \A u \in Tenants : record'[u] = IF u = t THEN None ELSE record[u]
<1>1. PICK b : b = [Up EXCEPT !.todo = start[r].todo \ {t}]
  OBVIOUS
<1>2. b \in Starting /\ b.t = None /\ start' = [start EXCEPT ![r] = b]
  <2>1. start[r].todo \subseteq Tenants
    BY DEF TypeInv, TypeOK, Starting
  <2>. QED
    BY <1>1, <2>1 DEF Up, Starting, StartReopen
<1>3. StartsTyped' /\ \A q \in Replicas : start'[q] = start[q] \/ start'[q].t = None
  BY <1>2, StartsAre DEF StartPlaced
<1>4. /\ StoreTyped' /\ ReadersTyped' /\ mishap' \subseteq Tenants /\ mishap \subseteq mishap'
      /\ \/ UNCHANGED record
         \/ /\ t \in mishap'
            /\ \A u \in Tenants : record'[u] = IF u = t THEN None ELSE record[u]
  <2>1. UNCHANGED <<revoked, cred, snapshot>>
    BY DEF StartReopen, StartOnly
  <2>2. CASE /\ record' = [record EXCEPT ![t] = None] /\ mishap' = mishap \cup {t}
             /\ UNCHANGED reader
    <3>1. /\ StoreTyped' /\ \A u \in Tenants : record'[u] = IF u = t THEN None ELSE record[u]
      BY <2>1, <2>2, RecordStored
    <3>2. ReadersTyped'
      BY <2>2, StillTyped
    <3>. QED
      BY <2>2, <3>1, <3>2 DEF TypeInv, TypeOK
  <2>3. CASE /\ \E c \in IF record[t] = None THEN {None} ELSE Readable(cred[t]) :
                  reader' = [reader EXCEPT ![r][t] = c]
             /\ UNCHANGED <<record, mishap>>
    <3>1. PICK c : /\ c \in IF record[t] = None THEN {None} ELSE Readable(cred[t])
                   /\ reader' = [reader EXCEPT ![r][t] = c]
      BY <2>3
    <3>2. c \in Credential \cup {None}
      BY <3>1 DEF Readable, TypeInv, TypeOK
    <3>3. ReadersTyped'
      BY <3>1, <3>2, TypeInvIs DEF ReadersTyped
    <3>4. StoreTyped'
      BY <2>1, <2>3, StillTyped
    <3>. QED
      BY <2>3, <3>3, <3>4 DEF TypeInv, TypeOK
  <2>. QED
    BY <2>2, <2>3 DEF StartReopen
<1>5. UNCHANGED <<flight, choice>> /\ StartOnly
  BY DEF StartReopen
<1>6. FlightsTyped' /\ ChoicesTyped'
  BY <1>4, <1>5, StillTyped, TypeInvIs DEF ChoicesTyped
<1>7. TypeInv'
  BY <1>3, <1>4, <1>5, <1>6, StartOnlyType, TypeInvNext
<1>. QED
  BY <1>3, <1>4, <1>5, <1>7

\* What arrives and what a request does keeps the types.
LEMMA ArriveType ==
  ASSUME TypeInv, NEW x \in Tasks, Arrive(x)
  PROVE  TypeInv'
<1>1. PICK r \in Replicas :
        \/ \E demand \in BOOLEAN : \/ \E e \in Emails : AskPoint(x, r, e, demand)
                                   \/ \E g \in Groups : AskGroup(x, r, g, demand)
        \/ \E t \in Tenants : ProbeOne(x, r, t)
        \/ \E t \in Tenants :
             \/ \E new \in ServeChoices : Choose(x, r, t, "served", new)
             \/ \E new \in SyncChoices : Choose(x, r, t, "synced", new)
             \/ Adopt(x, r, t) \/ Disconnect(x, r, t)
  BY DEF Arrive
<1>2. ServeChoices \subseteq ArgsOf("served") /\ SyncChoices \subseteq ArgsOf("synced")
  BY HubAssumption, Places
<1>3. ASSUME NEW demand \in BOOLEAN, NEW e \in Emails, AskPoint(x, r, e, demand) PROVE TypeInv'
  BY <1>3, AskPointDoes
<1>4. ASSUME NEW demand \in BOOLEAN, NEW g \in Groups, AskGroup(x, r, g, demand) PROVE TypeInv'
  BY <1>4, AskGroupDoes
<1>5. ASSUME NEW t \in Tenants,
             ProbeOne(x, r, t) \/ Adopt(x, r, t) \/ Disconnect(x, r, t)
      PROVE  TypeInv'
  BY <1>5, ProbeOneDoes, AdoptDoes, DisconnectDoes
<1>6. ASSUME NEW t \in Tenants,
             NEW kind \in {"served", "synced"}, NEW new \in ArgsOf(kind), Choose(x, r, t, kind, new)
      PROVE  TypeInv'
  BY <1>6, ChooseDoes
<1>. QED
  BY <1>1, <1>2, <1>3, <1>4, <1>5, <1>6

\* No step of a request breaks the types: one case for each.
LEMMA StepType ==
  ASSUME TypeInv, NEW x \in Tasks, Step(x)
  PROVE  TypeInv'
<1>1. CASE \/ Look(x) \/ LiveAccount(x) \/ LiveGroups(x) \/ LiveFails(x) \/ Patch(x)
           \/ EnsureFresh(x) \/ Await(x)
  BY <1>1, LookDoes, LiveAccountDoes, LiveGroupsDoes, LiveFailsDoes, PatchDoes,
     EnsureFreshDoes, AwaitDoes
<1>2. CASE \/ CheckSynced(x) \/ StoreChoice(x) \/ NarrowRead(x) \/ NarrowPut(x)
           \/ ProbeAsk(x) \/ ProbeStore(x)
  BY <1>2, CheckSyncedDoes, StoreChoiceDoes, NarrowReadDoes, NarrowPutDoes, ProbeAskDoes,
     ProbeStoreDoes
<1>3. CASE \/ AdoptSave(x) \/ AdoptExisting(x) \/ AdoptStore(x)
           \/ Revoke(x) \/ DropSnapshot(x) \/ DropCredential(x) \/ DropRecord(x)
           \/ Abandon(x)
  BY <1>3, AdoptSaveDoes, AdoptExistingDoes, AdoptStoreDoes, RevokeDoes, DropSnapshotDoes,
     DropCredentialDoes, DropRecordDoes, AbandonDoes
<1>. QED
  BY <1>1, <1>2, <1>3 DEF Step

\* A step of a full read keeps the types.
LEMMA FlightStepType ==
  ASSUME TypeInv, NEW r \in Replicas, NEW t \in Tenants, FlightStep(r, t)
  PROVE  TypeInv'
BY RefreshDoes, FlightOpenDoes, FlightRecordDoes, FlightAccountsDoes, FlightGroupsDoes,
   FlightPutDoes, FlightFailsDoes DEF FlightStep

\* A step of the environment keeps the types.
LEMMA WorldType ==
  ASSUME TypeInv,
         \/ \E e \in Emails : \/ \E st \in Standing : SetStanding(e, st)
                              \/ \E g \in Groups : SetMember(g, e)
         \/ \E d \in Domains, o \in Tenants : MoveDomain(d, o)
         \/ Tick
  PROVE  TypeInv'
BY SetStandingType, SetMemberType, MoveDomainType, TickType

\* What does not change has its types.
LEMMA StutterType ==
  ASSUME TypeInv, UNCHANGED vars
  PROVE  TypeInv'
<1>1. EnvTyped'
  BY TypeInvIs DEF vars, world, history, EnvTyped, StartsTyped
<1>. QED
  BY <1>1, HubStill DEF vars, hub, requests, history

\* Every step keeps the types.
LEMMA TypeStep ==
  ASSUME TypeInv, [Next]_vars
  PROVE  TypeInv'
<1>1. CASE Next
  BY <1>1, ArriveType, StepType, RestartDoes, StartAdoptDoes, StartStoreDoes, StartReopenDoes,
     FlightStepType, WorldType DEF Next
<1>2. CASE UNCHANGED vars
  BY <1>2, StutterType
<1>. QED
  BY <1>1, <1>2

\* At the start, every tenant has a record and a snapshot of what it holds.
LEMMA InitDoes ==
  ASSUME Init
  PROVE  /\ EnvTyped
         /\ \A t \in Tenants :
              /\ record[t] \in Record /\ record[t].probed = 0
              /\ record[t].domains \subseteq Owned(t)
              /\ record[t].serve = {}
              /\ choice[t] = [serve |-> {}, sync |-> record[t].sync]
         /\ \A t \in Tenants : \E all \in Snapshot :
              /\ all.at = now /\ all.kept = GroupsAt(t) /\ all.made = {}
              /\ all.discovered = GroupsAt(t)
              /\ \A e \in Emails : all.accounts[e] = AccountAt(t, e)
              /\ \A g \in GroupsAt(t) : all.members[g] = members[g]
              /\ snapshot[t] = restrict(all, {}, record[t].sync)
              /\ snapshot[t] \in Snapshot
<1>1. PICK sync \in FirstSyncs, cold \in FirstCold :
       /\ record = [t \in Tenants |->
            Connected(t, TRUE, {}, IF t \in Declared THEN {} ELSE sync, t \in Declared)]
       /\ cred = [t \in Tenants |-> IF t \in Declared THEN None ELSE "first"]
       /\ reader = [r \in Replicas |-> [t \in Tenants |->
            IF t \notin Declared /\ r \in cold THEN None ELSE "first"]]
  BY DEF Init
<1>2. sync \subseteq Groups
  BY <1>1, HubAssumption
<1>3. EnvTyped
  <2>1. now \in Time /\ events \in 0 .. MaxEvents /\ refreshes \in 0 .. MaxRefreshes
    BY HubAssumption DEF Init, Time
  <2>2. standing \in [Emails -> Standing] /\ owner \in [Domains -> Tenants]
    BY HubAssumption DEF Init, Standing
  <2>3. members \in [Groups -> SUBSET Emails]
    BY HubAssumption DEF Init
  <2>4. /\ last \in [Emails -> [Standing -> Time \cup {Before}]]
        /\ moved \in [Domains -> Time \cup {Before}]
        /\ steady \subseteq Groups \X Emails
    BY DEF Init
  <2>5. StartsTyped
    BY DEF Init, StartsTyped, StartPlaced, Starting, Up
  <2>. QED
    BY <2>1, <2>2, <2>3, <2>4, <2>5 DEF EnvTyped
<1>4. now \in Time /\ now = 0
  BY <1>3 DEF EnvTyped, Init
<1>5. ASSUME NEW t \in Tenants
      PROVE  /\ record[t] \in Record /\ record[t].probed = 0
             /\ record[t].domains \subseteq Owned(t)
             /\ record[t].serve = {} /\ record[t].sync \subseteq Groups
  <2>1. PICK s : s = IF t \in Declared THEN {} ELSE sync
    OBVIOUS
  <2>2. s \subseteq Groups
    BY <1>2, <2>1
  <2>3. Owned(t) \subseteq Domains
    BY DEF Owned
  <2>4. record[t] = Connected(t, TRUE, {}, s, t \in Declared)
    BY <1>1, <2>1
  <2>5. CASE t \in Declared
    BY <1>4, <2>2, <2>3, <2>4, <2>5 DEF Connected, Record
  <2>6. CASE t \notin Declared
    BY <1>4, <2>2, <2>3, <2>4, <2>6 DEF Connected, Record
  <2>. QED
    BY <2>5, <2>6
<1>6. ASSUME NEW t \in Tenants
      PROVE  \E all \in Snapshot :
              /\ all.at = now /\ all.kept = GroupsAt(t) /\ all.made = {}
              /\ all.discovered = GroupsAt(t)
              /\ \A e \in Emails : all.accounts[e] = AccountAt(t, e)
              /\ \A g \in GroupsAt(t) : all.members[g] = members[g]
              /\ snapshot[t] = restrict(all, {}, record[t].sync)
              /\ snapshot[t] \in Snapshot
  <2>1. PICK accounts : accounts = [e \in Emails |-> AccountAt(t, e)]
    OBVIOUS
  <2>2. /\ accounts \in [Emails -> Standing]
        /\ \A e \in Emails : accounts[e] = AccountAt(t, e)
    BY <1>3, <2>1 DEF AccountAt, EnvTyped, Standing
  <2>3. PICK all : all = NewSnapshot(0, accounts, GroupsAt(t), members, GroupsAt(t), {})
    OBVIOUS
  <2>4. GroupsAt(t) \subseteq Groups /\ members \in [Groups -> SUBSET Emails]
    BY <1>3 DEF GroupsAt, EnvTyped
  <2>5. /\ all \in Snapshot /\ all.at = 0 /\ all.accounts = accounts
        /\ all.kept = GroupsAt(t) /\ all.made = {} /\ all.discovered = GroupsAt(t)
        /\ \A g \in GroupsAt(t) : all.members[g] = members[g]
    BY <1>4, <2>2, <2>3, <2>4 DEF NewSnapshot, Snapshot
  <2>6. snapshot[t] = restrict(all, {}, record[t].sync)
    BY <2>1, <2>3 DEF Init
  <2>7. snapshot[t] \in Snapshot
    <3>1. PICK serve : serve = {}
      OBVIOUS
    <3>2. serve \subseteq Domains /\ record[t].sync \subseteq Groups
      BY <1>5, <3>1
    <3>3. snapshot[t] = restrict(all, serve, record[t].sync)
      BY <2>6, <3>1
    <3>. QED
      BY <2>5, <3>2, <3>3, RestrictType
  <2>. QED
    BY <1>4, <2>2, <2>5, <2>6, <2>7
<1>7. \A t \in Tenants : choice[t] = [serve |-> {}, sync |-> record[t].sync]
  BY DEF Init
<1>. QED
  BY <1>3, <1>5, <1>6, <1>7

\* The types hold at the start.
LEMMA TypeInit ==
  ASSUME Init
  PROVE  TypeInv
<1>1. EnvTyped
  BY InitDoes
<1>2. StoreTyped
  <2>1. record \in [Tenants -> Record \cup {None}]
    <3>1. record = [t \in Tenants |-> record[t]]
      BY DEF Init
    <3>. QED
      BY <3>1, InitDoes
  <2>2. snapshot \in [Tenants -> Snapshot \cup {None}]
    <3>1. snapshot = [t \in Tenants |-> snapshot[t]]
      BY DEF Init
    <3>2. \A t \in Tenants : snapshot[t] \in Snapshot
      BY InitDoes
    <3>. QED
      BY <3>1, <3>2
  <2>3. revoked \subseteq Credential /\ cred \in [Tenants -> Credential \cup {None}]
    BY DEF Init, Credential
  <2>. QED
    BY <2>1, <2>2, <2>3 DEF StoreTyped
<1>3. ReadersTyped
  BY DEF Init, ReadersTyped, Credential
<1>4. FlightsTyped
  BY IdleType DEF Init, FlightsTyped
<1>5. TasksTyped
  BY NoneType DEF Init, TasksTyped, Active, Pc
<1>6. ChoicesTyped
  <2>1. ASSUME NEW t \in Tenants PROVE choice[t] \in Choices
    <3>1. choice[t] = [serve |-> {}, sync |-> record[t].sync] /\ record[t] \in Record
      BY InitDoes
    <3>2. record[t].sync \subseteq Groups
      BY <3>1, RecordFields
    <3>. QED
      BY <3>1, <3>2 DEF Choices
  <2>2. choice = [t \in Tenants |-> choice[t]] /\ mishap = {}
    BY DEF Init
  <2>. QED
    BY <2>1, <2>2 DEF ChoicesTyped
<1>. QED
  BY <1>1, <1>2, <1>3, <1>4, <1>5, <1>6, TypeInvIs

\* Every variable holds a value of its type.
THEOREM TypeCorrect == Spec => []TypeOK
<1>1. Init => TypeInv
  BY TypeInit
<1>2. TypeInv /\ [Next]_vars => TypeInv'
  BY TypeStep
<1>3. TypeInv => TypeOK
  BY DEF TypeInv
<1>. QED
  BY <1>1, <1>2, <1>3, PTL DEF Spec

-----------------------------------------------------------------------------
(* What was true stays true.                                               *)

\* What the present moment says.
LEMMA MomentIs ==
  /\ Moment.now = now /\ Moment.standing = standing /\ Moment.owner = owner
  /\ Moment.members = members /\ Moment.last = last /\ Moment.moved = moved
  /\ Moment.steady = steady
BY DEF Moment

\* And its type.
LEMMA MomentType == ASSUME TypeInv PROVE Moment \in Moments
BY DEF TypeInv, TypeOK, Moment, Moments

\* A later moment: what held still held then, what changed hands has, and who has been
\* in a group all along had been before.
Later(w, v) ==
  /\ w.now <= v.now
  /\ \A e \in Emails, st \in Standing, since \in Int :
       since <= w.now /\ HeldAt(w, e, st, since) => HeldAt(v, e, st, since)
  /\ \A d \in Domains, t \in Tenants : Hers(w, d, t) => Hers(v, d, t)
  /\ \A d \in Domains, since \in Int :
       since <= w.now /\ w.moved[d] >= since => v.moved[d] >= since
  /\ \A d \in Domains, t \in Tenants, since \in Int :
       since <= w.now /\ w.owner[d] = t => v.owner[d] = t \/ v.moved[d] >= since
  /\ \A g \in Groups, e \in Emails : Always(v, g, e) => Always(w, g, e)

\* What a record says stays true: domains are never taken from who had them in silence.
LEMMA LaterRecord ==
  ASSUME NEW w \in Moments, NEW v \in Moments, Later(w, v), NEW ws \in Record, NEW t \in Tenants,
         RecordTrue(w, ws, t)
  PROVE  RecordTrue(v, ws, t)
<1>1. ws.probed \in Time /\ ws.domains \subseteq Domains /\ w.now \in Time /\ v.now \in Time
  BY RecordFields DEF Moments
<1>2. ws.probed \in Int /\ w.now \in Int /\ v.now \in Int
  BY <1>1, TimeIs
<1>3. ws.probed <= v.now /\ ws.probed <= w.now
  BY <1>2 DEF RecordTrue, Later
<1>4. ASSUME NEW d \in ws.domains
      PROVE  Hers(v, d, t) /\ (ws.ok => v.owner[d] = t \/ v.moved[d] >= ws.probed)
  BY <1>1, <1>2, <1>3 DEF RecordTrue, Later
<1>. QED
  BY <1>3, <1>4 DEF RecordTrue

\* What a snapshot says stays true: its accounts were so when it was read.
LEMMA LaterSnapshot ==
  ASSUME NEW w \in Moments, NEW v \in Moments, Later(w, v), NEW s \in Snapshot, NEW t \in Tenants,
         SnapshotTrue(w, s, t)
  PROVE  SnapshotTrue(v, s, t)
<1>1. /\ s.at \in Time /\ s.accounts \in [Emails -> Standing] /\ s.kept \subseteq Groups
      /\ w.now \in Time /\ v.now \in Time
  BY SnapshotFields DEF Moments
<1>2. s.at \in Int /\ w.now \in Int /\ v.now \in Int /\ s.at - ReadTime \in Int /\ ReadTime \in Nat
  BY <1>1, TimeIs
<1>3. s.at <= v.now /\ s.at - ReadTime <= w.now
  BY <1>2 DEF SnapshotTrue, Later
<1>4. ASSUME NEW e \in Emails, s.accounts[e] # "none"
      PROVE  HeldAt(v, e, s.accounts[e], s.at - ReadTime)
  BY <1>1, <1>2, <1>3, <1>4 DEF SnapshotTrue, Later
<1>5. ASSUME NEW g \in s.kept PROVE Hers(v, Home[g], t)
  BY <1>1, Constants DEF SnapshotTrue, Later
<1>6. ASSUME NEW g \in s.kept \ s.made, NEW e \in Emails, Always(v, g, e)
      PROVE  e \in s.members[g]
  BY <1>1, <1>6 DEF SnapshotTrue, Later
<1>7. ASSUME NEW g \in GroupsIn(s) \cap Emails PROVE HeldAt(v, g, "none", s.at)
  BY <1>2 DEF SnapshotTrue, Later, Standing
<1>. QED
  BY <1>3, <1>4, <1>5, <1>6, <1>7 DEF SnapshotTrue

\* What a full read has heard stays true, while its deadline has not passed.
LEMMA LaterFlight ==
  ASSUME NEW w \in Moments, NEW v \in Moments, Later(w, v), NEW f \in Flight, FlightPlaced(f),
         NEW t \in Tenants, FlightTrue(w, f, t), f.pc = "groups" => v.now - f.began <= ReadTime
  PROVE  FlightTrue(v, f, t)
<1>1. CASE f.pc = "groups"
  <2>1. f.began \in Time /\ f.accounts \in [Emails -> Standing] /\ w.now \in Time /\ v.now \in Time
    BY <1>1 DEF FlightPlaced, Moments
  <2>2. f.began \in Int /\ w.now \in Int /\ v.now \in Int
    BY <2>1, TimeIs
  <2>3. f.began <= w.now /\ f.began <= v.now
    BY <1>1, <2>2 DEF FlightTrue, Later
  <2>4. ASSUME NEW e \in Emails, f.accounts[e] # "none" PROVE HeldAt(v, e, f.accounts[e], f.began)
    BY <1>1, <2>1, <2>2, <2>3, <2>4 DEF FlightTrue, Later
  <2>. QED
    BY <1>1, <2>3, <2>4 DEF FlightTrue
<1>2. CASE f.pc = "put"
  BY <1>2, LaterSnapshot DEF FlightTrue, FlightPlaced
<1>. QED
  BY <1>1, <1>2 DEF FlightTrue

\* What a request has heard stays true while it waits for its next step.
LEMMA LaterRequest ==
  ASSUME NEW w \in Moments, NEW v \in Moments, Later(w, v), NEW p, NEW j \in Job, NEW m \in Mem,
         Placed(p, j, m), RequestTrue(w, p, j, m)
  PROVE  RequestTrue(v, p, j, m)
<1>1. /\ m.asked \in Time /\ w.now \in Time /\ v.now \in Time /\ j.t \in Tenants
      /\ m.standing \in Standing /\ m.groups \subseteq Groups /\ m.snap \in Snapshot \cup {None}
      /\ j.kind # "disconnect" => m.ws \in Record
      /\ j.kind = "point" => j.arg \in Emails
  BY Places DEF Placed, Mem, Moments
<1>2. m.asked \in Int /\ w.now \in Int /\ v.now \in Int
  BY <1>1, TimeIs
<1>3. m.asked <= w.now /\ m.asked <= v.now
  BY <1>2 DEF RequestTrue, Later
<1>4. j.kind # "disconnect" => RecordTrue(v, m.ws, j.t)
  BY <1>1, LaterRecord DEF RequestTrue
<1>5. m.snap # None => SnapshotTrue(v, m.snap, j.t)
  BY <1>1, LaterSnapshot DEF RequestTrue
<1>6. \A g \in m.groups : Hers(v, Home[g], j.t)
  BY <1>1, Constants DEF RequestTrue, Later
<1>7. ASSUME p \in {"memberships", "patch"} PROVE j.kind = "point"
  BY <1>7, Places DEF Placed, Kinds
<1>8. ASSUME p \in {"memberships", "patch"} PROVE LiveTrue(v, m, j.arg)
  <2>1. j.arg \in Emails /\ LiveTrue(w, m, j.arg)
    BY <1>1, <1>7, <1>8 DEF RequestTrue
  <2>2. m.standing # "none" => HeldAt(v, j.arg, m.standing, m.asked)
    BY <1>1, <1>2, <1>3, <2>1 DEF LiveTrue, Later
  <2>3. ASSUME m.standing # "none", m.snap # None
        PROVE  HeldAt(v, j.arg, m.standing, m.snap.at - ReadTime)
    <3>1. m.snap.at \in Time /\ m.snap.at <= w.now
      BY <1>1, <2>3, SnapshotFields DEF RequestTrue, SnapshotTrue
    <3>2. m.snap.at - ReadTime \in Int /\ m.snap.at - ReadTime <= w.now
      BY <1>2, <3>1, TimeIs
    <3>. QED
      BY <1>1, <2>1, <2>3, <3>2 DEF LiveTrue, Later
  <2>4. \A g \in Groups : Always(v, g, j.arg) => m.standing # "none"
    BY <2>1 DEF LiveTrue, Later
  <2>. QED
    BY <2>2, <2>3, <2>4 DEF LiveTrue
<1>9. ASSUME p = "patch" PROVE PatchTrue(v, m, j.arg)
  <2>1. j.arg \in Emails /\ PatchTrue(w, m, j.arg) /\ m.ws \in Record /\ RecordTrue(w, m.ws, j.t)
    BY <1>1, <1>7, <1>9 DEF RequestTrue
  <2>2. HeldAt(w, j.arg, "none", m.asked) => HeldAt(v, j.arg, "none", m.asked)
    BY <1>2, <1>3, <2>1 DEF Later, Standing
  <2>3. w.moved[Home[j.arg]] >= m.ws.probed => v.moved[Home[j.arg]] >= m.ws.probed
    <3>1. m.ws.probed \in Time /\ m.ws.probed <= w.now
      BY <2>1, RecordFields DEF RecordTrue
    <3>2. m.ws.probed \in Int /\ Home[j.arg] \in Domains
      BY <2>1, <3>1, Constants, TimeIs
    <3>. QED
      BY <3>1, <3>2 DEF Later
  <2>4. ASSUME m.snap # None, NEW g \in m.snap.kept, Always(v, g, j.arg) PROVE g \in m.groups
    <3>1. g \in Groups
      BY <1>1, <2>4, SnapshotFields
    <3>. QED
      BY <2>1, <2>4, <3>1 DEF PatchTrue, Later
  <2>5. ASSUME m.snap # None, m.standing # "none", NEW g \in m.groups \cap Emails
        PROVE  HeldAt(v, g, "none", m.snap.at)
    <3>1. m.snap.at \in Time /\ m.snap.at <= w.now
      BY <1>1, <2>5, SnapshotFields DEF RequestTrue, SnapshotTrue
    <3>2. HeldAt(w, g, "none", m.snap.at) /\ m.snap.at \in Int
      BY <2>1, <2>5, <3>1, TimeIs DEF PatchTrue
    <3>. QED
      BY <3>1, <3>2 DEF Later, Standing
  <2>. QED
    BY <2>1, <2>2, <2>3, <2>4, <2>5 DEF PatchTrue
<1>. QED
  BY <1>3, <1>4, <1>5, <1>6, <1>8, <1>9 DEF RequestTrue

\* Everything known stays known at a later moment, when nothing else changes.
LEMMA LaterTruth ==
  ASSUME TypeInv, TypeInv', TruthInv, UNCHANGED hub, Later(Moment, Moment'), Dated(Moment'),
         \A r \in Replicas, t \in Tenants :
           flight[r][t].pc = "groups" => now' - flight[r][t].began <= ReadTime
  PROVE  TruthInv'
<1>1. PICK w : w = Moment
  OBVIOUS
<1>2. PICK v : v = Moment'
  OBVIOUS
<1>3. w \in Moments /\ v \in Moments /\ Later(w, v) /\ v.now = now'
  BY <1>1, <1>2, MomentType, MomentIs DEF TypeInv, TypeOK, Moment, Moments
<1>4. ASSUME NEW t \in Tenants
      PROVE  /\ record'[t] # None => RecordTrue(v, record'[t], t)
             /\ snapshot'[t] # None => SnapshotTrue(v, snapshot'[t], t)
  <2>1. /\ record'[t] = record[t] /\ snapshot'[t] = snapshot[t]
        /\ record[t] \in Record \cup {None} /\ snapshot[t] \in Snapshot \cup {None}
    BY DEF hub, TypeInv, TypeOK
  <2>2. /\ record[t] # None => RecordTrue(w, record[t], t)
        /\ snapshot[t] # None => SnapshotTrue(w, snapshot[t], t)
    BY <1>1 DEF TruthInv
  <2>. QED
    BY <1>3, <2>1, <2>2, LaterRecord, LaterSnapshot
<1>5. ASSUME NEW r \in Replicas, NEW t \in Tenants PROVE FlightTrue(v, flight'[r][t], t)
  <2>1. flight' = flight
    BY DEF hub
  <2>2. FlightTrue(w, flight[r][t], t)
    BY <1>1 DEF TruthInv
  <2>. QED
    BY <1>3, <2>1, <2>2, FlightTyped, LaterFlight
<1>6. ASSUME NEW x \in Tasks, Active(x)' PROVE RequestTrue(v, pc'[x], job'[x], mem'[x])
  <2>1. pc' = pc /\ job' = job /\ mem' = mem
    BY DEF hub, requests
  <2>2. Active(x)
    BY <1>6, <2>1 DEF Active
  <2>3. RequestTrue(w, pc[x], job[x], mem[x])
    BY <1>1, <2>2 DEF TruthInv
  <2>. QED
    BY <1>3, <2>1, <2>2, <2>3, ActivePlaced, LaterRequest
<1>7. ASSUME NEW r \in Replicas, start'[r].t # None
      PROVE  RecordTrue(v, start'[r].ws, start'[r].t)
  <2>1. start' = start
    BY DEF hub
  <2>2. start[r].t \in Tenants /\ start[r].ws \in Record /\ RecordTrue(w, start[r].ws, start[r].t)
    BY <1>1, <1>7, <2>1 DEF TruthInv, TypeInv, TypeOK, Shape, StartPlaced, Starting
  <2>. QED
    BY <1>3, <2>1, <2>2, LaterRecord
<1>. QED
  BY <1>2, <1>4, <1>5, <1>6, <1>7 DEF TruthInv

\* The next moment.
LEMMA MomentNext ==
  /\ Moment'.now = now' /\ Moment'.standing = standing' /\ Moment'.owner = owner'
  /\ Moment'.members = members' /\ Moment'.last = last' /\ Moment'.moved = moved'
  /\ Moment'.steady = steady'
BY DEF Moment

\* The times of now.
LEMMA NowIs ==
  ASSUME TypeInv
  PROVE  /\ now \in Time /\ now \in Int /\ now >= 0
         /\ \A e \in Emails, st \in Standing : last[e][st] \in Int
         /\ \A d \in Domains : moved[d] \in Int
<1>1. now \in Time /\ \A d \in Domains : moved[d] \in Time \cup {Before}
  BY DEF TypeInv, TypeOK
<1>2. ASSUME NEW e \in Emails, NEW st \in Standing PROVE last[e][st] \in Time \cup {Before}
  BY DEF TypeInv, TypeOK
<1>. QED
  BY <1>1, <1>2, TimeIs

\* A full read that lists its groups began no longer than ReadTime ago.
LEMMA FlightsInTime ==
  ASSUME TypeInv, TruthInv
  PROVE  \A r \in Replicas, t \in Tenants :
           flight[r][t].pc = "groups" => now - flight[r][t].began <= ReadTime
BY MomentIs DEF TruthInv, FlightTrue

\* What Dated says of the present.
LEMMA DatedNow ==
  ASSUME TruthInv
  PROVE  /\ \A e \in Emails, st \in Standing : last[e][st] <= now
         /\ \A d \in Domains : moved[d] <= now
         /\ \A g \in Groups, e \in Emails :
              <<g, e>> \in steady =>
                e \in members[g] /\ standing[e] # "none" /\ Named(g)
BY MomentIs DEF TruthInv, Dated, Named

\* An account changes: what it was, it was until now.
LEMMA SetStandingTruth ==
  ASSUME TypeInv, TypeInv', TruthInv, NEW e0 \in Emails, NEW st0 \in Standing, SetStanding(e0, st0)
  PROVE  TruthInv'
<1>1. /\ standing \in [Emails -> Standing] /\ last \in [Emails -> [Standing -> Time \cup {Before}]]
      /\ members \in [Groups -> SUBSET Emails] /\ standing[e0] \in Standing
  BY DEF TypeInv, TypeOK
<1>2. /\ now' = now /\ owner' = owner /\ moved' = moved /\ UNCHANGED hub
      /\ standing' = [standing EXCEPT ![e0] = st0]
      /\ last' = [last EXCEPT ![e0][standing[e0]] = now]
  BY DEF SetStanding
<1>3. /\ \A e \in Emails : standing'[e] = IF e = e0 THEN st0 ELSE standing[e]
      /\ \A e \in Emails, st \in Standing :
           last'[e][st] = IF e = e0 /\ st = standing[e0] THEN now ELSE last[e][st]
  BY <1>1, <1>2
<1>4. /\ steady' \subseteq steady
      /\ \A g \in Groups, e \in Emails :
           <<g, e>> \in steady' => g # e0 /\ (st0 # "none" \/ e # e0)
      /\ \A g \in Groups, e \in Emails :
           e \in members[g] /\ g # e0 /\ (st0 # "none" \/ e # e0) => e \in members'[g]
  <2>1. PICK left : left = IF st0 = "none" THEN {e0} ELSE {}
    OBVIOUS
  <2>2. /\ members' = [g \in Groups |-> IF g = e0 THEN {} ELSE members[g] \ left]
        /\ steady' = {m \in steady : m[1] # e0 /\ m[2] \notin left}
    BY <2>1 DEF SetStanding
  <2>3. steady' \subseteq steady
    BY <2>2
  <2>4. ASSUME NEW g \in Groups, NEW e \in Emails, <<g, e>> \in steady'
        PROVE  g # e0 /\ (st0 # "none" \/ e # e0)
    <3>1. <<g, e>>[1] # e0 /\ <<g, e>>[2] \notin left
      BY <2>2, <2>4
    <3>. QED
      BY <2>1, <3>1
  <2>5. \A g \in Groups, e \in Emails :
          e \in members[g] /\ g # e0 /\ (st0 # "none" \/ e # e0) => e \in members'[g]
    BY <2>1, <2>2
  <2>. QED
    BY <2>3, <2>4, <2>5
<1>5. Later(Moment, Moment')
  <2>1. ASSUME NEW e \in Emails, NEW st \in Standing, NEW since \in Int,
               since <= now, standing[e] = st \/ last[e][st] >= since
        PROVE  standing'[e] = st \/ last'[e][st] >= since
    BY <1>3, <2>1, NowIs
  <2>2. \A g \in Groups, e \in Emails : Always(Moment', g, e) => Always(Moment, g, e)
    BY <1>2, <1>4, MomentIs, MomentNext DEF Always
  <2>3. \A d \in Domains, t \in Tenants : Hers(Moment, d, t) => Hers(Moment', d, t)
    BY <1>2, MomentIs, MomentNext DEF Hers
  <2>4. \A e \in Emails, st \in Standing, since \in Int :
          since <= now /\ HeldAt(Moment, e, st, since) => HeldAt(Moment', e, st, since)
    BY <2>1, MomentIs, MomentNext DEF HeldAt
  <2>. QED
    BY <1>2, <2>2, <2>3, <2>4, MomentIs, MomentNext, NowIs DEF Later
<1>6. Dated(Moment')
  <2>1. \A e \in Emails, st \in Standing : last'[e][st] <= now'
    BY <1>2, <1>3, DatedNow, NowIs
  <2>2. \A d \in Domains : moved'[d] <= now'
    BY <1>2, DatedNow
  <2>3. ASSUME NEW g \in Groups, NEW e \in Emails, <<g, e>> \in steady'
        PROVE  /\ e \in members'[g] /\ standing'[e] # "none"
               /\ g \in Emails => standing'[g] = "none"
    BY <1>3, <1>4, <2>3, DatedNow DEF Named
  <2>. QED
    BY <2>1, <2>2, <2>3, MomentNext DEF Dated
<1>. QED
  BY <1>2, <1>5, <1>6, FlightsInTime, LaterTruth

\* A domain changes hands: it has from now on.
LEMMA MoveDomainTruth ==
  ASSUME TypeInv, TypeInv', TruthInv, NEW d0 \in Domains, NEW o \in Tenants, MoveDomain(d0, o)
  PROVE  TruthInv'
<1>1. /\ now' = now /\ standing' = standing /\ last' = last /\ members' = members
      /\ steady' = steady /\ UNCHANGED hub
  BY DEF MoveDomain
<1>2. /\ \A d \in Domains : owner'[d] = IF d = d0 THEN o ELSE owner[d]
      /\ \A d \in Domains : moved'[d] = IF d = d0 THEN now ELSE moved[d]
  BY DEF MoveDomain, TypeInv, TypeOK
<1>3. now # Before
  BY NowIs, TimeIs
<1>4. Later(Moment, Moment')
  <2>1. \A d \in Domains, t \in Tenants : Hers(Moment, d, t) => Hers(Moment', d, t)
    BY <1>2, <1>3, MomentIs, MomentNext DEF Hers
  <2>2. \A d \in Domains, since \in Int :
          since <= now /\ moved[d] >= since => moved'[d] >= since
    BY <1>2, NowIs
  <2>3. \A d \in Domains, t \in Tenants, since \in Int :
          since <= now /\ owner[d] = t => owner'[d] = t \/ moved'[d] >= since
    BY <1>2, NowIs
  <2>4. \A g \in Groups, e \in Emails : Always(Moment', g, e) => Always(Moment, g, e)
    BY <1>1, <1>2, <1>3, MomentIs, MomentNext, Constants DEF Always
  <2>5. \A e \in Emails, st \in Standing, since \in Int :
          HeldAt(Moment, e, st, since) => HeldAt(Moment', e, st, since)
    BY <1>1, MomentIs, MomentNext DEF HeldAt
  <2>. QED
    BY <1>1, <2>1, <2>2, <2>3, <2>4, <2>5, MomentIs, MomentNext, NowIs DEF Later
<1>5. Dated(Moment')
  <2>1. \A d \in Domains : moved'[d] <= now'
    BY <1>1, <1>2, DatedNow, NowIs
  <2>. QED
    BY <1>1, <2>1, DatedNow, MomentNext DEF Dated, Named
<1>. QED
  BY <1>1, <1>4, <1>5, FlightsInTime, LaterTruth

\* Somebody joins or leaves a group, and has not been in it all along.
LEMMA SetMemberTruth ==
  ASSUME TypeInv, TypeInv', TruthInv, NEW g0 \in Groups, NEW e0 \in Emails, SetMember(g0, e0)
  PROVE  TruthInv'
<1>1. /\ now' = now /\ standing' = standing /\ last' = last /\ owner' = owner
      /\ moved' = moved /\ UNCHANGED hub
  BY DEF SetMember
<1>2. /\ \A g \in Groups, e \in Emails :
           g # g0 \/ e # e0 => (e \in members'[g] <=> e \in members[g])
      /\ steady' = steady \ {<<g0, e0>>}
  BY DEF SetMember, TypeInv, TypeOK
<1>3. Later(Moment, Moment')
  <2>1. \A d \in Domains, t \in Tenants : Hers(Moment, d, t) => Hers(Moment', d, t)
    BY <1>1, MomentIs, MomentNext DEF Hers
  <2>2. \A g \in Groups, e \in Emails : Always(Moment', g, e) => Always(Moment, g, e)
    BY <1>1, <1>2, MomentIs, MomentNext DEF Always
  <2>3. \A e \in Emails, st \in Standing, since \in Int :
          HeldAt(Moment, e, st, since) => HeldAt(Moment', e, st, since)
    BY <1>1, MomentIs, MomentNext DEF HeldAt
  <2>. QED
    BY <1>1, <2>1, <2>2, <2>3, MomentIs, MomentNext, NowIs DEF Later
<1>4. Dated(Moment')
  <2>1. ASSUME NEW g \in Groups, NEW e \in Emails, <<g, e>> \in steady'
        PROVE  /\ e \in members'[g] /\ standing'[e] # "none"
               /\ g \in Emails => standing'[g] = "none"
    <3>1. <<g, e>> \in steady /\ (g # g0 \/ e # e0)
      BY <1>2, <2>1
    <3>. QED
      BY <1>1, <1>2, <3>1, DatedNow DEF Named
  <2>. QED
    BY <1>1, <2>1, DatedNow, MomentNext DEF Dated
<1>. QED
  BY <1>1, <1>3, <1>4, FlightsInTime, LaterTruth

\* Time passes, within what a full read may take.
LEMMA TickTruth ==
  ASSUME TypeInv, TypeInv', TruthInv, Tick
  PROVE  TruthInv'
<1>1. /\ now' = now + 1 /\ UNCHANGED hub /\ standing' = standing /\ owner' = owner
      /\ members' = members /\ last' = last /\ moved' = moved /\ steady' = steady
  BY DEF Tick, world, history
<1>2. Later(Moment, Moment')
  <2>1. \A d \in Domains, t \in Tenants : Hers(Moment, d, t) => Hers(Moment', d, t)
    BY <1>1, MomentIs, MomentNext DEF Hers
  <2>2. \A g \in Groups, e \in Emails : Always(Moment', g, e) => Always(Moment, g, e)
    BY <1>1, MomentIs, MomentNext DEF Always
  <2>3. \A e \in Emails, st \in Standing, since \in Int :
          HeldAt(Moment, e, st, since) => HeldAt(Moment', e, st, since)
    BY <1>1, MomentIs, MomentNext DEF HeldAt
  <2>. QED
    BY <1>1, <2>1, <2>2, <2>3, MomentIs, MomentNext, NowIs DEF Later
<1>3. Dated(Moment')
  <2>1. \A e \in Emails, st \in Standing : last'[e][st] <= now'
    BY <1>1, DatedNow, NowIs
  <2>2. \A d \in Domains : moved'[d] <= now'
    BY <1>1, DatedNow, NowIs
  <2>. QED
    BY <1>1, <2>1, <2>2, DatedNow, MomentNext DEF Dated, Named
<1>4. ASSUME NEW r \in Replicas, NEW t \in Tenants, flight[r][t].pc = "groups"
      PROVE  now' - flight[r][t].began <= ReadTime
  <2>1. flight[r][t].began \in Time
    BY <1>4, FlightTyped DEF FlightPlaced
  <2>2. now - flight[r][t].began < ReadTime
    BY <1>4 DEF Tick
  <2>. QED
    BY <1>1, <2>1, <2>2, NowIs, TimeIs
<1>. QED
  BY <1>1, <1>2, <1>3, <1>4, LaterTruth

-----------------------------------------------------------------------------
(* What the hub does rests on what is true.                                *)

\* A step of the hub: the directories and their history are as they were.  Most steps are
\* no starting process's.
Apart == UNCHANGED <<now, standing, owner, members, last, moved, steady>>
Inside == Apart /\ UNCHANGED start

\* What is in the store, in the full reads and in the requests' hands after a step is
\* true, or was there before.
RecordsTrue ==
  \A t \in Tenants : \/ record'[t] = record[t] \/ record'[t] = None
                     \/ RecordTrue(Moment, record'[t], t)
SnapshotsTrue ==
  \A t \in Tenants : \/ snapshot'[t] = snapshot[t] \/ snapshot'[t] = None
                     \/ SnapshotTrue(Moment, snapshot'[t], t)
FlightsTrue ==
  \A r \in Replicas, t \in Tenants :
    \/ flight'[r][t] = flight[r][t] \/ flight'[r][t].pc \notin {"groups", "put"}
    \/ FlightTrue(Moment, flight'[r][t], t)
RequestsTrue ==
  \A x \in Tasks : \/ pc'[x] = pc[x] /\ job'[x] = job[x] /\ mem'[x] = mem[x]
                   \/ pc'[x] = "done"
                   \/ RequestTrue(Moment, pc'[x], job'[x], mem'[x])

StartsTrue ==
  \A r \in Replicas : \/ start'[r] = start[r] \/ start'[r].t = None
                      \/ RecordTrue(Moment, start'[r].ws, start'[r].t)

\* Then all is true.
LEMMA ApartTruth ==
  ASSUME TypeInv, TruthInv, Apart, RecordsTrue, SnapshotsTrue, FlightsTrue, RequestsTrue,
         StartsTrue
  PROVE  TruthInv'
<1>1. Moment' = Moment
  BY DEF Apart, Moment
<1>2. ASSUME NEW t \in Tenants
      PROVE  /\ record'[t] # None => RecordTrue(Moment, record'[t], t)
             /\ snapshot'[t] # None => SnapshotTrue(Moment, snapshot'[t], t)
  BY DEF TruthInv, RecordsTrue, SnapshotsTrue
<1>3. ASSUME NEW r \in Replicas, NEW t \in Tenants PROVE FlightTrue(Moment, flight'[r][t], t)
  <2>1. CASE flight'[r][t] = flight[r][t]
    BY <2>1 DEF TruthInv
  <2>2. CASE flight'[r][t].pc \notin {"groups", "put"}
    BY <2>2 DEF FlightTrue
  <2>. QED
    BY <2>1, <2>2 DEF FlightsTrue
<1>4. ASSUME NEW x \in Tasks, Active(x)' PROVE RequestTrue(Moment, pc'[x], job'[x], mem'[x])
  <2>1. pc'[x] # "done"
    BY <1>4 DEF Active
  <2>2. CASE pc'[x] = pc[x] /\ job'[x] = job[x] /\ mem'[x] = mem[x]
    <3>1. Active(x)
      BY <1>4, <2>2 DEF Active
    <3>. QED
      BY <2>2, <3>1 DEF TruthInv
  <2>. QED
    BY <2>1, <2>2 DEF RequestsTrue
<1>5. Dated(Moment)
  BY DEF TruthInv
<1>6. ASSUME NEW r \in Replicas, start'[r].t # None
      PROVE  RecordTrue(Moment, start'[r].ws, start'[r].t)
  BY <1>6 DEF TruthInv, StartsTrue
<1>. QED
  BY <1>1, <1>2, <1>3, <1>4, <1>5, <1>6 DEF TruthInv

\* The same where no process starts.
LEMMA InsideTruth ==
  ASSUME TypeInv, TruthInv, Inside, RecordsTrue, SnapshotsTrue, FlightsTrue, RequestsTrue
  PROVE  TruthInv'
<1>1. StartsTrue
  BY DEF Inside, StartsTrue
<1>. QED
  BY <1>1, ApartTruth DEF Inside

\* The steps of requests are inside.
LEMMA StillInside == ASSUME UNCHANGED still PROVE Inside
BY DEF still, world, Apart, Inside

\* What does not change was there before.
LEMMA StillTrue ==
  /\ UNCHANGED record => RecordsTrue
  /\ UNCHANGED snapshot => SnapshotsTrue
  /\ UNCHANGED flight => FlightsTrue
BY DEF RecordsTrue, SnapshotsTrue, FlightsTrue

\* A request that ends has nothing in hand.
LEMMA EndsTrue ==
  ASSUME TypeInv, NEW x \in Tasks, NEW a, Ends(x, a)
  PROVE  RequestsTrue
<1>1. Moves(x) /\ pc'[x] = "done"
  BY DEF Ends
<1>. QED
  BY <1>1, MovesOthers DEF RequestsTrue

\* A request that moves has what is true in hand.
LEMMA MovesTrue ==
  ASSUME TypeInv, NEW x \in Tasks, Moves(x), RequestTrue(Moment, pc'[x], job'[x], mem'[x])
  PROVE  RequestsTrue
BY MovesOthers DEF RequestsTrue

\* What a request has in hand is true.
LEMMA InHandTrue ==
  ASSUME TypeInv, TruthInv, NEW x \in Tasks, Active(x)
  PROVE  /\ RequestTrue(Moment, pc[x], job[x], mem[x])
         /\ mem[x].asked <= now /\ mem[x].asked \in Time
         /\ job[x].kind # "disconnect" => RecordTrue(Moment, mem[x].ws, job[x].t)
         /\ mem[x].snap # None => SnapshotTrue(Moment, mem[x].snap, job[x].t)
         /\ \A g \in mem[x].groups : Hers(Moment, Home[g], job[x].t)
         /\ job[x].kind = "point" => Home[job[x].arg] \in mem[x].ws.domains
<1>1. RequestTrue(Moment, pc[x], job[x], mem[x])
  BY DEF TruthInv
<1>2. mem[x].asked \in Time
  BY Operated
<1>. QED
  BY <1>1, <1>2, MomentIs DEF RequestTrue

\* A request begins with a true record.
LEMMA StartsTruth ==
  ASSUME TypeInv, TruthInv, NEW x \in Tasks, NEW kind, NEW t, NEW arg, NEW p, NEW ws,
         Starts(x, kind, t, arg, p, ws), p \notin {"memberships", "patch"},
         kind # "disconnect" => RecordTrue(Moment, ws, t),
         kind = "point" => Home[arg] \in ws.domains,
         UNCHANGED <<still, record, snapshot, flight>>
  PROVE  TruthInv'
<1>1. RequestTrue(Moment, pc'[x], job'[x], mem'[x])
  BY MomentIs, NowIs DEF Starts, RequestTrue
<1>2. RequestsTrue
  BY <1>1, MovesTrue DEF Starts
<1>. QED
  BY <1>2, StillTrue, StillInside, InsideTruth

\* A request goes on with a true record and snapshot, to no place where it knows more.
LEMMA GoesTrue ==
  ASSUME TypeInv, TruthInv, NEW x \in Tasks, Active(x), Moves(x),
         pc'[x] \notin {"memberships", "patch"}, job'[x] = job[x],
         mem'[x].asked = mem[x].asked, mem'[x].groups = mem[x].groups,
         job[x].kind # "disconnect" => RecordTrue(Moment, mem'[x].ws, job[x].t),
         mem'[x].snap # None => SnapshotTrue(Moment, mem'[x].snap, job[x].t),
         job[x].kind = "point" => mem'[x].ws = mem[x].ws
  PROVE  RequestsTrue
<1>1. RequestTrue(Moment, pc'[x], job'[x], mem'[x])
  BY InHandTrue, MomentIs DEF RequestTrue
<1>. QED
  BY <1>1, MovesTrue

\* A request goes on with what it has.
LEMMA GoesOnTrue ==
  ASSUME TypeInv, TruthInv, NEW x \in Tasks, Active(x), Moves(x),
         pc'[x] \notin {"memberships", "patch"}, job'[x] = job[x],
         mem'[x].asked = mem[x].asked, mem'[x].groups = mem[x].groups,
         mem'[x].ws = mem[x].ws, mem'[x].snap = mem[x].snap
  PROVE  RequestsTrue
BY InHandTrue, GoesTrue

\* What the store holds of a tenant is true.
LEMMA StoreTrue ==
  ASSUME TypeInv, TruthInv, NEW t \in Tenants
  PROVE  /\ record[t] # None => RecordTrue(Moment, record[t], t)
         /\ snapshot[t] # None => SnapshotTrue(Moment, snapshot[t], t)
BY DEF TruthInv

\* A full read that is begun or joined.
LEMMA SoonTrue ==
  ASSUME \A q \in Replicas, u \in Tenants :
           flight'[q][u] = flight[q][u] \/ flight'[q][u].pc = "open"
  PROVE  FlightsTrue
BY DEF FlightsTrue

\* A record with the domains a tenant holds now is true.
LEMMA OwnedTrue ==
  ASSUME NEW t \in Tenants, NEW ws, ws.probed <= now, ws.domains \subseteq Owned(t)
  PROVE  RecordTrue(Moment, ws, t)
BY MomentIs DEF RecordTrue, Hers, Owned

\* Records that differ in what an operator chose are as true as one another.
LEMMA ChosenTrue ==
  ASSUME NEW t, NEW ws, NEW v, RecordTrue(Moment, v, t),
         ws.domains = v.domains, ws.ok = v.ok, ws.probed = v.probed
  PROVE  RecordTrue(Moment, ws, t)
BY DEF RecordTrue

\* What is restricted is as true as it was.
LEMMA RestrictTrue ==
  ASSUME NEW t, NEW s \in Snapshot, SnapshotTrue(Moment, s, t),
         NEW serve \in SUBSET Domains, NEW sync \in SUBSET Groups
  PROVE  SnapshotTrue(Moment, restrict(s, serve, sync), t)
<1>. DEFINE n == restrict(s, serve, sync)
<1>1. /\ n \in Snapshot
      /\ n.at = s.at
      /\ \A e \in Emails : n.accounts[e] # "none" =>
           n.accounts[e] = s.accounts[e] /\ (serve = {} \/ Home[e] \in serve)
      /\ n.kept \subseteq s.kept
      /\ sync # {} => n.kept \subseteq sync
      /\ n.made = s.made \cap n.kept
      /\ \A g \in n.kept : n.members[g] = s.members[g]
      /\ GroupsIn(n) \subseteq GroupsIn(s)
  BY RestrictIs, Zenon
<1>. HIDE DEF n
<1>2. SnapshotTrue(Moment, n, t)
  BY <1>1 DEF SnapshotTrue
<1>. QED
  BY <1>2 DEF n

\* Requests begin with what is true.
LEMMA ArriveTruth ==
  ASSUME TypeInv, TruthInv, NEW x \in Tasks, Arrive(x)
  PROVE  TruthInv'
<1>1. PICK r \in Replicas :
        \/ \E demand \in BOOLEAN : \/ \E e \in Emails : AskPoint(x, r, e, demand)
                                   \/ \E g \in Groups : AskGroup(x, r, g, demand)
        \/ \E t \in Tenants : ProbeOne(x, r, t)
        \/ \E t \in Tenants :
             \/ \E new \in ServeChoices : Choose(x, r, t, "served", new)
             \/ \E new \in SyncChoices : Choose(x, r, t, "synced", new)
             \/ Adopt(x, r, t) \/ Disconnect(x, r, t)
  BY DEF Arrive
<1>2. ServeChoices \subseteq ArgsOf("served") /\ SyncChoices \subseteq ArgsOf("synced")
  BY HubAssumption, Places
<1>3. ASSUME NEW demand \in BOOLEAN, NEW e \in Emails, AskPoint(x, r, e, demand) PROVE TruthInv'
  <2>1. PICK t \in Tenants : /\ record[t] \in Record /\ Home[e] \in Served(record[t])
                             /\ Starts(x, "point", t, e, "look", record[t])
    BY <1>3, AskPointDoes
  <2>2. RecordTrue(Moment, record[t], t) /\ Home[e] \in record[t].domains
    BY <2>1, StoreTrue, Nothing DEF Served
  <2>3. UNCHANGED <<still, record, snapshot, flight>>
    BY <1>3 DEF AskPoint, OnlyAsk
  <2>. QED
    BY <2>1, <2>2, <2>3, StartsTruth
<1>4. ASSUME NEW demand \in BOOLEAN, NEW g \in Groups, AskGroup(x, r, g, demand) PROVE TruthInv'
  <2>1. PICK t \in Tenants : /\ record[t] \in Record
                             /\ Starts(x, "group", t, g, "fresh", record[t])
    BY <1>4, AskGroupDoes
  <2>2. RecordTrue(Moment, record[t], t)
    BY <2>1, StoreTrue, Nothing
  <2>3. UNCHANGED <<still, record, snapshot, flight>>
    BY <1>4 DEF AskGroup, OnlyAsk
  <2>. QED
    BY <2>1, <2>2, <2>3, StartsTruth
<1>5. ASSUME NEW t \in Tenants, ProbeOne(x, r, t) PROVE TruthInv'
  <2>1. record[t] \in Record /\ Starts(x, "probe", t, None, "probe", record[t])
    BY <1>5, ProbeOneDoes
  <2>2. RecordTrue(Moment, record[t], t)
    BY <2>1, StoreTrue, Nothing
  <2>3. UNCHANGED <<still, record, snapshot, flight>>
    BY <1>5 DEF ProbeOne, OnlyAsk
  <2>. QED
    BY <2>1, <2>2, <2>3, StartsTruth
<1>6. ASSUME NEW t \in Tenants, Adopt(x, r, t) PROVE TruthInv'
  <2>1. PICK ws \in Record : /\ Starts(x, "adopt", t, None, "save", ws)
                             /\ ws.probed = now /\ ws.domains \subseteq Owned(t)
    BY <1>6, AdoptDoes
  <2>2. RecordTrue(Moment, ws, t)
    BY <2>1, NowIs, OwnedTrue
  <2>3. UNCHANGED <<still, record, snapshot, flight>>
    BY <1>6 DEF Adopt
  <2>. QED
    BY <2>1, <2>2, <2>3, StartsTruth
<1>7. ASSUME NEW t \in Tenants, Disconnect(x, r, t) PROVE TruthInv'
  <2>1. Starts(x, "disconnect", t, None, "revoke", None)
    BY <1>7, DisconnectDoes
  <2>2. UNCHANGED <<still, record, snapshot, flight>>
    BY <1>7 DEF Disconnect, OnlyAsk
  <2>. QED
    BY <2>1, <2>2, StartsTruth
<1>8. ASSUME NEW t \in Tenants,
             NEW kind \in {"served", "synced"}, NEW new \in ArgsOf(kind), Choose(x, r, t, kind, new)
      PROVE  TruthInv'
  <2>1. PICK ws \in Record, p \in {"check", "store"} :
          /\ record[t] \in Record /\ Starts(x, kind, t, new, p, ws)
          /\ ws.domains = record[t].domains /\ ws.ok = record[t].ok
          /\ ws.probed = record[t].probed
    BY <1>8, ChooseDoes
  <2>2. RecordTrue(Moment, ws, t)
    BY <2>1, StoreTrue, Nothing, ChosenTrue
  <2>3. UNCHANGED <<still, record, snapshot, flight>>
    BY <1>8 DEF Choose, OnlyAsk
  <2>. QED
    BY <2>1, <2>2, <2>3, StartsTruth
<1>. QED
  BY <1>1, <1>2, <1>3, <1>4, <1>5, <1>6, <1>7, <1>8

\* A live read of an account: the standing it has.
LEMMA LiveAccountTruth ==
  ASSUME TypeInv, TruthInv, NEW x \in Tasks, LiveAccount(x)
  PROVE  TruthInv'
<1>1. Active(x) /\ job[x].kind = "point"
  BY LiveAccountDoes
<1>2. PICK st \in Standing :
        /\ st = AccountAt(job[x].t, job[x].arg)
        /\ Goes(x, IF st = "none" THEN "patch" ELSE "memberships",
                mem[x].ws, mem[x].snap, st, mem[x].groups)
  BY LiveAccountDoes
<1>3. /\ mem[x].snap \in Snapshot \cup {None} /\ mem[x].ws \in Record /\ job[x].t \in Tenants
      /\ job[x].arg \in Emails
  BY <1>1, Asked
<1>4. PICK e : e = job[x].arg
  OBVIOUS
<1>5. PICK t : t = job[x].t
  OBVIOUS
<1>6. e \in Emails /\ t \in Tenants /\ Home[e] \in Domains /\ Home[e] \in mem[x].ws.domains
  BY <1>1, <1>3, <1>4, <1>5, Constants, InHandTrue
<1>7. RecordTrue(Moment, mem[x].ws, t)
  BY <1>1, <1>5, InHandTrue
<1>8. st = IF owner[Home[e]] = t THEN standing[e] ELSE "none"
  BY <1>2, <1>4, <1>5 DEF AccountAt
<1>9. \A g \in Groups : Always(Moment, g, e) => st # "none"
  <2>1. ASSUME NEW g \in Groups, Always(Moment, g, e) PROVE st # "none"
    <3>1. <<g, e>> \in steady /\ moved[Home[e]] = Before
      BY <2>1, MomentIs DEF Always
    <3>2. standing[e] # "none"
      BY <1>6, <3>1, DatedNow
    <3>3. owner[Home[e]] = t
      BY <1>6, <1>7, <3>1, MomentIs DEF RecordTrue, Hers
    <3>. QED
      BY <1>8, <3>2, <3>3
  <2>. QED
    BY <2>1
<1>10. st # "none" => \A since : HeldAt(Moment, e, st, since)
  BY <1>8, MomentIs DEF HeldAt
<1>11. /\ Moves(x) /\ job'[x] = job[x] /\ mem'[x].asked = mem[x].asked /\ mem'[x].ws = mem[x].ws
       /\ mem'[x].snap = mem[x].snap /\ mem'[x].standing = st /\ mem'[x].groups = mem[x].groups
       /\ pc'[x] = IF st = "none" THEN "patch" ELSE "memberships"
  BY <1>2 DEF Goes
<1>12. LiveTrue(Moment, mem'[x], e)
  BY <1>9, <1>10, <1>11 DEF LiveTrue
<1>13. ASSUME st = "none" PROVE PatchTrue(Moment, mem'[x], e)
  <2>1. \/ HeldAt(Moment, e, "none", mem[x].asked)
        \/ ~mem[x].ws.ok
        \/ Moment.moved[Home[e]] >= mem[x].ws.probed
    <3>1. CASE owner[Home[e]] = t
      BY <1>8, <1>13, <3>1, MomentIs DEF HeldAt
    <3>2. CASE owner[Home[e]] # t
      BY <1>6, <1>7, <3>2, MomentIs DEF RecordTrue
    <3>. QED
      BY <3>1, <3>2
  <2>2. ASSUME mem[x].snap # None, NEW g \in mem[x].snap.kept PROVE ~Always(Moment, g, e)
    <3>1. g \in Groups
      BY <1>3, <2>2, SnapshotFields
    <3>. QED
      BY <1>9, <1>13, <3>1
  <2>. QED
    BY <1>11, <1>13, <2>1, <2>2 DEF PatchTrue
<1>14. RequestTrue(Moment, pc'[x], job'[x], mem'[x])
  <2>1. /\ mem[x].asked <= Moment.now
        /\ job[x].kind # "disconnect" => RecordTrue(Moment, mem[x].ws, job[x].t)
        /\ mem[x].snap # None => SnapshotTrue(Moment, mem[x].snap, job[x].t)
        /\ \A g \in mem[x].groups : Hers(Moment, Home[g], job[x].t)
    BY <1>1, InHandTrue, MomentIs
  <2>2. CASE st = "none"
    BY <1>4, <1>6, <1>11, <1>12, <1>13, <2>1, <2>2 DEF RequestTrue
  <2>3. CASE st # "none"
    BY <1>4, <1>6, <1>11, <1>12, <2>1, <2>3 DEF RequestTrue
  <2>. QED
    BY <2>2, <2>3
<1>15. RequestsTrue
  BY <1>11, <1>14, MovesTrue
<1>. QED
  BY <1>15, StillTrue, StillInside, InsideTruth DEF LiveAccount

\* A live read of the groups an account is in.
LEMMA LiveGroupsTruth ==
  ASSUME TypeInv, TruthInv, NEW x \in Tasks, LiveGroups(x)
  PROVE  TruthInv'
<1>1. Active(x) /\ job[x].kind = "point" /\ pc[x] = "memberships"
  BY LiveGroupsDoes
<1>2. PICK gs : gs = GroupsOfAt(job[x].t, job[x].arg)
  OBVIOUS
<1>3. /\ Moves(x) /\ job'[x] = job[x] /\ mem'[x].asked = mem[x].asked /\ mem'[x].ws = mem[x].ws
      /\ mem'[x].snap = mem[x].snap /\ mem'[x].standing = mem[x].standing /\ mem'[x].groups = gs
      /\ pc'[x] = "patch"
  BY <1>2, LiveGroupsDoes DEF Goes
<1>4. /\ mem[x].snap \in Snapshot \cup {None} /\ job[x].t \in Tenants /\ job[x].arg \in Emails
  BY <1>1, Asked
<1>5. \A g \in gs : Hers(Moment, Home[g], job[x].t)
  BY <1>2, MomentIs DEF GroupsOfAt, GroupsAt, Hers
<1>6. LiveTrue(Moment, mem[x], job[x].arg) /\ mem[x].standing # "none"
  BY <1>1, InHandTrue DEF RequestTrue
<1>7. LiveTrue(Moment, mem'[x], job[x].arg)
  BY <1>3, <1>6 DEF LiveTrue
<1>8. ASSUME mem[x].snap # None, NEW g \in mem[x].snap.kept, Always(Moment, g, job[x].arg)
      PROVE  g \in gs
  <2>1. g \in Groups
    BY <1>4, <1>8, SnapshotFields
  <2>2. <<g, job[x].arg>> \in steady /\ moved[Home[g]] = Before
    BY <1>8, MomentIs DEF Always
  <2>3. job[x].arg \in members[g] /\ Named(g)
    BY <1>4, <2>1, <2>2, DatedNow
  <2>4. owner[Home[g]] = job[x].t
    <3>1. Hers(Moment, Home[g], job[x].t)
      BY <1>1, <1>8, InHandTrue DEF SnapshotTrue
    <3>. QED
      BY <2>2, <3>1, MomentIs DEF Hers
  <2>. QED
    BY <1>2, <2>1, <2>3, <2>4 DEF GroupsOfAt, GroupsAt
<1>9. PatchTrue(Moment, mem'[x], job[x].arg)
  <2>1. ASSUME NEW g \in gs \cap Emails, NEW since PROVE HeldAt(Moment, g, "none", since)
    BY <1>2, MomentIs DEF GroupsOfAt, GroupsAt, Named, HeldAt
  <2>. QED
    BY <1>3, <1>6, <1>8, <2>1 DEF PatchTrue
<1>10. RequestTrue(Moment, pc'[x], job'[x], mem'[x])
  <2>1. /\ mem[x].asked <= Moment.now
        /\ job[x].kind # "disconnect" => RecordTrue(Moment, mem[x].ws, job[x].t)
        /\ mem[x].snap # None => SnapshotTrue(Moment, mem[x].snap, job[x].t)
        /\ Home[job[x].arg] \in mem[x].ws.domains
    BY <1>1, InHandTrue, MomentIs
  <2>. QED
    BY <1>3, <1>5, <1>7, <1>9, <2>1 DEF RequestTrue
<1>11. RequestsTrue
  BY <1>3, <1>10, MovesTrue
<1>. QED
  BY <1>11, StillTrue, StillInside, InsideTruth DEF LiveGroups, OnlyAsk

\* What a patch puts there is true: of the account what was read live, of the others
\* what the snapshot said before.
LEMMA PatchedTrue ==
  ASSUME TypeInv, TruthInv, NEW x \in Tasks, Active(x), pc[x] = "patch", job[x].kind = "point",
         mem[x].snap \in Snapshot,
         NEW n, n = Patched(mem[x].snap, job[x].arg, mem[x].standing, mem[x].groups)
  PROVE  SnapshotTrue(Moment, n, job[x].t)
<1>1. PICK s : s = mem[x].snap
  OBVIOUS
<1>2. PICK e : e = job[x].arg
  OBVIOUS
<1>3. PICK st : st = mem[x].standing
  OBVIOUS
<1>4. PICK in : in = IF st = "none" THEN {} ELSE mem[x].groups
  OBVIOUS
<1>5. e \in Emails /\ st \in Standing /\ mem[x].groups \subseteq Groups /\ s \in Snapshot
  BY <1>1, <1>2, <1>3, Asked
<1>6. /\ n.at = s.at
      /\ \A f \in Emails : n.accounts[f] = IF f = e THEN st ELSE s.accounts[f]
      /\ n.kept = s.kept \cup in
      /\ n.made = s.made \cup (in \ s.kept)
      /\ \A g \in Groups :
           n.members[g] = (s.members[g] \ {e}) \cup IF g \in in THEN {e} ELSE {}
      /\ GroupsIn(n) = GroupsIn(s) \cup in
  <2>1. n = Patched(s, e, st, mem[x].groups)
    BY <1>1, <1>2, <1>3
  <2>. QED
    BY <1>4, <1>5, <2>1, PatchedIs
<1>7. SnapshotTrue(Moment, s, job[x].t) /\ \A g \in mem[x].groups : Hers(Moment, Home[g], job[x].t)
  BY <1>1, <1>5, Nothing, InHandTrue
<1>8. LiveTrue(Moment, mem[x], e) /\ PatchTrue(Moment, mem[x], e)
  BY <1>2, InHandTrue DEF RequestTrue
<1>9. mem[x].snap # None
  BY Nothing
<1>10. /\ st # "none" => HeldAt(Moment, e, st, s.at - ReadTime)
       /\ \A g \in Groups : Always(Moment, g, e) => st # "none"
       /\ \A g \in s.kept : Always(Moment, g, e) => g \in mem[x].groups
       /\ st # "none" => \A g \in mem[x].groups \cap Emails : HeldAt(Moment, g, "none", s.at)
  BY <1>1, <1>3, <1>8, <1>9 DEF LiveTrue, PatchTrue
<1>11. n.at <= Moment.now
  BY <1>6, <1>7 DEF SnapshotTrue
<1>12. \A f \in Emails : n.accounts[f] # "none" => HeldAt(Moment, f, n.accounts[f], n.at - ReadTime)
  BY <1>6, <1>7, <1>10 DEF SnapshotTrue
<1>13. \A g \in n.kept : Hers(Moment, Home[g], job[x].t)
  BY <1>4, <1>6, <1>7 DEF SnapshotTrue
<1>14. ASSUME NEW g \in n.kept \ n.made, NEW f \in Emails, Always(Moment, g, f)
       PROVE  f \in n.members[g]
  <2>1. g \in s.kept \ s.made /\ g \in Groups
    BY <1>5, <1>6, SnapshotFields
  <2>2. CASE f = e
    BY <1>4, <1>6, <1>10, <1>14, <2>1, <2>2
  <2>3. CASE f # e
    BY <1>6, <1>7, <1>14, <2>1, <2>3 DEF SnapshotTrue
  <2>. QED
    BY <2>2, <2>3
<1>15. ASSUME NEW g \in GroupsIn(n) \cap Emails PROVE HeldAt(Moment, g, "none", n.at)
  <2>1. CASE g \in GroupsIn(s)
    BY <1>6, <1>7, <2>1 DEF SnapshotTrue
  <2>2. CASE g \in in
    BY <1>4, <1>6, <1>10, <2>2
  <2>. QED
    BY <1>6, <1>15, <2>1, <2>2
<1>. QED
  BY <1>11, <1>12, <1>13, <1>14, <1>15 DEF SnapshotTrue

\* A patch stores what is true.
LEMMA PatchTruth ==
  ASSUME TypeInv, TruthInv, NEW x \in Tasks, Patch(x)
  PROVE  TruthInv'
<1>1. /\ pc[x] = "patch" /\ job[x].kind = "point" /\ Active(x) /\ RequestsTrue
  BY PatchDoes, EndsTrue DEF Ends
<1>2. SnapshotsTrue
  <2>1. CASE UNCHANGED snapshot
    BY <2>1, StillTrue
  <2>2. CASE ~UNCHANGED snapshot
    <3>1. PICK n : /\ mem[x].snap \in Snapshot
                   /\ n = Patched(mem[x].snap, job[x].arg, mem[x].standing, mem[x].groups)
                   /\ \A u \in Tenants : snapshot'[u] = IF u = job[x].t THEN n ELSE snapshot[u]
      BY <2>2, PatchDoes
    <3>2. SnapshotTrue(Moment, n, job[x].t)
      BY <1>1, <3>1, PatchedTrue
    <3>. QED
      BY <3>1, <3>2 DEF SnapshotsTrue
  <2>. QED
    BY <2>1, <2>2
<1>. QED
  BY <1>1, <1>2, StillTrue, StillInside, InsideTruth DEF Patch

\* Look takes a snapshot in hand that is true.
LEMMA LookTruth ==
  ASSUME TypeInv, TruthInv, NEW x \in Tasks, Look(x)
  PROVE  TruthInv'
<1>1. Active(x) /\ job[x].kind = "point" /\ job[x].t \in Tenants
  BY LookDoes, Asked
<1>2. PICK s \in {snapshot[job[x].t], None} :
        \/ Goes(x, "live", mem[x].ws, s, mem[x].standing, mem[x].groups)
        \/ \E a : Ends(x, a)
  BY LookDoes
<1>3. s # None => SnapshotTrue(Moment, s, job[x].t)
  BY <1>1, <1>2, StoreTrue
<1>4. RecordTrue(Moment, mem[x].ws, job[x].t)
  BY <1>1, InHandTrue
<1>5. RequestsTrue
  <2>1. CASE Goes(x, "live", mem[x].ws, s, mem[x].standing, mem[x].groups)
    BY <1>1, <1>3, <1>4, <2>1, GoesTrue DEF Goes
  <2>. QED
    BY <1>2, <2>1, EndsTrue
<1>. QED
  BY <1>5, StillTrue, StillInside, InsideTruth DEF Look, OnlyAsk

\* So does EnsureFresh.
LEMMA EnsureFreshTruth ==
  ASSUME TypeInv, TruthInv, NEW x \in Tasks, EnsureFresh(x)
  PROVE  TruthInv'
<1>1. Active(x) /\ job[x].kind = "group" /\ job[x].t \in Tenants /\ FlightsTrue
  BY EnsureFreshDoes, Asked, SoonTrue
<1>2. PICK s \in {snapshot[job[x].t], None} :
        \/ Goes(x, "await", mem[x].ws, s, mem[x].standing, mem[x].groups)
        \/ \E a : Ends(x, a)
  BY EnsureFreshDoes
<1>3. s # None => SnapshotTrue(Moment, s, job[x].t)
  BY <1>1, <1>2, StoreTrue
<1>4. RecordTrue(Moment, mem[x].ws, job[x].t)
  BY <1>1, InHandTrue
<1>5. RequestsTrue
  <2>1. CASE Goes(x, "await", mem[x].ws, s, mem[x].standing, mem[x].groups)
    BY <1>1, <1>3, <1>4, <2>1, GoesTrue DEF Goes
  <2>. QED
    BY <1>2, <2>1, EndsTrue
<1>. QED
  BY <1>1, <1>5, StillTrue, StillInside, InsideTruth DEF EnsureFresh

\* Lookups that are answered leave all as it was.
LEMMA AnsweredTruth ==
  ASSUME TypeInv, TruthInv, NEW x \in Tasks, LiveFails(x) \/ Await(x) \/ Abandon(x)
  PROVE  TruthInv'
<1>1. RequestsTrue
  BY LiveFailsDoes, AwaitDoes, AbandonDoes, EndsTrue
<1>2. UNCHANGED <<still, record, snapshot, flight>>
  BY DEF LiveFails, Await, Abandon, OnlyAsk
<1>. QED
  BY <1>1, <1>2, StillTrue, StillInside, InsideTruth

\* CheckSynced, and the steps of connects and disconnects that write no record, leave
\* what is in hand.
LEMMA GoesOnTruth ==
  ASSUME TypeInv, TruthInv, NEW x \in Tasks,
         \/ CheckSynced(x) \/ AdoptSave(x) \/ Revoke(x) \/ DropCredential(x)
  PROVE  TruthInv'
<1>1. RequestsTrue
  <2>1. CASE CheckSynced(x)
    <3>1. CASE Ends(x, None)
      BY <3>1, EndsTrue
    <3>2. CASE Goes(x, "store", mem[x].ws, mem[x].snap, mem[x].standing, mem[x].groups)
      BY <3>2, GoesOnTrue DEF Goes
    <3>. QED
      BY <2>1, <3>1, <3>2, CheckSyncedDoes
  <2>2. CASE AdoptSave(x)
    BY <2>2, AdoptSaveDoes, GoesOnTrue DEF Goes
  <2>3. CASE Revoke(x)
    BY <2>3, RevokeDoes, GoesOnTrue DEF Goes
  <2>4. CASE DropCredential(x)
    BY <2>4, DropCredentialDoes, GoesOnTrue DEF Goes
  <2>. QED
    BY <2>1, <2>2, <2>3, <2>4
<1>2. UNCHANGED <<still, record, snapshot, flight>>
  BY DEF CheckSynced, AdoptSave, Revoke, DropCredential, OnlyAsk
<1>. QED
  BY <1>1, <1>2, StillTrue, StillInside, InsideTruth

\* A record that is written is the one in hand.
LEMMA InHandStored ==
  ASSUME TypeInv, TruthInv, NEW x \in Tasks, Active(x), job[x].kind # "disconnect",
         \A u \in Tenants : record'[u] = IF u = job[x].t THEN mem[x].ws ELSE record[u]
  PROVE  RecordsTrue
BY InHandTrue DEF RecordsTrue

\* An operator's choice is stored.
LEMMA StoreChoiceTruth ==
  ASSUME TypeInv, TruthInv, NEW x \in Tasks, StoreChoice(x)
  PROVE  TruthInv'
<1>1. /\ Active(x) /\ job[x].kind # "disconnect"
      /\ \A u \in Tenants : record'[u] = IF u = job[x].t THEN mem[x].ws ELSE record[u]
      /\ \/ Goes(x, "narrow", mem[x].ws, mem[x].snap, mem[x].standing, mem[x].groups)
         \/ Ends(x, None)
  BY StoreChoiceDoes
<1>2. RecordsTrue
  BY <1>1, InHandStored
<1>3. RequestsTrue
  <2>1. CASE Goes(x, "narrow", mem[x].ws, mem[x].snap, mem[x].standing, mem[x].groups)
    BY <2>1, GoesOnTrue DEF Goes
  <2>. QED
    BY <1>1, <2>1, EndsTrue
<1>4. UNCHANGED <<still, snapshot, flight>>
  BY DEF StoreChoice
<1>. QED
  BY <1>2, <1>3, <1>4, StillTrue, StillInside, InsideTruth

\* A probe's outcome, and a tenant's record, are stored.
LEMMA RecordStoredTruth ==
  ASSUME TypeInv, TruthInv, NEW x \in Tasks, ProbeStore(x) \/ AdoptStore(x)
  PROVE  TruthInv'
<1>1. /\ Active(x) /\ job[x].kind # "disconnect" /\ Ends(x, None) /\ FlightsTrue
      /\ \A u \in Tenants : record'[u] = IF u = job[x].t THEN mem[x].ws ELSE record[u]
  <2>1. CASE ProbeStore(x)
    BY <2>1, ProbeStoreDoes, StillTrue DEF ProbeStore
  <2>2. CASE AdoptStore(x)
    BY <2>2, AdoptStoreDoes, SoonTrue
  <2>. QED
    BY <2>1, <2>2
<1>2. RecordsTrue /\ RequestsTrue
  BY <1>1, InHandStored, EndsTrue
<1>3. UNCHANGED <<still, snapshot>>
  BY DEF ProbeStore, AdoptStore
<1>. QED
  BY <1>1, <1>2, <1>3, StillTrue, StillInside, InsideTruth

\* The snapshot to narrow is taken in hand.
LEMMA NarrowReadTruth ==
  ASSUME TypeInv, TruthInv, NEW x \in Tasks, NarrowRead(x)
  PROVE  TruthInv'
<1>1. /\ Active(x) /\ job[x].kind \in {"served", "synced"} /\ FlightsTrue /\ job[x].t \in Tenants
      /\ \/ /\ snapshot[job[x].t] \in Snapshot
            /\ Goes(x, "narrowed", mem[x].ws, snapshot[job[x].t], mem[x].standing, mem[x].groups)
         \/ Ends(x, None)
  BY NarrowReadDoes, SoonTrue, Operated
<1>2. RequestsTrue
  <2>1. CASE /\ snapshot[job[x].t] \in Snapshot
             /\ Goes(x, "narrowed", mem[x].ws, snapshot[job[x].t], mem[x].standing, mem[x].groups)
    <3>1. SnapshotTrue(Moment, snapshot[job[x].t], job[x].t)
      BY <1>1, <2>1, StoreTrue, Nothing
    <3>2. RecordTrue(Moment, mem[x].ws, job[x].t)
      BY <1>1, InHandTrue
    <3>. QED
      BY <1>1, <2>1, <3>1, <3>2, GoesTrue DEF Goes
  <2>. QED
    BY <1>1, <2>1, EndsTrue
<1>3. UNCHANGED <<still, record, snapshot>>
  BY DEF NarrowRead
<1>. QED
  BY <1>1, <1>2, <1>3, StillTrue, StillInside, InsideTruth

\* What is narrowed is as true as before.
LEMMA NarrowPutTruth ==
  ASSUME TypeInv, TruthInv, NEW x \in Tasks, NarrowPut(x)
  PROVE  TruthInv'
<1>1. /\ Active(x) /\ job[x].kind \in {"served", "synced"} /\ FlightsTrue /\ job[x].t \in Tenants
      /\ mem[x].snap \in Snapshot /\ mem[x].ws \in Record /\ RequestsTrue
  BY NarrowPutDoes, SoonTrue, Operated, EndsTrue
<1>2. SnapshotTrue(Moment, Narrowed(job[x].kind, mem[x].snap, mem[x].ws), job[x].t)
  <2>1. SnapshotTrue(Moment, mem[x].snap, job[x].t)
    BY <1>1, Nothing, InHandTrue
  <2>2. Served(mem[x].ws) \in SUBSET Domains /\ mem[x].ws.sync \in SUBSET Groups
    BY <1>1, RecordFields DEF Served
  <2>3. {} \in SUBSET Domains /\ {} \in SUBSET Groups
    OBVIOUS
  <2>4. SnapshotTrue(Moment, restrict(mem[x].snap, Served(mem[x].ws), {}), job[x].t)
    BY <1>1, <2>1, <2>2, <2>3, RestrictTrue
  <2>5. SnapshotTrue(Moment, restrict(mem[x].snap, {}, mem[x].ws.sync), job[x].t)
    BY <1>1, <2>1, <2>2, <2>3, RestrictTrue
  <2>. QED
    BY <2>4, <2>5 DEF Narrowed
<1>3. SnapshotsTrue
  <2>1. CASE UNCHANGED snapshot
    BY <2>1, StillTrue
  <2>2. CASE ~UNCHANGED snapshot
    <3>1. PICK s : /\ s = None \/ s = Narrowed(job[x].kind, mem[x].snap, mem[x].ws)
                   /\ \A u \in Tenants : snapshot'[u] = IF u = job[x].t THEN s ELSE snapshot[u]
      BY <2>2, NarrowPutDoes
    <3>. QED
      BY <1>2, <3>1 DEF SnapshotsTrue
  <2>. QED
    BY <2>1, <2>2
<1>4. UNCHANGED <<still, record>>
  BY DEF NarrowPut
<1>. QED
  BY <1>1, <1>3, <1>4, StillTrue, StillInside, InsideTruth

\* The domains of a probe that went well are the tenant's now; those of one that did not
\* are no fact.
LEMMA ProbeAskTruth ==
  ASSUME TypeInv, TruthInv, NEW x \in Tasks, ProbeAsk(x)
  PROVE  TruthInv'
<1>1. Active(x) /\ job[x].kind = "probe" /\ job[x].t \in Tenants
  BY ProbeAskDoes, Operated
<1>2. PICK ws \in Record :
        /\ Goes(x, "probed", ws, mem[x].snap, mem[x].standing, mem[x].groups)
        /\ ws.probed = mem[x].asked
        /\ ws.domains = IF ws.ok THEN Owned(job[x].t) ELSE mem[x].ws.domains
  BY ProbeAskDoes
<1>3. mem[x].asked <= now /\ RecordTrue(Moment, mem[x].ws, job[x].t)
  BY <1>1, InHandTrue
<1>4. RecordTrue(Moment, ws, job[x].t)
  <2>1. CASE ws.ok
    BY <1>1, <1>2, <1>3, <2>1, OwnedTrue
  <2>2. CASE ~ws.ok
    BY <1>2, <1>3, <2>2, MomentIs DEF RecordTrue
  <2>. QED
    BY <2>1, <2>2
<1>5. mem[x].snap # None => SnapshotTrue(Moment, mem[x].snap, job[x].t)
  BY <1>1, InHandTrue
<1>6. RequestsTrue
  BY <1>1, <1>2, <1>4, <1>5, GoesTrue DEF Goes
<1>. QED
  BY <1>6, StillTrue, StillInside, InsideTruth DEF ProbeAsk

\* A tenant connected again keeps what was found of it.
LEMMA AdoptExistingTruth ==
  ASSUME TypeInv, TruthInv, NEW x \in Tasks, AdoptExisting(x)
  PROVE  TruthInv'
<1>1. Active(x) /\ job[x].kind = "adopt" /\ job[x].t \in Tenants
  BY AdoptExistingDoes, Operated
<1>2. PICK ws \in Record :
        /\ Goes(x, "adopt", ws, mem[x].snap, mem[x].standing, mem[x].groups)
        /\ ws.domains = mem[x].ws.domains /\ ws.ok = mem[x].ws.ok
        /\ ws.probed = mem[x].ws.probed
  BY AdoptExistingDoes
<1>3. RecordTrue(Moment, ws, job[x].t)
  BY <1>1, <1>2, InHandTrue, ChosenTrue
<1>4. mem[x].snap # None => SnapshotTrue(Moment, mem[x].snap, job[x].t)
  BY <1>1, InHandTrue
<1>5. RequestsTrue
  BY <1>1, <1>2, <1>3, <1>4, GoesTrue DEF Goes
<1>. QED
  BY <1>5, StillTrue, StillInside, InsideTruth DEF AdoptExisting

\* What a disconnect drops is gone.
LEMMA DropTruth ==
  ASSUME TypeInv, TruthInv, NEW x \in Tasks, DropSnapshot(x) \/ DropRecord(x)
  PROVE  TruthInv'
<1>1. CASE DropSnapshot(x)
  <2>1. SnapshotsTrue
    BY <1>1, DropSnapshotDoes DEF SnapshotsTrue
  <2>2. RequestsTrue
    BY <1>1, DropSnapshotDoes, GoesOnTrue DEF Goes
  <2>3. UNCHANGED <<still, record, flight>>
    BY <1>1 DEF DropSnapshot
  <2>. QED
    BY <2>1, <2>2, <2>3, StillTrue, StillInside, InsideTruth
<1>2. CASE DropRecord(x)
  <2>1. RecordsTrue
    BY <1>2, DropRecordDoes DEF RecordsTrue
  <2>2. RequestsTrue
    BY <1>2, DropRecordDoes, EndsTrue
  <2>3. UNCHANGED <<still, snapshot, flight>>
    BY <1>2 DEF DropRecord
  <2>. QED
    BY <2>1, <2>2, <2>3, StillTrue, StillInside, InsideTruth
<1>. QED
  BY <1>1, <1>2

\* Every step of a request.
LEMMA StepTruth ==
  ASSUME TypeInv, TruthInv, NEW x \in Tasks, Step(x)
  PROVE  TruthInv'
<1>1. CASE \/ Look(x) \/ LiveAccount(x) \/ LiveGroups(x) \/ LiveFails(x) \/ Patch(x)
           \/ EnsureFresh(x) \/ Await(x) \/ Abandon(x)
  BY <1>1, LookTruth, LiveAccountTruth, LiveGroupsTruth, AnsweredTruth, PatchTruth, EnsureFreshTruth
<1>2. CASE \/ CheckSynced(x) \/ StoreChoice(x) \/ NarrowRead(x) \/ NarrowPut(x)
           \/ ProbeAsk(x) \/ ProbeStore(x)
  BY <1>2, GoesOnTruth, StoreChoiceTruth, NarrowReadTruth, NarrowPutTruth, ProbeAskTruth,
     RecordStoredTruth
<1>3. CASE \/ AdoptSave(x) \/ AdoptExisting(x) \/ AdoptStore(x)
           \/ Revoke(x) \/ DropSnapshot(x) \/ DropCredential(x) \/ DropRecord(x)
  BY <1>3, GoesOnTruth, AdoptExistingTruth, RecordStoredTruth, DropTruth
<1>. QED
  BY <1>1, <1>2, <1>3 DEF Step

\* A full read leaves the directories, the records and the requests alone.
LEMMA FlightOnlyTrue ==
  ASSUME FlightOnly
  PROVE  Inside /\ RecordsTrue /\ RequestsTrue
<1>1. UNCHANGED <<now, world, start, record, requests, last, moved, steady>>
  BY DEF FlightOnly
<1>2. Inside
  BY <1>1 DEF Apart, Inside, world
<1>3. RecordsTrue /\ RequestsTrue
  BY <1>1 DEF RecordsTrue, RequestsTrue, requests
<1>. QED
  BY <1>2, <1>3

\* A full read that flies on with what is true, or has read nothing yet.
LEMMA FliesTrue ==
  ASSUME NEW r \in Replicas, NEW t \in Tenants, NEW f, Flies(r, t, f),
         f.pc \notin {"groups", "put"} \/ FlightTrue(Moment, f, t)
  PROVE  FlightsTrue /\ Inside /\ RecordsTrue /\ RequestsTrue
<1>1. FlightsTrue
  BY DEF Flies, FlightsTrue
<1>. QED
  BY <1>1, FlightOnlyTrue DEF Flies

\* What the directory says now is true: of who has an account, and of who is in a group.
LEMMA ReadTrue ==
  ASSUME TypeInv, TruthInv, NEW t \in Tenants
  PROVE  /\ \A e \in Emails : AccountAt(t, e) # "none" =>
              \A since : HeldAt(Moment, e, AccountAt(t, e), since)
         /\ \A g \in GroupsAt(t) : Hers(Moment, Home[g], t)
         /\ \A g \in GroupsAt(t), e \in Emails : Always(Moment, g, e) => e \in members[g]
         /\ \A g \in GroupsAt(t) \cap Emails : \A since : HeldAt(Moment, g, "none", since)
<1>1. \A e \in Emails : AccountAt(t, e) # "none" => AccountAt(t, e) = standing[e]
  BY DEF AccountAt
<1>2. /\ \A g \in GroupsAt(t) : g \in Groups /\ owner[Home[g]] = t
      /\ \A g \in GroupsAt(t) \cap Emails : standing[g] = "none"
  BY DEF GroupsAt, Named
<1>3. \A g \in Groups, e \in Emails : Always(Moment, g, e) => e \in members[g]
  BY DatedNow, MomentIs DEF Always
<1>. QED
  BY <1>1, <1>2, <1>3, MomentIs DEF HeldAt, Hers

\* Of the accounts a full read knows what is true now.
LEMMA FlightAccountsTruth ==
  ASSUME TypeInv, TruthInv, NEW r \in Replicas, NEW t \in Tenants, FlightAccounts(r, t)
  PROVE  TruthInv'
<1>1. PICK f \in Flight :
        /\ Flies(r, t, f) /\ f.pc = "groups" /\ f.began = now
        /\ \A e \in Emails : f.accounts[e] = AccountAt(t, e)
  BY FlightAccountsDoes
<1>2. now - now <= ReadTime /\ now <= now
  BY NowIs, TimeIs
<1>3. \A e \in Emails : f.accounts[e] # "none" => HeldAt(Moment, e, f.accounts[e], f.began)
  BY <1>1, ReadTrue
<1>4. FlightTrue(Moment, f, t)
  BY <1>1, <1>2, <1>3, MomentIs DEF FlightTrue
<1>5. SnapshotsTrue
  BY FlightAccountsDoes, StillTrue
<1>. QED
  BY <1>1, <1>4, <1>5, FliesTrue, InsideTruth

\* The snapshot of a full read: its accounts at most ReadTime old, its groups true now.
LEMMA FlightGroupsTruth ==
  ASSUME TypeInv, TruthInv, NEW r \in Replicas, NEW t \in Tenants, FlightGroups(r, t)
  PROVE  TruthInv'
<1>1. /\ flight[r][t].pc = "groups" /\ flight[r][t].ws \in Record
  BY FlightGroupsDoes
<1>2. PICK all \in Snapshot, f \in Flight :
        /\ all.at = now /\ all.accounts = flight[r][t].accounts
        /\ all.kept = GroupsAt(t) /\ all.made = {} /\ all.discovered = GroupsAt(t)
        /\ \A g \in GroupsAt(t) : all.members[g] = members[g]
        /\ Flies(r, t, f) /\ f.pc = "put"
        /\ f.snap = restrict(all, flight[r][t].ws.serve, flight[r][t].ws.sync)
  BY FlightGroupsDoes
<1>3. /\ now - flight[r][t].began <= ReadTime
      /\ \A e \in Emails : flight[r][t].accounts[e] # "none" =>
           HeldAt(Moment, e, flight[r][t].accounts[e], flight[r][t].began)
  BY <1>1, MomentIs DEF TruthInv, FlightTrue
<1>4. flight[r][t].began \in Time /\ now \in Int
  BY <1>1, FlightTyped, NowIs DEF FlightPlaced
<1>5. now - ReadTime <= flight[r][t].began
  BY <1>3, <1>4, TimeIs
<1>6. \A e \in Emails : all.accounts[e] # "none" =>
        HeldAt(Moment, e, all.accounts[e], all.at - ReadTime)
  <2>1. SUFFICES ASSUME NEW e \in Emails, all.accounts[e] # "none"
                 PROVE  HeldAt(Moment, e, all.accounts[e], now - ReadTime)
    BY <1>2
  <2>2. PICK st : st = all.accounts[e]
    OBVIOUS
  <2>3. st \in Standing
    BY <2>2, SnapshotFields
  <2>4. HeldAt(Moment, e, st, flight[r][t].began)
    BY <1>2, <1>3, <2>1, <2>2
  <2>5. last[e][st] \in Int
    BY <2>3, TimeIs DEF TypeInv, TypeOK
  <2>6. HeldAt(Moment, e, st, now - ReadTime)
    BY <1>4, <1>5, <2>4, <2>5, MomentIs, TimeIs DEF HeldAt
  <2>. QED
    BY <2>2, <2>6
<1>7. SnapshotTrue(Moment, all, t)
  <2>1. GroupsIn(all) = GroupsAt(t)
    BY <1>2 DEF GroupsIn
  <2>. QED
    BY <1>2, <1>4, <1>6, <2>1, ReadTrue, MomentIs DEF SnapshotTrue
<1>8. SnapshotTrue(Moment, f.snap, t)
  BY <1>1, <1>2, <1>7, RecordFields, RestrictTrue
<1>9. FlightTrue(Moment, f, t)
  BY <1>2, <1>8 DEF FlightTrue
<1>10. SnapshotsTrue
  BY FlightGroupsDoes, StillTrue
<1>. QED
  BY <1>2, <1>9, <1>10, FliesTrue, InsideTruth

\* The other steps of a full read.
LEMMA FlightStepTruth ==
  ASSUME TypeInv, TruthInv, NEW r \in Replicas, NEW t \in Tenants, FlightStep(r, t)
  PROVE  TruthInv'
<1>1. CASE Refresh(r, t)
  <2>1. FlightsTrue /\ FlightOnly /\ SnapshotsTrue
    BY <1>1, RefreshDoes, SoonTrue, StillTrue
  <2>. QED
    BY <2>1, FlightOnlyTrue, InsideTruth
<1>2. CASE FlightOpen(r, t) \/ FlightRecord(r, t) \/ FlightFails(r, t)
  <2>1. SnapshotsTrue
    BY <1>2, FlightOpenDoes, FlightRecordDoes, FlightFailsDoes, StillTrue
  <2>2. PICK f : Flies(r, t, f) /\ f.pc \in {"idle", "record", "accounts"}
    BY <1>2, FlightOpenDoes, FlightRecordDoes, FlightFailsDoes
  <2>. QED
    BY <2>1, <2>2, FliesTrue, InsideTruth
<1>3. CASE FlightPut(r, t)
  <2>1. /\ flight[r][t].pc = "put"
        /\ \A u \in Tenants :
             snapshot'[u] = IF u = t THEN flight[r][t].snap ELSE snapshot[u]
    BY <1>3, FlightPutDoes
  <2>2. SnapshotTrue(Moment, flight[r][t].snap, t)
    BY <2>1 DEF TruthInv, FlightTrue
  <2>3. SnapshotsTrue
    BY <2>1, <2>2 DEF SnapshotsTrue
  <2>4. PICK f : Flies(r, t, f) /\ f.pc = "idle"
    BY <1>3, FlightPutDoes
  <2>. QED
    BY <2>3, <2>4, FliesTrue, InsideTruth
<1>. QED
  BY <1>1, <1>2, <1>3, FlightAccountsTruth, FlightGroupsTruth DEF FlightStep

\* A process that ends and starts anew takes nothing that is true with it.
LEMMA RestartTruth ==
  ASSUME TypeInv, TruthInv, NEW r \in Replicas, Restart(r)
  PROVE  TruthInv'
<1>1. RequestsTrue /\ StartsTrue
  BY RestartDoes DEF RequestsTrue, StartsTrue
<1>2. FlightsTrue
  <2>1. ASSUME NEW q \in Replicas, NEW t \in Tenants
        PROVE  flight'[q][t] = flight[q][t] \/ flight'[q][t].pc \notin {"groups", "put"}
    BY RestartDoes
  <2>. QED
    BY <2>1 DEF FlightsTrue
<1>3. Apart /\ RecordsTrue /\ SnapshotsTrue
  BY StillTrue DEF Restart, world, Apart
<1>. QED
  BY <1>1, <1>2, <1>3, ApartTruth

\* What a starting process leaves alone is as true as it was.
LEMMA StartOnlyTrue ==
  ASSUME StartOnly
  PROVE  Apart /\ SnapshotsTrue /\ RequestsTrue
BY DEF StartOnly, Apart, SnapshotsTrue, RequestsTrue, world, requests

\* A starting process reads, stores and forgets what is true.
LEMMA StartTruth ==
  ASSUME TypeInv, TruthInv, NEW r \in Replicas,
         StartStore(r) \/ \E t \in Tenants : StartAdopt(r, t) \/ StartReopen(r, t)
  PROVE  TruthInv'
<1>1. ASSUME NEW t \in Tenants, StartAdopt(r, t) PROVE TruthInv'
  <2>1. PICK ws \in Record :
          /\ ws.probed = now /\ ws.domains \subseteq Owned(t)
          /\ \A q \in Replicas : start'[q] = start[q] \/ (start'[q].t = t /\ start'[q].ws = ws)
    BY <1>1, StartAdoptDoes
  <2>2. RecordTrue(Moment, ws, t)
    BY <2>1, NowIs, OwnedTrue
  <2>3. StartsTrue
    BY <2>1, <2>2 DEF StartsTrue
  <2>4. RecordsTrue /\ FlightsTrue /\ StartOnly
    BY <1>1, StartAdoptDoes, StillTrue
  <2>. QED
    BY <2>3, <2>4, StartOnlyTrue, ApartTruth
<1>2. ASSUME StartStore(r) PROVE TruthInv'
  <2>1. start[r].t \in Tenants
    BY <1>2, StartStoreDoes
  <2>2. RecordTrue(Moment, start[r].ws, start[r].t)
    BY <2>1, Nothing DEF TruthInv
  <2>3. \A u \in Tenants : record'[u] = IF u = start[r].t THEN start[r].ws ELSE record[u]
    BY <1>2, StartStoreDoes
  <2>4. RecordsTrue
    BY <2>2, <2>3 DEF RecordsTrue
  <2>5. FlightsTrue
    BY <1>2, StartStoreDoes, SoonTrue
  <2>6. StartsTrue /\ StartOnly
    BY <1>2, StartStoreDoes DEF StartsTrue
  <2>. QED
    BY <2>4, <2>5, <2>6, StartOnlyTrue, ApartTruth
<1>3. ASSUME NEW t \in Tenants, StartReopen(r, t) PROVE TruthInv'
  <2>1. RecordsTrue
    BY <1>3, StartReopenDoes DEF RecordsTrue
  <2>2. FlightsTrue /\ StartOnly
    BY <1>3, StartReopenDoes, StillTrue
  <2>3. StartsTrue
    BY <1>3, StartReopenDoes DEF StartsTrue
  <2>. QED
    BY <2>1, <2>2, <2>3, StartOnlyTrue, ApartTruth
<1>. QED
  BY <1>1, <1>2, <1>3

\* What does not change stays true.
LEMMA StutterTruth ==
  ASSUME TypeInv, TruthInv, UNCHANGED vars
  PROVE  TruthInv'
<1>1. UNCHANGED <<now, world, record, snapshot, flight, start, requests, history>>
  BY DEF vars, requests
<1>2. Inside /\ RequestsTrue
  BY <1>1 DEF world, history, requests, Apart, Inside, RequestsTrue
<1>. QED
  BY <1>1, <1>2, StillTrue, InsideTruth

\* Every step keeps it true.
LEMMA TruthStep ==
  ASSUME TypeInv, TruthInv, [Next]_vars
  PROVE  TruthInv'
<1>1. TypeInv'
  BY TypeStep
<1>2. CASE Next
  <2>1. CASE \E x \in Tasks : Arrive(x) \/ Step(x)
    BY <2>1, ArriveTruth, StepTruth
  <2>2. CASE \E r \in Replicas :
               \/ Restart(r) \/ StartStore(r)
               \/ \E t \in Tenants : StartAdopt(r, t) \/ StartReopen(r, t) \/ FlightStep(r, t)
    BY <2>2, RestartTruth, StartTruth, FlightStepTruth
  <2>3. CASE \E e \in Emails : \/ \E st \in Standing : SetStanding(e, st)
                               \/ \E g \in Groups : SetMember(g, e)
    BY <1>1, <2>3, SetStandingTruth, SetMemberTruth
  <2>4. CASE \E d \in Domains, o \in Tenants : MoveDomain(d, o)
    BY <1>1, <2>4, MoveDomainTruth
  <2>5. CASE Tick
    BY <1>1, <2>5, TickTruth
  <2>. QED
    BY <1>2, <2>1, <2>2, <2>3, <2>4, <2>5 DEF Next
<1>3. CASE UNCHANGED vars
  BY <1>3, StutterTruth
<1>. QED
  BY <1>2, <1>3

\* At the start what the hub holds has just been read.
LEMMA TruthInit ==
  ASSUME Init
  PROVE  TruthInv
<1>1. TypeInv
  BY TypeInit
<1>2. /\ now = 0 /\ now \in Time
      /\ \A e \in Emails, st \in Standing : last[e][st] = Before
      /\ \A d \in Domains : moved[d] = Before
  BY <1>1 DEF Init, TypeInv, TypeOK
<1>3. \A g \in Groups, e \in Emails :
        <<g, e>> \in steady => e \in members[g] /\ standing[e] # "none" /\ Named(g)
  BY DEF Init
<1>4. Dated(Moment)
  BY <1>2, <1>3, MomentIs DEF Dated, Before, Named
<1>5. ASSUME NEW t \in Tenants PROVE RecordTrue(Moment, record[t], t)
  <2>1. record[t].probed = 0 /\ record[t].domains \subseteq Owned(t)
    BY InitDoes
  <2>2. record[t].probed <= now
    BY <1>2, <2>1
  <2>. QED
    BY <2>1, <2>2, OwnedTrue
<1>6. ASSUME NEW t \in Tenants PROVE SnapshotTrue(Moment, snapshot[t], t)
  <2>1. PICK all \in Snapshot :
          /\ all.at = now /\ all.kept = GroupsAt(t) /\ all.made = {}
          /\ all.discovered = GroupsAt(t)
          /\ \A e \in Emails : all.accounts[e] = AccountAt(t, e)
          /\ \A g \in GroupsAt(t) : all.members[g] = members[g]
          /\ snapshot[t] = restrict(all, {}, record[t].sync)
    BY InitDoes
  <2>2. /\ \A e \in Emails : AccountAt(t, e) # "none" => AccountAt(t, e) = standing[e]
        /\ \A g \in GroupsAt(t) : g \in Groups /\ owner[Home[g]] = t
        /\ \A g \in GroupsAt(t) \cap Emails : standing[g] = "none"
    BY DEF AccountAt, GroupsAt, Named
  <2>3. \A e \in Emails : all.accounts[e] # "none" =>
          HeldAt(Moment, e, all.accounts[e], all.at - ReadTime)
    BY <2>1, <2>2, MomentIs DEF HeldAt
  <2>4. \A g \in GroupsAt(t) : Hers(Moment, Home[g], t)
    BY <2>2, MomentIs DEF Hers
  <2>5. \A g \in GroupsAt(t), e \in Emails : Always(Moment, g, e) => e \in members[g]
    BY <1>3, <2>2, MomentIs DEF Always
  <2>6. GroupsIn(all) = GroupsAt(t) /\ \A g \in GroupsAt(t) \cap Emails : HeldAt(Moment, g, "none", now)
    BY <2>1, <2>2, MomentIs DEF GroupsIn, HeldAt
  <2>7. SnapshotTrue(Moment, all, t)
    BY <1>2, <2>1, <2>3, <2>4, <2>5, <2>6, MomentIs DEF SnapshotTrue
  <2>8. record[t].sync \in SUBSET Groups
    BY InitDoes, RecordFields
  <2>9. PICK serve : serve = {}
    OBVIOUS
  <2>10. SnapshotTrue(Moment, restrict(all, serve, record[t].sync), t)
    BY <2>7, <2>8, <2>9, RestrictTrue
  <2>. QED
    BY <2>1, <2>9, <2>10
<1>7. ASSUME NEW r \in Replicas, NEW t \in Tenants PROVE FlightTrue(Moment, flight[r][t], t)
  BY DEF Init, Idle, FlightTrue
<1>8. \A x \in Tasks : ~Active(x)
  BY DEF Init, Active
<1>9. \A r \in Replicas : start[r].t = None
  BY DEF Init, Up
<1>. QED
  BY <1>4, <1>5, <1>6, <1>7, <1>8, <1>9 DEF TruthInv

-----------------------------------------------------------------------------
(* What the hub vouches for.                                               *)

Vouched == AbsenceTrue /\ StandingFresh /\ GroupsWhole

\* The answer of a point lookup, and that of a group lookup, as the properties read them,
\* in the world as it is.
PointTrue(a) ==
  a.auth =>
    /\ a.standing = "none" =>
         \/ HeldAt(Moment, a.about, "none", a.asked)
         \/ moved[Home[a.about]] >= a.probed
         \/ /\ a.about \in Groups
            /\ HeldAt(Moment, a.about, "none", a.asked - FreshnessWindow)
    /\ a.standing # "none" =>
         HeldAt(Moment, a.about, a.standing, a.asked - FreshnessWindow - ReadTime)
GroupTrue(a) ==
  a.auth /\ a.standing = "live" /\ ~a.made =>
    \A e \in Emails : Always(Moment, a.about, e) => e \in a.members

\* Where nothing was answered nothing was vouched for.
LEMMA NoAnswer ==
  ASSUME answer' = None
  PROVE  Vouched'
BY DEF Vouched, AbsenceTrue, StandingFresh, GroupsWhole, Answers

\* A true answer to a point lookup is all there is to it.
LEMMA PointVouched ==
  ASSUME Inside, NEW a, answer' = a, a.kind = "point", PointTrue(a)
  PROVE  Vouched'
<1>1. /\ standing' = standing /\ last' = last /\ moved' = moved
  BY DEF Inside, Apart
<1>2. AbsenceTrue'
  BY <1>1, MomentIs DEF AbsenceTrue, Answers, Held, PointTrue, HeldAt
<1>3. StandingFresh'
  BY <1>1, MomentIs DEF StandingFresh, Answers, Held, PointTrue, HeldAt
<1>4. GroupsWhole'
  BY DEF GroupsWhole, Answers
<1>. QED
  BY <1>2, <1>3, <1>4 DEF Vouched

\* So is a true answer to a group lookup.
LEMMA GroupVouched ==
  ASSUME TypeInv, Inside, NEW a, answer' = a, a.kind = "group", GroupTrue(a)
  PROVE  Vouched'
<1>1. /\ steady' = steady /\ moved' = moved
  BY DEF Inside, Apart
<1>2. AbsenceTrue' /\ StandingFresh'
  BY DEF AbsenceTrue, StandingFresh, Answers
<1>3. GroupsWhole'
  <2>1. SUFFICES ASSUME a.auth, a.standing = "live", ~a.made
                 PROVE  Steady(a.about)' \subseteq a.members
    BY DEF GroupsWhole, Answers
  <2>2. ASSUME NEW n \in steady, n[1] = a.about, moved[Home[a.about]] = Before,
               moved[Home[n[2]]] = Before
        PROVE  n[2] \in a.members
    <3>1. n = <<n[1], n[2]>> /\ n[2] \in Emails
      BY <2>2 DEF TypeInv, TypeOK
    <3>2. Always(Moment, a.about, n[2])
      BY <2>2, <3>1, MomentIs DEF Always
    <3>. QED
      BY <2>1, <3>1, <3>2 DEF GroupTrue
  <2>. QED
    BY <1>1, <2>2 DEF Steady
<1>. QED
  BY <1>2, <1>3 DEF Vouched

\* What a young snapshot says of an address has held since the window before the question.
LEMMA LookVouched ==
  ASSUME TypeInv, TruthInv, NEW x \in Tasks, Look(x)
  PROVE  Vouched'
<1>1. Active(x) /\ job[x].kind = "point" /\ job[x].t \in Tenants /\ job[x].arg \in Emails
  BY LookDoes, Asked
<1>2. PICK s \in {snapshot[job[x].t], None} :
        \/ Goes(x, "live", mem[x].ws, s, mem[x].standing, mem[x].groups)
        \/ /\ s # None /\ (s.accounts[job[x].arg] # "none" \/ job[x].arg \in GroupsIn(s))
           /\ Ends(x, PointAnswer(x, s.accounts[job[x].arg],
                        Authoritative(mem[x].ws, mem[x].conflict, s)))
  BY LookDoes
<1>3. CASE Goes(x, "live", mem[x].ws, s, mem[x].standing, mem[x].groups)
  BY <1>3, NoAnswer DEF Goes
<1>4. ASSUME s # None, s.accounts[job[x].arg] # "none" \/ job[x].arg \in GroupsIn(s),
             Ends(x, PointAnswer(x, s.accounts[job[x].arg],
                       Authoritative(mem[x].ws, mem[x].conflict, s)))
      PROVE  Vouched'
  <2>1. PICK st : st = s.accounts[job[x].arg]
    OBVIOUS
  <2>2. PICK auth : auth = Authoritative(mem[x].ws, mem[x].conflict, s)
    OBVIOUS
  <2>3. PICK a : a = PointAnswer(x, st, auth)
    OBVIOUS
  <2>4. answer' = a
    BY <1>4, <2>1, <2>2, <2>3 DEF Ends
  <2>5. /\ a.kind = "point" /\ a.about = job[x].arg /\ a.standing = st /\ a.auth = auth
        /\ a.asked = mem[x].asked
    BY <2>3 DEF PointAnswer
  <2>6. s \in Snapshot /\ SnapshotTrue(Moment, s, job[x].t)
    BY <1>1, <1>2, <1>4, StoreTrue DEF TypeInv, TypeOK
  <2>7. /\ st \in Standing
        /\ st # "none" => HeldAt(Moment, job[x].arg, st, s.at - ReadTime)
        /\ st = "none" => job[x].arg \in Groups /\ HeldAt(Moment, job[x].arg, "none", s.at)
    BY <1>1, <1>4, <2>1, <2>6, SnapshotFields DEF SnapshotTrue, GroupsIn
  <2>8. mem[x].asked <= now /\ mem[x].asked \in Time /\ now \in Int /\ s.at \in Int
    BY <1>1, <2>6, InHandTrue, NowIs, SnapshotFields, TimeIs
  <2>9. ASSUME auth
        PROVE  /\ st # "none" =>
                    HeldAt(Moment, job[x].arg, st, mem[x].asked - FreshnessWindow - ReadTime)
               /\ st = "none" => HeldAt(Moment, job[x].arg, "none", mem[x].asked - FreshnessWindow)
    <3>1. now - s.at < FreshnessWindow
      BY <2>2, <2>9 DEF Authoritative, Age
    <3>2. FreshnessWindow \in Int
      BY HubAssumption
    <3>3. /\ mem[x].asked - FreshnessWindow - ReadTime <= s.at - ReadTime
          /\ mem[x].asked - FreshnessWindow <= s.at
      BY <2>8, <3>1, <3>2, TimeIs
    <3>4. last[job[x].arg][st] \in Int
      BY <1>1, <2>7, TimeIs DEF TypeInv, TypeOK
    <3>. QED
      BY <2>7, <2>8, <3>2, <3>3, <3>4, TimeIs, MomentIs DEF HeldAt
  <2>10. PointTrue(a)
    BY <2>5, <2>7, <2>9 DEF PointTrue
  <2>11. Inside
    BY StillInside DEF Look, OnlyAsk
  <2>. QED
    BY <2>4, <2>5, <2>10, <2>11, PointVouched
<1>. QED
  BY <1>2, <1>3, <1>4

\* A live read that failed vouches for nothing.
LEMMA LiveFailsVouches ==
  ASSUME TypeInv, TruthInv, NEW x \in Tasks, LiveFails(x)
  PROVE  Vouched'
<1>1. PICK st : Ends(x, PointAnswer(x, st, FALSE))
  BY LiveFailsDoes
<1>2. PICK a : a = PointAnswer(x, st, FALSE)
  OBVIOUS
<1>3. answer' = a /\ a.kind = "point" /\ a.auth = FALSE
  BY <1>1, <1>2 DEF Ends, PointAnswer
<1>4. PointTrue(a)
  BY <1>3 DEF PointTrue
<1>5. Inside
  BY StillInside DEF LiveFails
<1>. QED
  BY <1>3, <1>4, <1>5, PointVouched

\* What a live read found, or did not find, was so since the question.
LEMMA PatchVouched ==
  ASSUME TypeInv, TruthInv, NEW x \in Tasks, Patch(x)
  PROVE  Vouched'
<1>1. /\ pc[x] = "patch" /\ job[x].kind = "point" /\ Active(x)
      /\ Ends(x, PointAnswer(x, mem[x].standing, ~mem[x].conflict /\ mem[x].ws.ok))
  BY PatchDoes DEF Ends
<1>2. PICK auth : auth = (~mem[x].conflict /\ mem[x].ws.ok)
  OBVIOUS
<1>3. PICK a : a = PointAnswer(x, mem[x].standing, auth)
  OBVIOUS
<1>4. answer' = a
  BY <1>1, <1>2, <1>3 DEF Ends
<1>5. /\ a.kind = "point" /\ a.about = job[x].arg /\ a.standing = mem[x].standing
      /\ a.auth = auth /\ a.asked = mem[x].asked /\ a.probed = mem[x].ws.probed
  BY <1>3 DEF PointAnswer
<1>6. job[x].arg \in Emails /\ mem[x].standing \in Standing /\ mem[x].asked \in Time
  BY <1>1, Asked
<1>7. LiveTrue(Moment, mem[x], job[x].arg) /\ PatchTrue(Moment, mem[x], job[x].arg)
  BY <1>1, InHandTrue DEF RequestTrue
<1>8. mem[x].standing # "none" =>
        HeldAt(Moment, job[x].arg, mem[x].standing, mem[x].asked - FreshnessWindow - ReadTime)
  <2>1. SUFFICES ASSUME mem[x].standing # "none"
                 PROVE  HeldAt(Moment, job[x].arg, mem[x].standing,
                               mem[x].asked - FreshnessWindow - ReadTime)
    OBVIOUS
  <2>2. HeldAt(Moment, job[x].arg, mem[x].standing, mem[x].asked)
    BY <1>7, <2>1 DEF LiveTrue
  <2>3. last[job[x].arg][mem[x].standing] \in Int
    BY <1>6, TimeIs DEF TypeInv, TypeOK
  <2>4. FreshnessWindow \in Nat /\ mem[x].asked \in Int
    BY <1>6, HubAssumption, TimeIs
  <2>. QED
    BY <2>2, <2>3, <2>4, TimeIs, MomentIs DEF HeldAt
<1>9. PointTrue(a)
  BY <1>2, <1>5, <1>7, <1>8, MomentIs DEF PatchTrue, PointTrue
<1>10. Inside
  BY StillInside DEF Patch
<1>. QED
  BY <1>4, <1>5, <1>9, <1>10, PointVouched

\* A group out of a true snapshot lists who has been in it all along.
LEMMA GroupAnswerTrue ==
  ASSUME TypeInv, TruthInv, NEW x \in Tasks, Active(x), job[x].kind = "group",
         NEW s \in Snapshot \cup {None}, s # None => SnapshotTrue(Moment, s, job[x].t),
         Inside, answer' = GroupAnswer(x, s)
  PROVE  Vouched'
<1>1. PICK a : a = GroupAnswer(x, s)
  OBVIOUS
<1>2. a.kind = "group" /\ a.about = job[x].arg
  BY <1>1 DEF GroupAnswer
<1>3. a.standing = "live" => s # None /\ job[x].arg \in s.kept
  BY <1>1 DEF GroupAnswer
<1>4. s # None /\ job[x].arg \in s.kept =>
        a.members = s.members[job[x].arg] /\ a.made = (job[x].arg \in s.made)
  BY <1>1 DEF GroupAnswer
<1>5. GroupTrue(a)
  BY <1>2, <1>3, <1>4 DEF GroupTrue, SnapshotTrue
<1>. QED
  BY <1>1, <1>2, <1>5, GroupVouched

\* Both ways a group lookup is answered.
LEMMA GroupsVouched ==
  ASSUME TypeInv, TruthInv, NEW x \in Tasks, EnsureFresh(x) \/ Await(x)
  PROVE  Vouched'
<1>1. Active(x) /\ job[x].kind = "group" /\ job[x].t \in Tenants
  BY EnsureFreshDoes, AwaitDoes, Asked
<1>2. Inside
  BY StillInside DEF EnsureFresh, Await, OnlyAsk
<1>3. /\ snapshot[job[x].t] \in Snapshot \cup {None}
      /\ snapshot[job[x].t] # None => SnapshotTrue(Moment, snapshot[job[x].t], job[x].t)
      /\ mem[x].snap \in Snapshot \cup {None}
      /\ mem[x].snap # None => SnapshotTrue(Moment, mem[x].snap, job[x].t)
  BY <1>1, StoreTrue, InHandTrue, Asked DEF TypeInv, TypeOK
<1>4. PICK s \in {snapshot[job[x].t], mem[x].snap, None} :
        \/ Goes(x, "await", mem[x].ws, s, mem[x].standing, mem[x].groups)
        \/ Ends(x, GroupAnswer(x, s))
  BY EnsureFreshDoes, AwaitDoes
<1>5. CASE Goes(x, "await", mem[x].ws, s, mem[x].standing, mem[x].groups)
  BY <1>5, NoAnswer DEF Goes
<1>6. CASE Ends(x, GroupAnswer(x, s))
  <2>1. answer' = GroupAnswer(x, s)
    BY <1>6 DEF Ends
  <2>2. s \in Snapshot \cup {None} /\ (s # None => SnapshotTrue(Moment, s, job[x].t))
    BY <1>3, <1>4
  <2>. QED
    BY <1>1, <1>2, <2>1, <2>2, GroupAnswerTrue
<1>. QED
  BY <1>4, <1>5, <1>6

\* Every step of a request: the others answer nothing.
LEMMA StepVouched ==
  ASSUME TypeInv, TruthInv, NEW x \in Tasks, Step(x)
  PROVE  Vouched'
<1>1. CASE Look(x) \/ LiveFails(x) \/ Patch(x) \/ EnsureFresh(x) \/ Await(x)
  BY <1>1, LookVouched, LiveFailsVouches, PatchVouched, GroupsVouched
<1>2. CASE \/ LiveAccount(x) \/ LiveGroups(x) \/ CheckSynced(x) \/ StoreChoice(x)
           \/ NarrowRead(x) \/ NarrowPut(x) \/ ProbeAsk(x) \/ ProbeStore(x)
  <2>1. answer' = None
    BY <1>2 DEF LiveAccount, LiveGroups, CheckSynced, StoreChoice, NarrowRead, NarrowPut, ProbeAsk,
                ProbeStore, Go, Finish
  <2>. QED
    BY <2>1, NoAnswer
<1>3. CASE \/ AdoptSave(x) \/ AdoptExisting(x) \/ AdoptStore(x) \/ Revoke(x)
           \/ DropSnapshot(x) \/ DropCredential(x) \/ DropRecord(x) \/ Abandon(x)
  <2>1. answer' = None
    BY <1>3 DEF AdoptSave, AdoptExisting, AdoptStore, Revoke, DropSnapshot, DropCredential,
                DropRecord, Abandon, Go, Finish
  <2>. QED
    BY <2>1, NoAnswer
<1>. QED
  BY <1>1, <1>2, <1>3 DEF Step

\* Every step.
LEMMA VouchedStep ==
  ASSUME TypeInv, TruthInv, Vouched, [Next]_vars
  PROVE  Vouched'
<1>1. CASE Next
  <2>1. CASE \E x \in Tasks : Step(x)
    BY <2>1, StepVouched
  <2>2. CASE \E x \in Tasks : Arrive(x)
    <3>1. PICK x \in Tasks, r \in Replicas :
            \/ \E demand \in BOOLEAN : \/ \E e \in Emails : AskPoint(x, r, e, demand)
                                       \/ \E g \in Groups : AskGroup(x, r, g, demand)
            \/ \E t \in Tenants : ProbeOne(x, r, t)
            \/ \E t \in Tenants :
                 \/ \E new \in ServeChoices : Choose(x, r, t, "served", new)
                 \/ \E new \in SyncChoices : Choose(x, r, t, "synced", new)
                 \/ Adopt(x, r, t) \/ Disconnect(x, r, t)
      BY <2>2 DEF Arrive
    <3>2. \A e, demand : AskPoint(x, r, e, demand) => answer' = None
      BY DEF AskPoint, Begin
    <3>3. \A g, demand : AskGroup(x, r, g, demand) => answer' = None
      BY DEF AskGroup, Begin
    <3>4. \A t, kind, new : Choose(x, r, t, kind, new) => answer' = None
      BY DEF Choose, Begin
    <3>5. \A t : ProbeOne(x, r, t) \/ Adopt(x, r, t) \/ Disconnect(x, r, t) => answer' = None
      BY DEF ProbeOne, Adopt, Disconnect, Begin
    <3>. QED
      BY <3>1, <3>2, <3>3, <3>4, <3>5, NoAnswer
  <2>3. CASE \E r \in Replicas :
               \/ Restart(r) \/ StartStore(r)
               \/ \E t \in Tenants : StartAdopt(r, t) \/ StartReopen(r, t) \/ FlightStep(r, t)
    <3>1. /\ \A r : Restart(r) \/ StartStore(r) => answer' = None
          /\ \A r, t : StartAdopt(r, t) \/ StartReopen(r, t) => answer' = None
      BY DEF Restart, Event, StartStore, StartAdopt, StartReopen, StartOnly
    <3>2. ASSUME NEW r, NEW t, FlightStep(r, t) PROVE FlightOnly
      <4>1. Refresh(r, t) \/ FlightOpen(r, t) \/ FlightRecord(r, t) => FlightOnly
        BY DEF Refresh, FlightOpen, FlightRecord
      <4>2. FlightAccounts(r, t) \/ FlightGroups(r, t) => FlightOnly
        BY DEF FlightAccounts, FlightGroups
      <4>3. FlightPut(r, t) \/ FlightFails(r, t) => FlightOnly
        BY DEF FlightPut, FlightFails
      <4>. QED
        BY <3>2, <4>1, <4>2, <4>3 DEF FlightStep
    <3>3. FlightOnly => answer' = None
      BY DEF FlightOnly
    <3>. QED
      BY <2>3, <3>1, <3>2, <3>3, NoAnswer
  <2>4. CASE \/ \E e \in Emails : \/ \E st \in Standing : SetStanding(e, st)
                                  \/ \E g \in Groups : SetMember(g, e)
             \/ \E d \in Domains, o \in Tenants : MoveDomain(d, o)
             \/ Tick
    <3>1. answer' = None
      BY <2>4 DEF SetStanding, SetMember, MoveDomain, Event, Tick
    <3>. QED
      BY <3>1, NoAnswer
  <2>. QED
    BY <1>1, <2>1, <2>2, <2>3, <2>4 DEF Next
<1>2. CASE UNCHANGED vars
  <2>1. UNCHANGED <<answer, standing, last, moved, steady>>
    BY <1>2 DEF vars, world, history
  <2>. QED
    BY <2>1 DEF Vouched, AbsenceTrue, StandingFresh, GroupsWhole, Answers, Held, Steady
<1>. QED
  BY <1>1, <1>2

\* What the hub holds and vouches for is true in every state.
LEMMA AllTrue == Spec => [](TypeInv /\ TruthInv /\ Vouched)
<1>1. Init => TypeInv /\ TruthInv /\ Vouched
  <2>1. Init => Vouched
    BY DEF Init, Vouched, AbsenceTrue, StandingFresh, GroupsWhole, Answers
  <2>. QED
    BY <2>1, TypeInit, TruthInit
<1>2. TypeInv /\ TruthInv /\ Vouched /\ [Next]_vars => (TypeInv /\ TruthInv /\ Vouched)'
  BY TypeStep, TruthStep, VouchedStep
<1>. QED
  BY <1>1, <1>2, PTL DEF Spec

\* A "not found" the hub vouches for was so at some moment of the call, or the domain has
\* changed hands since the probe the routing rests on, whatever reads and writes of the
\* other requests and replicas came between; of an address the snapshot has for a group's,
\* at some moment of the freshness window before (point, pointLive, isGroup, authoritative).
THEOREM AbsencesTrue == Spec => []AbsenceTrue
<1>1. Vouched => AbsenceTrue
  BY DEF Vouched
<1>. QED
  BY <1>1, AllTrue, PTL

\* A standing the hub vouches for is one the account had since the freshness window, and
\* the time of a full read, before the question (authoritative, patchAccount, narrow,
\* Refresh).
THEOREM StandingsFresh == Spec => []StandingFresh
<1>1. Vouched => StandingFresh
  BY DEF Vouched
<1>. QED
  BY <1>1, AllTrue, PTL

\* A group the hub vouches for, and that came with a full read, lists everyone who has
\* been in it all along (Group, patchAccount, narrow).
THEOREM GroupsAreWhole == Spec => []GroupsWhole
<1>1. Vouched => GroupsWhole
  BY DEF Vouched
<1>. QED
  BY <1>1, AllTrue, PTL

-----------------------------------------------------------------------------
(* What was decided stays decided.                                         *)

\* The parts of a tenant's view, in this state and in the next.
LEMMA ViewIs ==
  ASSUME NEW t
  PROVE  /\ View(t).record = record[t] /\ View(t).snapshot = snapshot[t]
         /\ View(t).choice = choice[t] /\ View(t).owed = Owed(t)
         /\ View(t)'.record = record'[t] /\ View(t)'.snapshot = snapshot'[t]
         /\ View(t)'.choice = choice'[t] /\ View(t)'.owed = Owed(t)'
BY DEF View

\* A view that allows all that another did.
Near(v, w) ==
  /\ w.choice = v.choice
  /\ w.record = None <=> v.record = None
  /\ w.snapshot = None <=> v.snapshot = None
  /\ v.snapshot = None \/ v.owed \subseteq w.owed

\* What is in hand obeys the one if it obeyed the other.
LEMMA NearObeys ==
  ASSUME NEW v, NEW w, Near(v, w)
  PROVE  /\ \A s : v.snapshot # None /\ Obeys(v, s) => Obeys(w, s)
         /\ \A p, j, m : RequestObeys(v, p, j, m) => RequestObeys(w, p, j, m)
         /\ \A f : FlightObeys(v, f) => FlightObeys(w, f)
<1>1. \A s : v.snapshot # None /\ Obeys(v, s) => Obeys(w, s)
  BY DEF Near, Obeys
<1>2. ASSUME NEW p, NEW j, NEW m, RequestObeys(v, p, j, m) PROVE RequestObeys(w, p, j, m)
  BY <1>1, <1>2 DEF Near, RequestObeys
<1>3. \A f : FlightObeys(v, f) => FlightObeys(w, f)
  BY DEF Near, FlightObeys
<1>. QED
  BY <1>1, <1>2, <1>3

\* What is owed, as who owes it.
LEMMA OwedIs ==
  /\ \A t, k : k \in Owed(t) <=> \E x \in Tasks : Narrowing(x, t) /\ job[x].kind = k
  /\ \A t, k : k \in Owed(t)' <=> \E x \in Tasks : Narrowing(x, t)' /\ job'[x].kind = k
BY DEF Owed

\* A request that moves owes what it did, unless it was about to narrow.
LEMMA MovesOwed ==
  ASSUME TypeInv, NEW x \in Tasks, Moves(x), NEW t,
         ~Narrowing(x, t) \/ (pc'[x] \in {"narrow", "narrowed"} /\ job'[x] = job[x])
  PROVE  Owed(t) \subseteq Owed(t)'
<1>1. SUFFICES ASSUME NEW k, NEW y \in Tasks, Narrowing(y, t), job[y].kind = k
               PROVE  Narrowing(y, t)' /\ job'[y].kind = k
  BY OwedIs
<1>2. CASE y = x
  BY <1>1, <1>2 DEF Narrowing
<1>3. CASE y # x
  BY <1>1, <1>3, MovesOthers DEF Narrowing
<1>. QED
  BY <1>2, <1>3

\* Only an operator's choice is owed.
LEMMA NarrowingIs ==
  ASSUME TypeInv, NEW x \in Tasks, NEW t, Narrowing(x, t)
  PROVE  Active(x) /\ job[x].kind \in {"served", "synced"} /\ job[x].t = t
<1>1. Active(x)
  BY DEF Narrowing, Active
<1>2. pc[x] \in PcsOf(job[x].kind) /\ job[x].kind \in Kinds
  BY <1>1, ActivePlaced DEF Placed
<1>. QED
  BY <1>1, <1>2, Places DEF Kinds, Narrowing

\* A step that leaves the view as it allows: what goes on obeys it.
LEMMA NearStep ==
  ASSUME TypeInv, NEW t \in Tenants, Obedient(t), Near(View(t), View(t)'),
         record'[t] = None \/ As(record'[t], choice[t]),
         snapshot'[t] = None \/ snapshot'[t] = snapshot[t] \/ Obeys(View(t), snapshot'[t]),
         \A r \in Replicas : \/ flight'[r][t] = flight[r][t]
                             \/ FlightObeys(View(t), flight'[r][t]),
         \A x \in Tasks : \/ pc'[x] = pc[x] /\ job'[x] = job[x] /\ mem'[x] = mem[x]
                          \/ job'[x].t # t
                          \/ RequestObeys(View(t), pc'[x], job'[x], mem'[x])
  PROVE  Obedient(t)'
<1>1. PICK v : v = View(t)
  OBVIOUS
<1>2. PICK w : w = View(t)'
  OBVIOUS
<1>3. /\ v.record = record[t] /\ v.snapshot = snapshot[t] /\ v.choice = choice[t]
      /\ w.record = record'[t] /\ w.snapshot = snapshot'[t] /\ w.choice = choice'[t]
  BY <1>1, <1>2, ViewIs
<1>4. Near(v, w)
  BY <1>1, <1>2
<1>5. record'[t] # None => As(record'[t], choice'[t])
  BY <1>3, <1>4 DEF Near
<1>6. record'[t] = None => snapshot'[t] = None
  BY <1>3, <1>4 DEF Near, Obedient
<1>7. snapshot'[t] # None => Obeys(w, snapshot'[t])
  <2>1. SUFFICES ASSUME snapshot'[t] # None PROVE Obeys(w, snapshot'[t])
    OBVIOUS
  <2>2. v.snapshot # None
    BY <1>3, <1>4, <2>1 DEF Near
  <2>3. Obeys(v, snapshot'[t])
    BY <1>1, <1>3, <2>1, <2>2 DEF Obedient
  <2>. QED
    BY <1>4, <2>2, <2>3, NearObeys
<1>8. ASSUME NEW r \in Replicas PROVE FlightObeys(w, flight'[r][t])
  <2>1. FlightObeys(v, flight'[r][t])
    BY <1>1 DEF Obedient
  <2>. QED
    BY <1>4, <2>1, NearObeys
<1>9. ASSUME NEW x \in Tasks, Active(x)', job'[x].t = t
      PROVE  RequestObeys(w, pc'[x], job'[x], mem'[x])
  <2>1. RequestObeys(v, pc'[x], job'[x], mem'[x])
    <3>1. CASE pc'[x] = pc[x] /\ job'[x] = job[x] /\ mem'[x] = mem[x]
      <4>1. Active(x) /\ job[x].t = t
        BY <1>9, <3>1 DEF Active
      <4>. QED
        BY <1>1, <3>1, <4>1 DEF Obedient
    <3>. QED
      BY <1>1, <1>9, <3>1
  <2>. QED
    BY <1>4, <2>1, NearObeys
<1>. QED
  BY <1>2, <1>5, <1>6, <1>7, <1>8, <1>9 DEF Obedient

\* A step of a request about another tenant.
LEMMA ElsewhereObeys ==
  ASSUME TypeInv, NEW x \in Tasks, Moves(x), NEW t \in Tenants, Obedient(t),
         job[x].t # t, job'[x].t # t,
         record'[t] = record[t], snapshot'[t] = snapshot[t], choice'[t] = choice[t],
         \A r \in Replicas : flight'[r][t] = flight[r][t] \/ flight'[r][t].pc = "open"
  PROVE  Obedient(t)'
<1>1. Owed(t) \subseteq Owed(t)'
  BY MovesOwed DEF Narrowing
<1>2. Near(View(t), View(t)')
  BY <1>1, ViewIs DEF Near
<1>3. \A r \in Replicas : flight'[r][t] = flight[r][t] \/ FlightObeys(View(t), flight'[r][t])
  BY DEF FlightObeys
<1>4. \A y \in Tasks : \/ pc'[y] = pc[y] /\ job'[y] = job[y] /\ mem'[y] = mem[y]
                       \/ job'[y].t # t
  BY MovesOthers
<1>5. record'[t] = None \/ As(record'[t], choice[t])
  BY DEF Obedient
<1>. QED
  BY <1>2, <1>3, <1>4, <1>5, NearStep

\* A step of a request that writes nothing the view tells apart.
LEMMA HereObeys ==
  ASSUME TypeInv, NEW x \in Tasks, Moves(x), NEW t \in Tenants, Obedient(t),
         record'[t] = record[t], snapshot'[t] = snapshot[t], choice'[t] = choice[t],
         ~Narrowing(x, t) \/ (pc'[x] \in {"narrow", "narrowed"} /\ job'[x] = job[x]),
         \A r \in Replicas : flight'[r][t] = flight[r][t] \/ flight'[r][t].pc = "open",
         job'[x].t # t \/ RequestObeys(View(t), pc'[x], job'[x], mem'[x])
  PROVE  Obedient(t)'
<1>1. Owed(t) \subseteq Owed(t)'
  BY MovesOwed
<1>2. Near(View(t), View(t)')
  BY <1>1, ViewIs DEF Near
<1>3. \A r \in Replicas : flight'[r][t] = flight[r][t] \/ FlightObeys(View(t), flight'[r][t])
  BY DEF FlightObeys
<1>4. \A y \in Tasks : \/ pc'[y] = pc[y] /\ job'[y] = job[y] /\ mem'[y] = mem[y]
                       \/ job'[y].t # t
                       \/ RequestObeys(View(t), pc'[y], job'[y], mem'[y])
  BY MovesOthers
<1>5. record'[t] = None \/ As(record'[t], choice[t])
  BY DEF Obedient
<1>. QED
  BY <1>2, <1>3, <1>4, <1>5, NearStep

\* What a request has in hand obeys.
LEMMA InHandObeys ==
  ASSUME TypeInv, NEW x \in Tasks, Active(x), NEW t \in Tenants, t = job[x].t, Obedient(t)
  PROVE  RequestObeys(View(t), pc[x], job[x], mem[x])
BY DEF Obedient

\* A request that has not begun, or is done, is about no tenant.
LEMMA AboutNone ==
  ASSUME TypeInv, NEW x \in Tasks
  PROVE  /\ NoJob.t = None
         /\ pc[x] \in {"idle", "done"} => job[x].t = None
         /\ \A t \in Tenants : t # None
<1>1. Active(x) <=> job[x] # NoJob
  BY DEF TypeInv, TypeOK
<1>2. NoJob.t = None
  BY DEF NoJob
<1>. QED
  BY <1>1, <1>2, Nothing DEF Active

\* A request that ends leaves a tenant as it was, if it owed nothing.
LEMMA EndsObeys ==
  ASSUME TypeInv, NEW x \in Tasks, NEW a, Ends(x, a), NEW t \in Tenants, Obedient(t),
         ~Narrowing(x, t),
         record'[t] = record[t], snapshot'[t] = snapshot[t], choice'[t] = choice[t],
         \A r \in Replicas : flight'[r][t] = flight[r][t] \/ flight'[r][t].pc = "open"
  PROVE  Obedient(t)'
<1>1. Moves(x) /\ job'[x].t # t
  BY AboutNone DEF Ends
<1>. QED
  BY <1>1, HereObeys

\* A request that begins with what was decided.
LEMMA StartsObeys ==
  ASSUME TypeInv, NEW x \in Tasks, NEW kind, NEW u, NEW arg, NEW p, NEW ws,
         Starts(x, kind, u, arg, p, ws),
         p \in {"look", "fresh", "check", "store", "probe", "save", "revoke"},
         UNCHANGED <<record, snapshot, choice, flight>>,
         NEW t \in Tenants, Obedient(t),
         u = t =>
           /\ kind = "point" /\ choice[t].serve # {} => Home[arg] \in choice[t].serve
           /\ kind = "served" => ws.serve \subseteq ws.domains /\ ws.sync = choice[t].sync
           /\ kind = "synced" => ws.serve = choice[t].serve
           /\ kind = "probe" => As(ws, choice[t]) /\ record[t] # None
  PROVE  Obedient(t)'
<1>1. /\ Moves(x) /\ pc[x] = "idle" /\ pc'[x] = p
      /\ job'[x].kind = kind /\ job'[x].t = u /\ job'[x].arg = arg
      /\ mem'[x].ws = ws /\ mem'[x].snap = None
  BY DEF Starts
<1>2. job[x].t # t /\ ~Narrowing(x, t)
  BY <1>1, AboutNone DEF Narrowing
<1>3. CASE u # t
  BY <1>1, <1>2, <1>3, ElsewhereObeys
<1>4. CASE u = t
  <2>1. RequestObeys(View(t), pc'[x], job'[x], mem'[x])
    BY <1>1, <1>4, ViewIs DEF RequestObeys
  <2>. QED
    BY <1>1, <1>2, <2>1, HereObeys
<1>. QED
  BY <1>3, <1>4

\* Requests begin with the record, which is as was decided.
LEMMA ArriveObeys ==
  ASSUME TypeInv, NEW x \in Tasks, Arrive(x), NEW t \in Tenants, Obedient(t)
  PROVE  Obedient(t)'
<1>1. PICK r \in Replicas :
        \/ \E demand \in BOOLEAN : \/ \E e \in Emails : AskPoint(x, r, e, demand)
                                   \/ \E g \in Groups : AskGroup(x, r, g, demand)
        \/ \E u \in Tenants : ProbeOne(x, r, u)
        \/ \E u \in Tenants :
             \/ \E new \in ServeChoices : Choose(x, r, u, "served", new)
             \/ \E new \in SyncChoices : Choose(x, r, u, "synced", new)
             \/ Adopt(x, r, u) \/ Disconnect(x, r, u)
  BY DEF Arrive
<1>2. ServeChoices \subseteq ArgsOf("served") /\ SyncChoices \subseteq ArgsOf("synced")
  BY HubAssumption, Places
<1>3. record[t] \in Record => As(record[t], choice[t]) /\ record[t] # None
  BY Nothing DEF Obedient
<1>4. ASSUME NEW demand \in BOOLEAN, NEW e \in Emails, AskPoint(x, r, e, demand)
      PROVE  Obedient(t)'
  <2>1. PICK u \in Tenants : /\ record[u] \in Record /\ Home[e] \in Served(record[u])
                             /\ Starts(x, "point", u, e, "look", record[u])
    BY <1>4, AskPointDoes
  <2>2. UNCHANGED <<record, snapshot, choice, flight>>
    BY <1>4 DEF AskPoint, OnlyAsk
  <2>3. u = t /\ choice[t].serve # {} => Home[e] \in choice[t].serve
    BY <1>3, <2>1 DEF As, Served
  <2>. QED
    BY <2>1, <2>2, <2>3, StartsObeys
<1>5. ASSUME NEW demand \in BOOLEAN, NEW g \in Groups, AskGroup(x, r, g, demand)
      PROVE  Obedient(t)'
  <2>1. PICK u \in Tenants : Starts(x, "group", u, g, "fresh", record[u])
    BY <1>5, AskGroupDoes
  <2>2. UNCHANGED <<record, snapshot, choice, flight>>
    BY <1>5 DEF AskGroup, OnlyAsk
  <2>. QED
    BY <2>1, <2>2, StartsObeys
<1>6. ASSUME NEW u \in Tenants, ProbeOne(x, r, u) PROVE Obedient(t)'
  <2>1. record[u] \in Record /\ Starts(x, "probe", u, None, "probe", record[u])
    BY <1>6, ProbeOneDoes
  <2>2. UNCHANGED <<record, snapshot, choice, flight>>
    BY <1>6 DEF ProbeOne, OnlyAsk
  <2>. QED
    BY <1>3, <2>1, <2>2, StartsObeys
<1>7. ASSUME NEW u \in Tenants, Adopt(x, r, u) PROVE Obedient(t)'
  <2>1. PICK ws \in Record : Starts(x, "adopt", u, None, "save", ws)
    BY <1>7, AdoptDoes
  <2>2. UNCHANGED <<record, snapshot, choice, flight>>
    BY <1>7 DEF Adopt
  <2>. QED
    BY <2>1, <2>2, StartsObeys
<1>8. ASSUME NEW u \in Tenants, Disconnect(x, r, u) PROVE Obedient(t)'
  <2>1. Starts(x, "disconnect", u, None, "revoke", None)
    BY <1>8, DisconnectDoes
  <2>2. UNCHANGED <<record, snapshot, choice, flight>>
    BY <1>8 DEF Disconnect, OnlyAsk
  <2>. QED
    BY <2>1, <2>2, StartsObeys
<1>9. ASSUME NEW u \in Tenants, NEW kind \in {"served", "synced"}, NEW new \in ArgsOf(kind),
             Choose(x, r, u, kind, new)
      PROVE  Obedient(t)'
  <2>1. PICK ws \in Record, p \in {"check", "store"} :
          /\ record[u] \in Record /\ Starts(x, kind, u, new, p, ws)
          /\ ws.domains = record[u].domains
          /\ kind = "served" => /\ ws.serve = new /\ ws.sync = record[u].sync
                                /\ new \subseteq record[u].domains
          /\ kind = "synced" => ws.sync = new /\ ws.serve = record[u].serve
    BY <1>9, ChooseDoes
  <2>2. UNCHANGED <<record, snapshot, choice, flight>>
    BY <1>9 DEF Choose, OnlyAsk
  <2>3. u = t => /\ kind = "served" => ws.serve \subseteq ws.domains /\ ws.sync = choice[t].sync
                 /\ kind = "synced" => ws.serve = choice[t].serve
    BY <1>3, <2>1 DEF As
  <2>. QED
    BY <2>1, <2>2, <2>3, StartsObeys
<1>. QED
  BY <1>1, <1>2, <1>4, <1>5, <1>6, <1>7, <1>8, <1>9

\* Lookups that go on: the snapshot they take in hand is the stored one.
LEMMA LookupObeys ==
  ASSUME TypeInv, NEW x \in Tasks, NEW t \in Tenants, t = job[x].t, Obedient(t),
         Look(x) \/ LiveAccount(x) \/ LiveGroups(x) \/ LiveFails(x) \/ EnsureFresh(x) \/ Await(x)
  PROVE  Obedient(t)'
<1>1. Active(x) /\ job[x].kind \in {"point", "group"}
  <2>1. Active(x) /\ pc[x] \in {"look", "live", "memberships", "fresh", "await"}
    BY DEF Look, LiveAccount, LiveGroups, LiveFails, EnsureFresh, Await, At, Active
  <2>2. pc[x] \in PcsOf(job[x].kind) /\ job[x].kind \in Kinds
    BY <2>1, ActivePlaced DEF Placed
  <2>. QED
    BY <2>1, <2>2, Places DEF Kinds
<1>2. ~Narrowing(x, t)
  BY <1>1, NarrowingIs
<1>3. RequestObeys(View(t), pc[x], job[x], mem[x])
  BY <1>1, InHandObeys
<1>4. /\ record' = record /\ snapshot' = snapshot /\ choice' = choice
      /\ \A r \in Replicas : flight'[r][t] = flight[r][t] \/ flight'[r][t].pc = "open"
  BY EnsureFreshDoes DEF Look, LiveAccount, LiveGroups, LiveFails, EnsureFresh, Await, OnlyAsk
<1>5. \/ \E a : Ends(x, a)
      \/ \E ws, st, gs : /\ job[x].kind = "point"
                         /\ Goes(x, "live", ws, snapshot[t], st, gs) \/ Goes(x, "live", ws, None, st, gs)
      \/ \E ws, s, st, gs : Goes(x, "await", ws, s, st, gs) /\ job[x].kind = "group"
      \/ \E p \in {"patch", "memberships"} : \E ws, st, gs :
           Goes(x, p, ws, mem[x].snap, st, gs) /\ job[x].kind = "point"
  <2>1. CASE Look(x)
    BY <2>1, LookDoes
  <2>2. CASE LiveAccount(x)
    <3>1. PICK st \in Standing :
            Goes(x, IF st = "none" THEN "patch" ELSE "memberships",
                 mem[x].ws, mem[x].snap, st, mem[x].groups)
      BY <2>2, LiveAccountDoes
    <3>2. PICK p : p = IF st = "none" THEN "patch" ELSE "memberships"
      OBVIOUS
    <3>3. p \in {"patch", "memberships"} /\ Goes(x, p, mem[x].ws, mem[x].snap, st, mem[x].groups)
      BY <3>1, <3>2
    <3>4. job[x].kind = "point"
      BY <2>2, LiveAccountDoes
    <3>. QED
      BY <3>3, <3>4
  <2>3. CASE LiveGroups(x)
    BY <2>3, LiveGroupsDoes
  <2>4. CASE LiveFails(x) \/ Await(x)
    BY <2>4, LiveFailsDoes, AwaitDoes
  <2>5. CASE EnsureFresh(x)
    BY <2>5, EnsureFreshDoes
  <2>. QED
    BY <2>1, <2>2, <2>3, <2>4, <2>5
<1>6. CASE \E a : Ends(x, a)
  BY <1>2, <1>4, <1>6, EndsObeys
<1>7. ASSUME NEW p \in {"live", "patch", "memberships", "await"}, NEW ws, NEW s, NEW st, NEW gs,
             Goes(x, p, ws, s, st, gs), job[x].kind = "group" \/ s \in {mem[x].snap, snapshot[t], None},
             (job[x].kind = "group") <=> p = "await"
      PROVE  Obedient(t)'
  <2>1. /\ Moves(x) /\ pc'[x] = p /\ job'[x] = job[x] /\ mem'[x].snap = s
    BY <1>7 DEF Goes
  <2>2. CASE job[x].kind = "group"
    <3>1. RequestObeys(View(t), pc'[x], job'[x], mem'[x])
      BY <1>7, <2>1, <2>2 DEF RequestObeys
    <3>. QED
      BY <1>2, <1>4, <2>1, <3>1, HereObeys
  <2>3. CASE job[x].kind = "point"
    <3>1. snapshot[t] # None => Obeys(View(t), snapshot[t])
      BY DEF Obedient
    <3>2. s # None => View(t).snapshot # None /\ Obeys(View(t), s)
      BY <1>3, <1>7, <2>3, <3>1, ViewIs DEF RequestObeys
    <3>3. View(t).choice.serve # {} => Home[job[x].arg] \in View(t).choice.serve
      BY <1>3, <2>3 DEF RequestObeys
    <3>4. RequestObeys(View(t), pc'[x], job'[x], mem'[x])
      BY <1>7, <2>1, <2>3, <3>2, <3>3 DEF RequestObeys
    <3>. QED
      BY <1>2, <1>4, <2>1, <3>4, HereObeys
  <2>. QED
    BY <1>1, <2>2, <2>3
<1>. QED
  BY <1>5, <1>6, <1>7

\* restrict and patchAccount bring nothing back.
LEMMA RestrictObeys ==
  ASSUME NEW s \in Snapshot, NEW serve \in SUBSET Domains, NEW sync \in SUBSET Groups, NEW n,
         n = restrict(s, serve, sync), NEW c
  PROVE  /\ OnlyServed(s, c) => OnlyServed(n, c)
         /\ OnlySynced(s, c) => OnlySynced(n, c)
         /\ c.serve # {} /\ serve = c.serve => OnlyServed(n, c)
         /\ sync = c.sync => OnlySynced(n, c)
<1>1. /\ \A e \in Emails : n.accounts[e] # "none" =>
           n.accounts[e] = s.accounts[e] /\ (serve = {} \/ Home[e] \in serve)
      /\ n.kept \subseteq s.kept
      /\ sync # {} => n.kept \subseteq sync
      /\ n.made = s.made \cap n.kept
  <2>. DEFINE k == restrict(s, serve, sync)
  <2>1. /\ k \in Snapshot
        /\ k.at = s.at
        /\ \A e \in Emails : k.accounts[e] # "none" =>
             k.accounts[e] = s.accounts[e] /\ (serve = {} \/ Home[e] \in serve)
        /\ k.kept \subseteq s.kept
        /\ sync # {} => k.kept \subseteq sync
        /\ k.made = s.made \cap k.kept
        /\ \A g \in k.kept : k.members[g] = s.members[g]
    BY RestrictIs, Zenon
  <2>2. n = k
    OBVIOUS
  <2>. HIDE DEF k
  <2>. QED
    BY <2>1, <2>2
<1>2. OnlyServed(s, c) => OnlyServed(n, c)
  BY <1>1 DEF OnlyServed
<1>3. OnlySynced(s, c) => OnlySynced(n, c)
  BY <1>1 DEF OnlySynced
<1>4. c.serve # {} /\ serve = c.serve => OnlyServed(n, c)
  BY <1>1 DEF OnlyServed
<1>5. sync = c.sync => OnlySynced(n, c)
  BY <1>1 DEF OnlySynced
<1>. QED
  BY <1>2, <1>3, <1>4, <1>5

\* A patch is of an account that is served.
LEMMA PatchObeys ==
  ASSUME TypeInv, NEW x \in Tasks, NEW t \in Tenants, t = job[x].t, Obedient(t), Patch(x)
  PROVE  Obedient(t)'
<1>1. /\ pc[x] = "patch" /\ job[x].kind = "point" /\ Active(x)
      /\ Ends(x, PointAnswer(x, mem[x].standing, ~mem[x].conflict /\ mem[x].ws.ok))
  BY PatchDoes DEF Ends
<1>2. PICK a : Ends(x, a)
  BY <1>1
<1>3. ~Narrowing(x, t) /\ Moves(x) /\ job'[x].t # t
  BY <1>1, <1>2, AboutNone DEF Narrowing, Ends
<1>4. record' = record /\ choice' = choice /\ flight' = flight
  BY DEF Patch
<1>5. CASE UNCHANGED snapshot
  BY <1>2, <1>3, <1>4, <1>5, EndsObeys
<1>6. CASE ~UNCHANGED snapshot
  <2>1. PICK n \in Snapshot :
          /\ mem[x].snap \in Snapshot
          /\ n = Patched(mem[x].snap, job[x].arg, mem[x].standing, mem[x].groups)
          /\ \A u \in Tenants : snapshot'[u] = IF u = job[x].t THEN n ELSE snapshot[u]
    BY <1>6, PatchDoes
  <2>2. PICK s : s = mem[x].snap
    OBVIOUS
  <2>3. PICK e : e = job[x].arg
    OBVIOUS
  <2>4. PICK in : in = IF mem[x].standing = "none" THEN {} ELSE mem[x].groups
    OBVIOUS
  <2>5. e \in Emails /\ mem[x].standing \in Standing /\ mem[x].groups \subseteq Groups
    BY <1>1, <2>3, Asked
  <2>6. /\ \A f \in Emails : n.accounts[f] = IF f = e THEN mem[x].standing ELSE s.accounts[f]
        /\ n.kept = s.kept \cup in
        /\ n.made = s.made \cup (in \ s.kept)
    BY <2>1, <2>2, <2>3, <2>4, <2>5, PatchedIs
  <2>7. RequestObeys(View(t), pc[x], job[x], mem[x])
    BY <1>1, InHandObeys
  <2>8. View(t).snapshot # None /\ Obeys(View(t), s)
    BY <1>1, <2>1, <2>2, <2>7, Nothing DEF RequestObeys
  <2>9. View(t).choice.serve # {} => Home[e] \in View(t).choice.serve
    BY <1>1, <2>3, <2>7 DEF RequestObeys
  <2>10. Obeys(View(t), n)
    <3>1. OnlyServed(s, View(t).choice) => OnlyServed(n, View(t).choice)
      BY <2>6, <2>9 DEF OnlyServed
    <3>2. OnlySynced(s, View(t).choice) => OnlySynced(n, View(t).choice)
      BY <2>6 DEF OnlySynced
    <3>. QED
      BY <2>8, <3>1, <3>2 DEF Obeys
  <2>11. snapshot'[t] = n /\ n # None
    BY <2>1, Nothing
  <2>12. Owed(t) \subseteq Owed(t)'
    BY <1>3, MovesOwed
  <2>13. Near(View(t), View(t)')
    BY <1>4, <2>8, <2>11, <2>12, ViewIs DEF Near
  <2>14. record'[t] = None \/ As(record'[t], choice[t])
    BY <1>4 DEF Obedient
  <2>15. \A y \in Tasks : \/ pc'[y] = pc[y] /\ job'[y] = job[y] /\ mem'[y] = mem[y]
                          \/ job'[y].t # t
    BY <1>3, MovesOthers
  <2>. QED
    BY <1>4, <2>10, <2>11, <2>13, <2>14, <2>15, NearStep
<1>. QED
  BY <1>5, <1>6

\* Where nobody has the record in hand, what goes on obeys whatever is decided.
LEMMA AloneObeys ==
  ASSUME TypeInv, NEW t \in Tenants, NEW rs, rs \subseteq Replicas, NEW xs, xs \subseteq Tasks,
         ~InHandOf(t, rs, xs), NEW v
  PROVE  /\ \A r \in rs : FlightObeys(v, flight[r][t])
         /\ \A y \in xs : Active(y) /\ job[y].t = t =>
              ~Narrowing(y, t) /\ RequestObeys(v, pc[y], job[y], mem[y])
<1>1. \A r \in rs : flight[r][t].pc \notin {"accounts", "groups", "put"}
  BY DEF InHandOf
<1>2. \A r \in rs : FlightObeys(v, flight[r][t])
  BY <1>1 DEF FlightObeys
<1>3. ASSUME NEW y \in xs, Active(y), job[y].t = t
      PROVE  ~Narrowing(y, t) /\ RequestObeys(v, pc[y], job[y], mem[y])
  <2>1. y \in Tasks /\ job[y].kind = "group"
    BY <1>3 DEF InHandOf
  <2>2. pc[y] \in {"fresh", "await"}
    BY <1>3, <2>1, ActivePlaced, Places DEF Placed
  <2>. QED
    BY <2>1, <2>2 DEF RequestObeys, Narrowing
<1>. QED
  BY <1>2, <1>3

\* A write of the record that crosses nobody: the record, the snapshot and the request are
\* all there is to see to.
LEMMA AloneStep ==
  ASSUME TypeInv, NEW x \in Tasks, Moves(x), NEW t \in Tenants, ~RecordInHand(x, t),
         \A r \in Replicas : flight'[r][t] = flight[r][t] \/ flight'[r][t].pc = "open",
         record'[t] # None => As(record'[t], choice'[t]),
         record'[t] = None => snapshot'[t] = None,
         snapshot'[t] # None => Obeys(View(t)', snapshot'[t]),
         job'[x].t = t => RequestObeys(View(t)', pc'[x], job'[x], mem'[x])
  PROVE  Obedient(t)'
<1>1. PICK w : w = View(t)'
  OBVIOUS
<1>2. /\ \A r \in Replicas : FlightObeys(w, flight[r][t])
      /\ \A y \in Tasks \ {x} : Active(y) /\ job[y].t = t =>
           RequestObeys(w, pc[y], job[y], mem[y])
  <2>1. ~InHandOf(t, Replicas, Tasks \ {x})
    BY DEF RecordInHand
  <2>2. Replicas \subseteq Replicas /\ Tasks \ {x} \subseteq Tasks
    OBVIOUS
  <2>. QED
    BY <2>1, <2>2, AloneObeys
<1>3. ASSUME NEW r \in Replicas PROVE FlightObeys(w, flight'[r][t])
  <2>1. CASE flight'[r][t].pc = "open"
    BY <2>1 DEF FlightObeys
  <2>. QED
    BY <1>2, <2>1
<1>4. ASSUME NEW y \in Tasks, Active(y)', job'[y].t = t
      PROVE  RequestObeys(w, pc'[y], job'[y], mem'[y])
  <2>1. CASE y = x
    BY <1>1, <1>4, <2>1
  <2>2. CASE y # x
    <3>1. pc'[y] = pc[y] /\ job'[y] = job[y] /\ mem'[y] = mem[y]
      BY <2>2, MovesOthers
    <3>2. Active(y) /\ job[y].t = t
      BY <1>4, <3>1 DEF Active
    <3>. QED
      BY <1>2, <2>2, <3>1, <3>2
  <2>. QED
    BY <2>1, <2>2
<1>. QED
  BY <1>1, <1>3, <1>4 DEF Obedient

\* A choice is stored: the record is as decided, the narrowing is owed.
LEMMA StoreChoiceObeys ==
  ASSUME TypeInv, NEW x \in Tasks, NEW t \in Tenants, t = job[x].t, Obedient(t), t \notin mishap',
         StoreChoice(x)
  PROVE  Obedient(t)'
<1>1. /\ Active(x) /\ pc[x] = "store" /\ job[x].kind \in {"served", "synced"}
      /\ record'[t] = mem[x].ws /\ mem[x].ws \in Record
      /\ Goes(x, "narrow", mem[x].ws, mem[x].snap, mem[x].standing, mem[x].groups)
      /\ choice'[t] = [serve |-> mem[x].ws.serve, sync |-> mem[x].ws.sync]
      /\ ~RecordInHand(x, t)
  BY StoreChoiceDoes
<1>2. /\ Moves(x) /\ pc'[x] = "narrow" /\ job'[x] = job[x]
      /\ mem'[x].ws = mem[x].ws /\ mem'[x].snap = mem[x].snap
  BY <1>1 DEF Goes
<1>3. RequestObeys(View(t), pc[x], job[x], mem[x])
  BY <1>1, InHandObeys
<1>4. /\ mem[x].snap = None
      /\ job[x].kind = "served" =>
           mem[x].ws.serve \subseteq mem[x].ws.domains /\ mem[x].ws.sync = choice[t].sync
      /\ job[x].kind = "synced" => mem[x].ws.serve = choice[t].serve
  BY <1>1, <1>3, ViewIs DEF RequestObeys
<1>5. snapshot' = snapshot /\ flight' = flight
  BY DEF StoreChoice
<1>6. As(mem[x].ws, choice'[t]) /\ mem[x].ws # None
  BY <1>1, Nothing DEF As
<1>7. Owed(t) \subseteq Owed(t)' /\ job[x].kind \in Owed(t)'
  <2>1. Narrowing(x, t)' /\ ~Narrowing(x, t)
    BY <1>1, <1>2 DEF Narrowing
  <2>. QED
    BY <1>2, <2>1, MovesOwed, OwedIs
<1>8. snapshot[t] # None => Obeys(View(t)', snapshot[t])
  <2>1. SUFFICES ASSUME snapshot[t] # None PROVE Obeys(View(t)', snapshot[t])
    OBVIOUS
  <2>2. Obeys(View(t), snapshot[t])
    BY <2>1 DEF Obedient
  <2>3. CASE job[x].kind = "served"
    <3>1. choice'[t].sync = choice[t].sync
      BY <1>1, <1>4, <2>3
    <3>. QED
      BY <1>7, <2>2, <2>3, <3>1, ViewIs DEF Obeys, OnlySynced
  <2>4. CASE job[x].kind = "synced"
    <3>1. choice'[t].serve = choice[t].serve
      BY <1>1, <1>4, <2>4
    <3>. QED
      BY <1>7, <2>2, <2>4, <3>1, ViewIs DEF Obeys, OnlyServed
  <2>. QED
    BY <1>1, <2>3, <2>4
<1>9. RequestObeys(View(t)', pc'[x], job'[x], mem'[x])
  BY <1>1, <1>2, <1>4, <1>6, ViewIs DEF RequestObeys, As
<1>. QED
  BY <1>1, <1>2, <1>5, <1>6, <1>8, <1>9, AloneStep

\* The snapshot to narrow obeys as it did; where there is none, nothing is owed.
LEMMA NarrowReadObeys ==
  ASSUME TypeInv, NEW x \in Tasks, NEW t \in Tenants, t = job[x].t, Obedient(t), t \notin mishap',
         NarrowRead(x)
  PROVE  Obedient(t)'
<1>1. /\ Active(x) /\ pc[x] = "narrow" /\ job[x].kind \in {"served", "synced"}
      /\ \A q \in Replicas : flight'[q][t] = flight[q][t] \/ flight'[q][t].pc = "open"
      /\ \/ /\ snapshot[t] \in Snapshot
            /\ Goes(x, "narrowed", mem[x].ws, snapshot[t], mem[x].standing, mem[x].groups)
         \/ Ends(x, None) /\ snapshot[t] = None
  BY NarrowReadDoes
<1>2. record' = record /\ snapshot' = snapshot /\ choice' = choice
  BY DEF NarrowRead
<1>3. RequestObeys(View(t), pc[x], job[x], mem[x])
  BY <1>1, InHandObeys
<1>4. CASE /\ snapshot[t] \in Snapshot
           /\ Goes(x, "narrowed", mem[x].ws, snapshot[t], mem[x].standing, mem[x].groups)
  <2>1. /\ Moves(x) /\ pc'[x] = "narrowed" /\ job'[x] = job[x]
        /\ mem'[x].ws = mem[x].ws /\ mem'[x].snap = snapshot[t]
    BY <1>4 DEF Goes
  <2>2. snapshot[t] # None /\ Obeys(View(t), snapshot[t]) /\ View(t).snapshot # None
    BY <1>4, Nothing, ViewIs DEF Obedient
  <2>3. As(mem[x].ws, View(t).choice)
    BY <1>1, <1>3 DEF RequestObeys
  <2>4. /\ job[x].kind = "served" =>
             mem[x].ws.serve \subseteq mem[x].ws.domains /\ mem[x].ws.sync = View(t).choice.sync
        /\ job[x].kind = "synced" => mem[x].ws.serve = View(t).choice.serve
    BY <1>3 DEF RequestObeys
  <2>5. RequestObeys(View(t), pc'[x], job'[x], mem'[x])
    BY <1>1, <2>1, <2>2, <2>3, <2>4 DEF RequestObeys
  <2>. QED
    BY <1>1, <1>2, <2>1, <2>5, HereObeys
<1>5. CASE Ends(x, None) /\ snapshot[t] = None
  <2>1. Near(View(t), View(t)')
    BY <1>2, <1>5, ViewIs DEF Near
  <2>2. Moves(x) /\ job'[x].t # t
    BY <1>5, AboutNone DEF Ends
  <2>3. \A y \in Tasks : \/ pc'[y] = pc[y] /\ job'[y] = job[y] /\ mem'[y] = mem[y]
                         \/ job'[y].t # t
    BY <2>2, MovesOthers
  <2>4. \A r \in Replicas : flight'[r][t] = flight[r][t] \/ FlightObeys(View(t), flight'[r][t])
    BY <1>1 DEF FlightObeys
  <2>5. record'[t] = None \/ As(record'[t], choice[t])
    BY <1>2 DEF Obedient
  <2>. QED
    BY <1>2, <2>1, <2>3, <2>4, <2>5, NearStep
<1>. QED
  BY <1>1, <1>4, <1>5

\* Who has a snapshot of a tenant in hand is seen.
LEMMA SnapshotHeld ==
  ASSUME TypeInv, NEW x \in Tasks, NEW t \in Tenants, Obedient(t), ~SnapshotInHand(x, t),
         NEW y \in Tasks, y # x, Active(y), job[y].t = t, job[y].kind # "group"
  PROVE  mem[y].snap = None
BY DEF Obedient, RequestObeys, SnapshotInHand

\* A snapshot that is written while nobody has it in hand: those under way obey as before,
\* but for the ones that count on its absence.
LEMMA SnapshotAlone ==
  ASSUME TypeInv, NEW x \in Tasks, Moves(x), NEW t \in Tenants, Obedient(t),
         ~SnapshotInHand(x, t), record'[t] = record[t], choice'[t] = choice[t],
         \A r \in Replicas : flight'[r][t] = flight[r][t] \/ flight'[r][t].pc = "open",
         record[t] = None => snapshot'[t] = None,
         snapshot[t] = None => snapshot'[t] = None,
         snapshot'[t] # None => Obeys(View(t)', snapshot'[t]),
         job'[x].t = t => RequestObeys(View(t)', pc'[x], job'[x], mem'[x])
  PROVE  Obedient(t)'
<1>1. PICK v : v = View(t)
  OBVIOUS
<1>2. PICK w : w = View(t)'
  OBVIOUS
<1>3. /\ w.choice = v.choice /\ w.record = v.record /\ (v.snapshot = None => w.snapshot = None)
  BY <1>1, <1>2, ViewIs
<1>4. ASSUME NEW r \in Replicas PROVE FlightObeys(w, flight'[r][t])
  <2>1. CASE flight'[r][t].pc = "open"
    BY <2>1 DEF FlightObeys
  <2>2. CASE flight'[r][t] = flight[r][t]
    <3>1. FlightObeys(v, flight[r][t])
      BY <1>1 DEF Obedient
    <3>. QED
      BY <1>3, <2>2, <3>1 DEF FlightObeys
  <2>. QED
    BY <2>1, <2>2
<1>5. ASSUME NEW y \in Tasks, Active(y)', job'[y].t = t
      PROVE  RequestObeys(w, pc'[y], job'[y], mem'[y])
  <2>1. CASE y = x
    BY <1>2, <1>5, <2>1
  <2>2. CASE y # x
    <3>1. pc'[y] = pc[y] /\ job'[y] = job[y] /\ mem'[y] = mem[y]
      BY <2>2, MovesOthers
    <3>2. Active(y) /\ job[y].t = t
      BY <1>5, <3>1 DEF Active
    <3>3. RequestObeys(v, pc[y], job[y], mem[y])
      BY <1>1, <3>2 DEF Obedient
    <3>4. job[y].kind = "group" \/ mem[y].snap = None
      BY <2>2, <3>2, SnapshotHeld
    <3>5. RequestObeys(w, pc[y], job[y], mem[y])
      BY <1>3, <3>3, <3>4 DEF RequestObeys
    <3>. QED
      BY <3>1, <3>5
  <2>. QED
    BY <2>1, <2>2
<1>6. record'[t] # None => As(record'[t], choice'[t])
  BY DEF Obedient
<1>. QED
  BY <1>2, <1>4, <1>5, <1>6 DEF Obedient

\* What is narrowed is as was decided.
LEMMA NarrowedObeys ==
  ASSUME TypeInv, NEW x \in Tasks, NEW t \in Tenants, t = job[x].t, Obedient(t),
         Active(x), pc[x] = "narrowed", job[x].kind \in {"served", "synced"},
         mem[x].snap \in Snapshot, mem[x].ws \in Record,
         NEW n, n = Narrowed(job[x].kind, mem[x].snap, mem[x].ws), Moves(x), choice'[t] = choice[t]
  PROVE  View(t).snapshot # None /\ Obeys(View(t)', n)
<1>1. PICK c : c = choice[t]
  OBVIOUS
<1>2. PICK s : s = mem[x].snap
  OBVIOUS
<1>3. PICK ws : ws = mem[x].ws
  OBVIOUS
<1>4. RequestObeys(View(t), pc[x], job[x], mem[x])
  BY InHandObeys
<1>5. /\ View(t).snapshot # None /\ Obeys(View(t), s) /\ As(ws, c)
      /\ job[x].kind = "served" => ws.serve \subseteq ws.domains
  BY <1>1, <1>2, <1>3, <1>4, Nothing, ViewIs DEF RequestObeys
<1>6. ws \in Record /\ s \in Snapshot
  BY <1>2, <1>3
<1>7. Served(ws) \in SUBSET Domains /\ ws.sync \in SUBSET Groups
  BY <1>6, RecordFields DEF Served
<1>8. ASSUME NEW kind \in {"served", "synced"}, kind # job[x].kind, kind \in Owed(t)
      PROVE  kind \in Owed(t)'
  <2>1. PICK y \in Tasks : Narrowing(y, t) /\ job[y].kind = kind
    BY <1>8, OwedIs
  <2>2. y # x
    BY <1>8, <2>1
  <2>3. Narrowing(y, t)' /\ job'[y].kind = kind
    BY <2>1, <2>2, MovesOthers DEF Narrowing
  <2>. QED
    BY <2>3, OwedIs
<1>9. CASE job[x].kind = "served"
  <2>1. PICK e : e = {}
    OBVIOUS
  <2>2. e \in SUBSET Groups /\ n = restrict(s, Served(ws), e)
    BY <1>2, <1>3, <1>9, <2>1 DEF Narrowed
  <2>3. OnlySynced(s, c) => OnlySynced(n, c)
    BY <1>6, <1>7, <2>2, RestrictObeys
  <2>4. OnlyServed(n, c)
    <3>1. CASE c.serve = {}
      BY <3>1 DEF OnlyServed
    <3>2. CASE c.serve # {}
      <4>1. Served(ws) = c.serve
        BY <1>5, <1>9, <3>2 DEF As, Served
      <4>. QED
        BY <1>6, <1>7, <2>2, <3>2, <4>1, RestrictObeys
    <3>. QED
      BY <3>1, <3>2
  <2>5. "synced" \in Owed(t) => "synced" \in Owed(t)'
    BY <1>8, <1>9
  <2>. QED
    BY <1>1, <1>5, <2>3, <2>4, <2>5, ViewIs DEF Obeys
<1>10. CASE job[x].kind = "synced"
  <2>1. PICK e : e = {}
    OBVIOUS
  <2>2. e \in SUBSET Domains /\ n = restrict(s, e, ws.sync)
    BY <1>2, <1>3, <1>10, <2>1 DEF Narrowed
  <2>3. OnlyServed(s, c) => OnlyServed(n, c)
    BY <1>6, <1>7, <2>2, RestrictObeys
  <2>4. ws.sync = c.sync
    BY <1>5 DEF As
  <2>5. OnlySynced(n, c)
    BY <1>6, <1>7, <2>2, <2>4, RestrictObeys
  <2>6. "served" \in Owed(t) => "served" \in Owed(t)'
    BY <1>8, <1>10
  <2>. QED
    BY <1>1, <1>5, <2>3, <2>5, <2>6, ViewIs DEF Obeys
<1>. QED
  BY <1>9, <1>10

\* The narrowed snapshot is stored, or dropped.
LEMMA NarrowPutObeys ==
  ASSUME TypeInv, NEW x \in Tasks, NEW t \in Tenants, t = job[x].t, Obedient(t), t \notin mishap',
         NarrowPut(x)
  PROVE  Obedient(t)'
<1>1. /\ Active(x) /\ pc[x] = "narrowed" /\ job[x].kind \in {"served", "synced"}
      /\ mem[x].snap \in Snapshot /\ mem[x].ws \in Record
      /\ Ends(x, None) /\ ~SnapshotInHand(x, t)
      /\ \A r \in Replicas : flight'[r][t] = flight[r][t] \/ flight'[r][t].pc = "open"
  BY NarrowPutDoes
<1>2. PICK s : /\ s = None \/ s = Narrowed(job[x].kind, mem[x].snap, mem[x].ws)
               /\ snapshot'[t] = s
  BY NarrowPutDoes
<1>3. record' = record /\ choice' = choice
  BY DEF NarrowPut
<1>4. Moves(x) /\ job'[x].t # t
  BY <1>1, AboutNone DEF Ends
<1>5. s # None => View(t).snapshot # None /\ Obeys(View(t)', s)
  BY <1>1, <1>2, <1>3, <1>4, NarrowedObeys
<1>6. (record[t] = None => s = None) /\ (snapshot[t] = None => s = None)
  BY <1>5, ViewIs DEF Obedient
<1>. QED
  BY <1>1, <1>2, <1>3, <1>4, <1>5, <1>6, SnapshotAlone

\* A disconnect drops the snapshot nobody has in hand.
LEMMA DropSnapshotObeys ==
  ASSUME TypeInv, NEW x \in Tasks, NEW t \in Tenants, t = job[x].t, Obedient(t), t \notin mishap',
         DropSnapshot(x)
  PROVE  Obedient(t)'
<1>1. /\ Active(x) /\ job[x].kind = "disconnect" /\ pc[x] = "dropSnapshot"
      /\ Goes(x, "dropCredential", mem[x].ws, mem[x].snap, mem[x].standing, mem[x].groups)
      /\ ~SnapshotInHand(x, t) /\ snapshot'[t] = None
  BY DropSnapshotDoes
<1>2. record' = record /\ choice' = choice /\ flight' = flight
  BY DEF DropSnapshot
<1>3. Moves(x) /\ job'[x] = job[x] /\ pc'[x] = "dropCredential" /\ mem'[x].snap = mem[x].snap
  BY <1>1 DEF Goes
<1>4. mem[x].snap = None
  <2>1. RequestObeys(View(t), pc[x], job[x], mem[x])
    BY <1>1, InHandObeys
  <2>. QED
    BY <1>1, <2>1 DEF RequestObeys
<1>5. RequestObeys(View(t)', pc'[x], job'[x], mem'[x])
  BY <1>1, <1>3, <1>4, ViewIs DEF RequestObeys
<1>. QED
  BY <1>1, <1>2, <1>3, <1>5, SnapshotAlone

\* The steps that go on with the record in hand, and write none.
LEMMA GoesOnObeys ==
  ASSUME TypeInv, NEW x \in Tasks, NEW t \in Tenants, t = job[x].t, Obedient(t), t \notin mishap',
         CheckSynced(x) \/ ProbeAsk(x) \/ AdoptSave(x) \/ AdoptExisting(x) \/ Revoke(x)
         \/ DropCredential(x)
  PROVE  Obedient(t)'
<1>1. Active(x) /\ pc[x] \in {"check", "probe", "save", "existing", "revoke", "dropCredential"}
  BY DEF CheckSynced, ProbeAsk, AdoptSave, AdoptExisting, Revoke, DropCredential, At, Active
<1>2. ~Narrowing(x, t)
  BY <1>1 DEF Narrowing
<1>3. record' = record /\ snapshot' = snapshot /\ choice' = choice /\ flight' = flight
  BY DEF CheckSynced, ProbeAsk, AdoptSave, AdoptExisting, Revoke, DropCredential, OnlyAsk
<1>4. RequestObeys(View(t), pc[x], job[x], mem[x])
  BY <1>1, InHandObeys
<1>5. mem[x].snap = None \/ job[x].kind = "group"
  BY <1>1, <1>4 DEF RequestObeys
<1>6. ASSUME Moves(x), job'[x] = job[x], mem'[x].snap = mem[x].snap,
             RequestObeys(View(t), pc'[x], job'[x], mem'[x])
      PROVE  Obedient(t)'
  BY <1>2, <1>3, <1>6, HereObeys
<1>7. CASE CheckSynced(x)
  <2>1. CASE Ends(x, None)
    BY <1>2, <1>3, <2>1, EndsObeys
  <2>2. CASE Goes(x, "store", mem[x].ws, mem[x].snap, mem[x].standing, mem[x].groups)
    <3>1. /\ Moves(x) /\ pc'[x] = "store" /\ job'[x] = job[x] /\ mem'[x].ws = mem[x].ws
          /\ mem'[x].snap = mem[x].snap /\ job[x].kind = "synced"
      BY <1>7, <2>2, CheckSyncedDoes DEF Goes
    <3>2. mem[x].ws.serve = View(t).choice.serve
      BY <1>4, <3>1 DEF RequestObeys
    <3>3. RequestObeys(View(t), pc'[x], job'[x], mem'[x])
      BY <1>5, <3>1, <3>2 DEF RequestObeys
    <3>. QED
      BY <1>6, <3>1, <3>3
  <2>. QED
    BY <1>7, <2>1, <2>2, CheckSyncedDoes
<1>8. CASE ProbeAsk(x)
  <2>1. PICK ws \in Record :
          /\ Goes(x, "probed", ws, mem[x].snap, mem[x].standing, mem[x].groups)
          /\ ws.serve = mem[x].ws.serve /\ ws.sync = mem[x].ws.sync
    BY <1>8, ProbeAskDoes
  <2>2. /\ Moves(x) /\ pc'[x] = "probed" /\ job'[x] = job[x] /\ mem'[x].ws = ws
        /\ mem'[x].snap = mem[x].snap /\ job[x].kind = "probe"
    BY <1>8, <2>1, ProbeAskDoes DEF Goes
  <2>3. As(ws, View(t).choice) /\ View(t).record # None
    BY <1>4, <2>1, <2>2 DEF RequestObeys, As
  <2>4. RequestObeys(View(t), pc'[x], job'[x], mem'[x])
    BY <1>5, <2>2, <2>3 DEF RequestObeys
  <2>. QED
    BY <1>6, <2>2, <2>4
<1>9. CASE AdoptSave(x)
  <2>1. /\ Moves(x) /\ pc'[x] = "existing" /\ job'[x] = job[x]
        /\ mem'[x].snap = mem[x].snap /\ job[x].kind = "adopt"
    BY <1>9, AdoptSaveDoes DEF Goes
  <2>2. RequestObeys(View(t), pc'[x], job'[x], mem'[x])
    BY <1>5, <2>1 DEF RequestObeys
  <2>. QED
    BY <1>6, <2>1, <2>2
<1>10. CASE AdoptExisting(x)
  <2>1. PICK ws \in Record, old \in {record[t], None} :
          /\ Goes(x, "adopt", ws, mem[x].snap, mem[x].standing, mem[x].groups)
          /\ mem'[x].known = (old # None)
          /\ old # None => ws.serve = old.serve /\ ws.sync = old.sync
          /\ old = record[t]
    BY <1>10, AdoptExistingDoes
  <2>2. /\ Moves(x) /\ pc'[x] = "adopt" /\ job'[x] = job[x] /\ mem'[x].ws = ws
        /\ mem'[x].snap = mem[x].snap /\ job[x].kind = "adopt"
    BY <1>10, <2>1, AdoptExistingDoes DEF Goes
  <2>3. record[t] # None => As(ws, View(t).choice)
    BY <2>1, ViewIs DEF Obedient, As
  <2>4. /\ mem'[x].known => As(ws, View(t).choice)
        /\ ~mem'[x].known => View(t).record = None
    BY <2>1, <2>3, ViewIs
  <2>5. RequestObeys(View(t), pc'[x], job'[x], mem'[x])
    BY <1>5, <2>2, <2>4 DEF RequestObeys
  <2>. QED
    BY <1>6, <2>2, <2>5
<1>11. CASE Revoke(x)
  <2>1. /\ Moves(x) /\ pc'[x] = "dropSnapshot" /\ job'[x] = job[x]
        /\ mem'[x].snap = mem[x].snap /\ job[x].kind = "disconnect"
    BY <1>11, RevokeDoes DEF Goes
  <2>2. RequestObeys(View(t), pc'[x], job'[x], mem'[x])
    BY <1>5, <2>1 DEF RequestObeys
  <2>. QED
    BY <1>6, <2>1, <2>2
<1>12. CASE DropCredential(x)
  <2>1. /\ Moves(x) /\ pc'[x] = "dropRecord" /\ job'[x] = job[x] /\ pc[x] = "dropCredential"
        /\ mem'[x].snap = mem[x].snap /\ job[x].kind = "disconnect"
    BY <1>12, DropCredentialDoes DEF Goes
  <2>2. View(t).snapshot = None
    BY <1>4, <2>1 DEF RequestObeys
  <2>3. RequestObeys(View(t), pc'[x], job'[x], mem'[x])
    BY <1>5, <2>1, <2>2 DEF RequestObeys
  <2>. QED
    BY <1>6, <2>1, <2>3
<1>. QED
  BY <1>7, <1>8, <1>9, <1>10, <1>11, <1>12

\* A probe's record has the choice it was read with.
LEMMA ProbeStoreObeys ==
  ASSUME TypeInv, NEW x \in Tasks, NEW t \in Tenants, t = job[x].t, Obedient(t), ProbeStore(x)
  PROVE  Obedient(t)'
<1>1. /\ Active(x) /\ job[x].kind = "probe" /\ mem[x].ws \in Record /\ Ends(x, None)
      /\ record'[t] = mem[x].ws
  BY ProbeStoreDoes
<1>2. snapshot' = snapshot /\ choice' = choice /\ flight' = flight
  BY DEF ProbeStore
<1>3. RequestObeys(View(t), pc[x], job[x], mem[x])
  BY <1>1, InHandObeys
<1>4. As(mem[x].ws, choice[t]) /\ record[t] # None /\ mem[x].ws # None
  BY <1>1, <1>3, ViewIs, Nothing DEF RequestObeys
<1>5. Moves(x) /\ job'[x].t # t
  BY <1>1, AboutNone DEF Ends
<1>6. Owed(t) \subseteq Owed(t)'
  <2>1. ~Narrowing(x, t)
    BY <1>1, NarrowingIs
  <2>. QED
    BY <1>5, <2>1, MovesOwed
<1>7. Near(View(t), View(t)')
  BY <1>1, <1>2, <1>4, <1>6, ViewIs DEF Near
<1>8. \A y \in Tasks : \/ pc'[y] = pc[y] /\ job'[y] = job[y] /\ mem'[y] = mem[y]
                       \/ job'[y].t # t
  BY <1>5, MovesOthers
<1>. QED
  BY <1>1, <1>2, <1>4, <1>7, <1>8, NearStep

\* A tenant is connected as was decided before, or anew where there was none.
LEMMA AdoptStoreObeys ==
  ASSUME TypeInv, NEW x \in Tasks, NEW t \in Tenants, t = job[x].t, Obedient(t), t \notin mishap',
         AdoptStore(x)
  PROVE  Obedient(t)'
<1>1. /\ Active(x) /\ job[x].kind = "adopt" /\ pc[x] = "adopt" /\ mem[x].ws \in Record
      /\ Ends(x, None) /\ record'[t] = mem[x].ws /\ ~RecordInHand(x, t)
      /\ mem[x].known => choice'[t] = choice[t]
      /\ ~mem[x].known => choice'[t] = [serve |-> mem[x].ws.serve, sync |-> mem[x].ws.sync]
      /\ \A r \in Replicas : flight'[r][t] = flight[r][t] \/ flight'[r][t].pc = "open"
  BY AdoptStoreDoes
<1>2. snapshot' = snapshot
  BY DEF AdoptStore
<1>3. RequestObeys(View(t), pc[x], job[x], mem[x])
  BY <1>1, InHandObeys
<1>4. /\ mem[x].known => As(mem[x].ws, choice[t])
      /\ ~mem[x].known => record[t] = None
  BY <1>1, <1>3, ViewIs DEF RequestObeys
<1>5. Moves(x) /\ job'[x].t # t
  BY <1>1, AboutNone DEF Ends
<1>6. mem[x].ws # None /\ As(mem[x].ws, choice'[t])
  BY <1>1, <1>4, Nothing DEF As
<1>7. ASSUME snapshot[t] # None PROVE Obeys(View(t)', snapshot[t])
  <2>1. choice'[t] = choice[t] /\ Obeys(View(t), snapshot[t])
    BY <1>1, <1>4, <1>7 DEF Obedient
  <2>2. Owed(t) \subseteq Owed(t)'
    <3>1. ~Narrowing(x, t)
      BY <1>1, NarrowingIs
    <3>. QED
      BY <1>5, <3>1, MovesOwed
  <2>. QED
    BY <2>1, <2>2, ViewIs DEF Obeys
<1>. QED
  BY <1>1, <1>2, <1>5, <1>6, <1>7, AloneStep

\* The record goes last, after the snapshot.
LEMMA DropRecordObeys ==
  ASSUME TypeInv, NEW x \in Tasks, NEW t \in Tenants, t = job[x].t, Obedient(t), t \notin mishap',
         DropRecord(x)
  PROVE  Obedient(t)'
<1>1. /\ Active(x) /\ pc[x] = "dropRecord" /\ Ends(x, None) /\ ~RecordInHand(x, t)
      /\ record'[t] = None
  BY DropRecordDoes
<1>2. snapshot' = snapshot /\ flight' = flight
  BY DEF DropRecord
<1>3. snapshot[t] = None
  <2>1. RequestObeys(View(t), pc[x], job[x], mem[x])
    BY <1>1, InHandObeys
  <2>. QED
    BY <1>1, <2>1, ViewIs DEF RequestObeys
<1>4. Moves(x) /\ job'[x].t # t
  BY <1>1, AboutNone DEF Ends
<1>. QED
  BY <1>1, <1>2, <1>3, <1>4, AloneStep

\* A lookup that is given up owes nothing; what else is given up is a mishap.
LEMMA AbandonObeys ==
  ASSUME TypeInv, NEW x \in Tasks, NEW t \in Tenants, t = job[x].t, Obedient(t), t \notin mishap',
         Abandon(x)
  PROVE  Obedient(t)'
<1>1. Ends(x, None) /\ job[x].kind \in {"point", "group"}
  BY AbandonDoes
<1>2. ~Narrowing(x, t)
  BY <1>1, NarrowingIs
<1>3. record' = record /\ snapshot' = snapshot /\ choice' = choice /\ flight' = flight
  BY DEF Abandon
<1>. QED
  BY <1>1, <1>2, <1>3, EndsObeys

\* A step of a request: what it leaves alone of other tenants.
LEMMA StepElsewhere ==
  ASSUME TypeInv, NEW x \in Tasks, Step(x)
  PROVE  /\ mishap \subseteq mishap' /\ Moves(x) /\ (job'[x] = job[x] \/ job'[x] = NoJob)
         /\ \A u \in Tenants : u # job[x].t =>
              /\ record'[u] = record[u] /\ snapshot'[u] = snapshot[u] /\ choice'[u] = choice[u]
              /\ \A r \in Replicas : flight'[r][u] = flight[r][u] \/ flight'[r][u].pc = "open"
<1>1. \/ \E a : Ends(x, a)
      \/ \E p, ws, s, st, gs : Goes(x, p, ws, s, st, gs)
  <2>1. CASE Look(x) \/ LiveAccount(x) \/ LiveGroups(x) \/ LiveFails(x)
    BY <2>1, LookDoes, LiveAccountDoes, LiveGroupsDoes, LiveFailsDoes
  <2>2. CASE Patch(x) \/ EnsureFresh(x) \/ Await(x) \/ Abandon(x)
    BY <2>2, PatchDoes, EnsureFreshDoes, AwaitDoes, AbandonDoes
  <2>3. CASE CheckSynced(x) \/ StoreChoice(x) \/ NarrowRead(x) \/ NarrowPut(x)
    BY <2>3, CheckSyncedDoes, StoreChoiceDoes, NarrowReadDoes, NarrowPutDoes
  <2>4. CASE ProbeAsk(x) \/ ProbeStore(x) \/ AdoptSave(x) \/ AdoptExisting(x) \/ AdoptStore(x)
    BY <2>4, ProbeAskDoes, ProbeStoreDoes, AdoptSaveDoes, AdoptExistingDoes, AdoptStoreDoes
  <2>5. CASE Revoke(x) \/ DropSnapshot(x) \/ DropCredential(x) \/ DropRecord(x)
    BY <2>5, RevokeDoes, DropSnapshotDoes, DropCredentialDoes, DropRecordDoes
  <2>. QED
    BY <2>1, <2>2, <2>3, <2>4, <2>5 DEF Step
<1>2. Moves(x) /\ (job'[x] = job[x] \/ job'[x] = NoJob)
  BY <1>1 DEF Ends, Goes
<1>. DEFINE Elsewhere ==
       /\ mishap \subseteq mishap'
       /\ \A u \in Tenants : u # job[x].t =>
            /\ record'[u] = record[u] /\ snapshot'[u] = snapshot[u] /\ choice'[u] = choice[u]
            /\ \A r \in Replicas : flight'[r][u] = flight[r][u] \/ flight'[r][u].pc = "open"
<1>3. ASSUME mishap' = mishap, record' = record, snapshot' = snapshot, choice' = choice, flight' = flight
      PROVE  Elsewhere
  BY <1>3
<1>4. ASSUME \/ Look(x) \/ LiveAccount(x) \/ LiveGroups(x) \/ LiveFails(x) \/ Await(x)
             \/ CheckSynced(x) \/ ProbeAsk(x) \/ AdoptSave(x) \/ Revoke(x)
      PROVE  Elsewhere
  BY <1>3, <1>4 DEF Look, LiveAccount, LiveGroups, LiveFails, Await, CheckSynced, ProbeAsk, AdoptSave,
                    Revoke, OnlyAsk
<1>5. ASSUME Patch(x) PROVE Elsewhere
  <2>1. mishap' = mishap /\ record' = record /\ choice' = choice /\ flight' = flight
    BY <1>5 DEF Patch
  <2>2. \A u \in Tenants : u # job[x].t => snapshot'[u] = snapshot[u]
    BY <1>5, PatchDoes
  <2>. QED
    BY <2>1, <2>2
<1>6. ASSUME EnsureFresh(x) PROVE Elsewhere
  BY <1>6, EnsureFreshDoes DEF EnsureFresh
<1>7. ASSUME StoreChoice(x) PROVE Elsewhere
  <2>1. snapshot' = snapshot /\ flight' = flight
    BY <1>7 DEF StoreChoice
  <2>2. \A u \in Tenants : u # job[x].t => record'[u] = record[u] /\ choice'[u] = choice[u]
    BY <1>7, StoreChoiceDoes
  <2>. QED
    BY <1>7, <2>1, <2>2, StoreChoiceDoes
<1>8. ASSUME NarrowRead(x) PROVE Elsewhere
  BY <1>8, NarrowReadDoes DEF NarrowRead
<1>9. ASSUME NarrowPut(x) PROVE Elsewhere
  <2>1. record' = record /\ choice' = choice
    BY <1>9 DEF NarrowPut
  <2>2. \A u \in Tenants : u # job[x].t => snapshot'[u] = snapshot[u]
    BY <1>9, NarrowPutDoes
  <2>. QED
    BY <1>9, <2>1, <2>2, NarrowPutDoes
<1>10. ASSUME ProbeStore(x) PROVE Elsewhere
  <2>1. mishap' = mishap /\ snapshot' = snapshot /\ choice' = choice /\ flight' = flight
    BY <1>10 DEF ProbeStore
  <2>. QED
    BY <1>10, <2>1, ProbeStoreDoes
<1>11. ASSUME AdoptExisting(x) \/ DropCredential(x) \/ Abandon(x) PROVE Elsewhere
  <2>1. record' = record /\ snapshot' = snapshot /\ choice' = choice /\ flight' = flight
    BY <1>11 DEF AdoptExisting, DropCredential, Abandon
  <2>2. mishap \subseteq mishap'
    BY <1>11, AdoptExistingDoes, DropCredentialDoes, AbandonDoes
  <2>. QED
    BY <2>1, <2>2
<1>12. ASSUME AdoptStore(x) PROVE Elsewhere
  <2>1. snapshot' = snapshot
    BY <1>12 DEF AdoptStore
  <2>2. ASSUME NEW u \in Tenants, u # job[x].t
        PROVE  record'[u] = record[u] /\ choice'[u] = choice[u]
    <3>1. record'[u] = record[u]
      BY <1>12, <2>2, AdoptStoreDoes
    <3>2. choice'[u] = choice[u]
      BY <1>12, <2>2, AdoptStoreDoes
    <3>. QED
      BY <3>1, <3>2
  <2>3. /\ mishap \subseteq mishap'
        /\ \A q \in Replicas, u \in Tenants :
             flight'[q][u] = flight[q][u] \/ flight'[q][u].pc = "open"
    BY <1>12, AdoptStoreDoes
  <2>. QED
    BY <2>1, <2>2, <2>3
<1>13. ASSUME DropSnapshot(x) PROVE Elsewhere
  <2>1. record' = record /\ choice' = choice /\ flight' = flight
    BY <1>13 DEF DropSnapshot
  <2>2. \A u \in Tenants : u # job[x].t => snapshot'[u] = snapshot[u]
    BY <1>13, DropSnapshotDoes
  <2>. QED
    BY <1>13, <2>1, <2>2, DropSnapshotDoes
<1>14. ASSUME DropRecord(x) PROVE Elsewhere
  <2>1. snapshot' = snapshot /\ choice' = choice /\ flight' = flight
    BY <1>14 DEF DropRecord
  <2>. QED
    BY <1>14, <2>1, DropRecordDoes
<1>15. Elsewhere
  BY <1>4, <1>5, <1>6, <1>7, <1>8, <1>9, <1>10, <1>11, <1>12, <1>13, <1>14 DEF Step
<1>. QED
  BY <1>2, <1>15

\* Every step of a request.
LEMMA StepObeys ==
  ASSUME TypeInv, ChoiceInv, NEW x \in Tasks, Step(x)
  PROVE  ChoiceInv'
<1>1. SUFFICES ASSUME NEW t \in Tenants, t \notin mishap' PROVE Obedient(t)'
  BY DEF ChoiceInv
<1>2. Obedient(t)
  BY <1>1, StepElsewhere DEF ChoiceInv
<1>3. CASE job[x].t # t
  <2>1. job'[x].t # t
    BY <1>3, StepElsewhere, AboutNone
  <2>. QED
    BY <1>2, <1>3, <2>1, StepElsewhere, ElsewhereObeys
<1>4. CASE job[x].t = t
  <2>1. CASE \/ Look(x) \/ LiveAccount(x) \/ LiveGroups(x) \/ LiveFails(x) \/ Patch(x)
             \/ EnsureFresh(x) \/ Await(x)
    BY <1>2, <1>4, <2>1, LookupObeys, PatchObeys
  <2>2. CASE CheckSynced(x) \/ StoreChoice(x) \/ NarrowRead(x) \/ NarrowPut(x) \/ ProbeAsk(x) \/ ProbeStore(x)
    BY <1>1, <1>2, <1>4, <2>2, GoesOnObeys, StoreChoiceObeys, NarrowReadObeys, NarrowPutObeys,
       ProbeStoreObeys
  <2>3. CASE AdoptSave(x) \/ AdoptExisting(x) \/ AdoptStore(x) \/ Revoke(x)
             \/ DropSnapshot(x) \/ DropCredential(x) \/ DropRecord(x) \/ Abandon(x)
    BY <1>1, <1>2, <1>4, <2>3, GoesOnObeys, AdoptStoreObeys, DropSnapshotObeys, DropRecordObeys,
       AbandonObeys
  <2>. QED
    BY <2>1, <2>2, <2>3 DEF Step
<1>. QED
  BY <1>3, <1>4

\* A full read leaves the records, the choices and the requests alone.
LEMMA FlightOnlyNear ==
  ASSUME FlightOnly, NEW t, (snapshot'[t] = None <=> snapshot[t] = None)
  PROVE  /\ Near(View(t), View(t)') /\ record' = record /\ choice' = choice
         /\ \A x \in Tasks : pc'[x] = pc[x] /\ job'[x] = job[x] /\ mem'[x] = mem[x]
<1>1. record' = record /\ choice' = choice /\ pc' = pc /\ job' = job /\ mem' = mem
  BY DEF FlightOnly, requests
<1>2. Owed(t)' = Owed(t)
  BY <1>1 DEF Owed, Narrowing
<1>3. Near(View(t), View(t)')
  BY <1>1, <1>2, ViewIs DEF Near
<1>. QED
  BY <1>1, <1>3

\* A full read that flies on as was decided.
LEMMA FliesObeys ==
  ASSUME TypeInv, NEW r \in Replicas, NEW u \in Tenants, NEW f, Flies(r, u, f),
         UNCHANGED snapshot, NEW t \in Tenants, Obedient(t),
         u = t => FlightObeys(View(t), f)
  PROVE  Obedient(t)'
<1>1. FlightOnly
  BY DEF Flies
<1>2. /\ Near(View(t), View(t)') /\ record' = record
      /\ \A x \in Tasks : pc'[x] = pc[x] /\ job'[x] = job[x] /\ mem'[x] = mem[x]
  BY <1>1, FlightOnlyNear
<1>3. \A q \in Replicas : \/ flight'[q][t] = flight[q][t]
                          \/ FlightObeys(View(t), flight'[q][t])
  BY DEF Flies
<1>4. record'[t] = None \/ As(record'[t], choice[t])
  BY <1>2 DEF Obedient
<1>. QED
  BY <1>2, <1>3, <1>4, NearStep

\* A full read takes the record as it is decided, and its snapshot is narrowed to that.
LEMMA ReadObeys ==
  ASSUME TypeInv, NEW r \in Replicas, NEW u \in Tenants, NEW t \in Tenants, Obedient(t),
         \/ FlightOpen(r, u) \/ FlightRecord(r, u) \/ FlightAccounts(r, u) \/ FlightGroups(r, u)
         \/ FlightFails(r, u)
  PROVE  Obedient(t)'
<1>1. UNCHANGED snapshot
  BY FlightOpenDoes, FlightRecordDoes, FlightAccountsDoes, FlightGroupsDoes, FlightFailsDoes
<1>2. FlightObeys(View(t), flight[r][t])
  BY DEF Obedient
<1>3. ASSUME NEW f, Flies(r, u, f), f.pc \in {"idle", "record"} PROVE Obedient(t)'
  <2>1. FlightObeys(View(t), f)
    BY <1>3 DEF FlightObeys
  <2>. QED
    BY <1>1, <1>3, <2>1, FliesObeys
<1>4. CASE FlightOpen(r, u) \/ FlightFails(r, u)
  BY <1>3, <1>4, FlightOpenDoes, FlightFailsDoes
<1>5. CASE FlightRecord(r, u)
  <2>1. PICK f : /\ Flies(r, u, f)
                 /\ \/ f.pc = "idle"
                    \/ f.pc = "accounts" /\ record[u] \in Record /\ f.ws = record[u]
    BY <1>5, FlightRecordDoes
  <2>2. ASSUME f.pc = "accounts", record[u] \in Record, f.ws = record[u], u = t
        PROVE  FlightObeys(View(t), f)
    BY <2>2, Nothing, ViewIs DEF FlightObeys, Obedient
  <2>3. f.pc = "idle" => FlightObeys(View(t), f)
    BY DEF FlightObeys
  <2>. QED
    BY <1>1, <2>1, <2>2, <2>3, FliesObeys
<1>6. CASE FlightAccounts(r, u)
  <2>1. PICK f : Flies(r, u, f) /\ f.pc = "groups" /\ f.ws = flight[r][u].ws
    BY <1>6, FlightAccountsDoes
  <2>2. flight[r][u].pc = "accounts"
    BY <1>6, FlightAccountsDoes
  <2>3. u = t => FlightObeys(View(t), f)
    BY <1>2, <2>1, <2>2 DEF FlightObeys
  <2>. QED
    BY <1>1, <2>1, <2>3, FliesObeys
<1>7. CASE FlightGroups(r, u)
  <2>1. flight[r][u].pc = "groups" /\ flight[r][u].ws \in Record
    BY <1>7, FlightGroupsDoes
  <2>2. PICK all \in Snapshot, f \in Flight :
          /\ Flies(r, u, f) /\ f.pc = "put"
          /\ f.snap = restrict(all, flight[r][u].ws.serve, flight[r][u].ws.sync)
    BY <1>7, FlightGroupsDoes
  <2>3. PICK ws : ws = flight[r][u].ws
    OBVIOUS
  <2>4. ws.serve \in SUBSET Domains /\ ws.sync \in SUBSET Groups
    BY <2>1, <2>3, RecordFields
  <2>5. ASSUME u = t PROVE FlightObeys(View(t), f)
    <3>1. As(ws, View(t).choice) /\ View(t).record # None
      BY <1>2, <2>1, <2>3, <2>5 DEF FlightObeys
    <3>2. f.snap = restrict(all, ws.serve, ws.sync)
      BY <2>2, <2>3
    <3>3. OnlySynced(f.snap, View(t).choice)
      <4>1. PICK c : c = View(t).choice
        OBVIOUS
      <4>2. ws.sync = c.sync
        BY <3>1, <4>1 DEF As
      <4>3. PICK n : n = f.snap
        OBVIOUS
      <4>4. OnlySynced(n, c)
        BY <2>2, <2>4, <3>2, <4>2, <4>3, RestrictObeys
      <4>. QED
        BY <4>1, <4>3, <4>4
    <3>4. OnlyServed(f.snap, View(t).choice)
      <4>1. CASE View(t).choice.serve = {}
        BY <4>1 DEF OnlyServed
      <4>2. CASE View(t).choice.serve # {}
        BY <2>4, <3>1, <3>2, <4>2, RestrictObeys DEF As
      <4>. QED
        BY <4>1, <4>2
    <3>. QED
      BY <2>2, <3>1, <3>3, <3>4 DEF FlightObeys
  <2>. QED
    BY <1>1, <2>2, <2>5, FliesObeys
<1>. QED
  BY <1>4, <1>5, <1>6, <1>7

\* The snapshot of a full read is stored: nobody is disconnecting the tenant, and it is as
\* was decided.
LEMMA FlightPutObeys ==
  ASSUME TypeInv, NEW r \in Replicas, NEW u \in Tenants, NEW t \in Tenants, Obedient(t),
         FlightPut(r, u), t \notin mishap'
  PROVE  Obedient(t)'
<1>1. /\ flight[r][u].pc = "put" /\ flight[r][u].snap \in Snapshot
      /\ snapshot'[t] = IF t = u THEN flight[r][u].snap ELSE snapshot[t]
      /\ (\E x \in Tasks : job[x].t = u /\ job[x].kind = "disconnect") => u \in mishap'
  BY FlightPutDoes
<1>2. PICK f : Flies(r, u, f) /\ f.pc = "idle"
  BY FlightPutDoes
<1>3. FlightOnly
  BY <1>2 DEF Flies
<1>4. record' = record /\ choice' = choice /\ pc' = pc /\ job' = job /\ mem' = mem
  BY <1>3 DEF FlightOnly, requests
<1>5. \A q \in Replicas : flight'[q][t] = flight[q][t] \/ FlightObeys(View(t), flight'[q][t])
  BY <1>2 DEF Flies, FlightObeys
<1>6. CASE u # t
  <2>1. /\ Near(View(t), View(t)')
        /\ \A x \in Tasks : pc'[x] = pc[x] /\ job'[x] = job[x] /\ mem'[x] = mem[x]
    BY <1>1, <1>3, <1>6, FlightOnlyNear
  <2>2. record'[t] = None \/ As(record'[t], choice[t])
    BY <1>4 DEF Obedient
  <2>. QED
    BY <1>1, <1>5, <1>6, <2>1, <2>2, NearStep
<1>7. CASE u = t
  <2>1. PICK s : s = flight[r][t].snap
    OBVIOUS
  <2>2. snapshot'[t] = s /\ s # None
    BY <1>1, <1>7, <2>1, Nothing
  <2>3. PICK v : v = View(t)
    OBVIOUS
  <2>4. PICK w : w = View(t)'
    OBVIOUS
  <2>5. Owed(t)' = Owed(t)
    BY <1>4 DEF Owed, Narrowing
  <2>6. /\ w.record = v.record /\ w.choice = v.choice /\ w.owed = v.owed /\ w.snapshot # None
        /\ v.record = record[t] /\ v.choice = choice[t]
    BY <1>4, <2>2, <2>3, <2>4, <2>5, ViewIs
  <2>7. record[t] # None /\ OnlyServed(s, v.choice) /\ OnlySynced(s, v.choice)
    <3>1. FlightObeys(v, flight[r][t])
      BY <2>3 DEF Obedient
    <3>. QED
      BY <1>1, <1>7, <2>1, <2>6, <3>1 DEF FlightObeys
  <2>8. Obeys(w, s)
    BY <2>6, <2>7 DEF Obeys
  <2>9. ASSUME NEW q \in Replicas PROVE FlightObeys(w, flight'[q][t])
    <3>1. FlightObeys(v, flight'[q][t])
      BY <1>5, <2>3 DEF Obedient
    <3>. QED
      BY <2>6, <3>1 DEF FlightObeys
  <2>10. ASSUME NEW x \in Tasks, Active(x)', job'[x].t = t
         PROVE  RequestObeys(w, pc'[x], job'[x], mem'[x])
    <3>1. Active(x) /\ job[x].t = t
      BY <1>4, <2>10 DEF Active
    <3>2. RequestObeys(v, pc[x], job[x], mem[x])
      BY <2>3, <3>1 DEF Obedient
    <3>3. job[x].kind # "disconnect"
      BY <1>1, <1>7, <3>1
    <3>4. pc[x] \in PcsOf(job[x].kind) /\ job[x].kind \in Kinds
      BY <3>1, ActivePlaced DEF Placed
    <3>5. pc[x] \notin {"dropCredential", "dropRecord"}
      BY <3>3, <3>4, Places DEF Kinds
    <3>6. \A z : Obeys(v, z) => Obeys(w, z)
      BY <2>6 DEF Obeys
    <3>7. RequestObeys(w, pc[x], job[x], mem[x])
      BY <2>6, <3>2, <3>5, <3>6 DEF RequestObeys
    <3>. QED
      BY <1>4, <3>7
  <2>11. record'[t] # None /\ As(record'[t], choice'[t])
    BY <1>4, <2>7 DEF Obedient
  <2>. QED
    BY <2>2, <2>4, <2>8, <2>9, <2>10, <2>11 DEF Obedient
<1>. QED
  BY <1>6, <1>7

\* Every step of a full read.
LEMMA FlightStepObeys ==
  ASSUME TypeInv, ChoiceInv, NEW r \in Replicas, NEW u \in Tenants, FlightStep(r, u)
  PROVE  ChoiceInv'
<1>1. SUFFICES ASSUME NEW t \in Tenants, t \notin mishap' PROVE Obedient(t)'
  BY DEF ChoiceInv
<1>2. mishap \subseteq mishap'
  BY RefreshDoes, FlightOpenDoes, FlightRecordDoes, FlightAccountsDoes, FlightGroupsDoes,
     FlightPutDoes, FlightFailsDoes DEF FlightStep
<1>3. Obedient(t)
  BY <1>1, <1>2 DEF ChoiceInv
<1>4. CASE Refresh(r, u)
  <2>1. /\ FlightOnly /\ snapshot' = snapshot
        /\ \A q \in Replicas : flight'[q][t] = flight[q][t] \/ flight'[q][t].pc = "open"
    BY <1>4, RefreshDoes
  <2>2. /\ Near(View(t), View(t)') /\ record' = record
        /\ \A x \in Tasks : pc'[x] = pc[x] /\ job'[x] = job[x] /\ mem'[x] = mem[x]
    BY <2>1, FlightOnlyNear
  <2>3. \A q \in Replicas : flight'[q][t] = flight[q][t] \/ FlightObeys(View(t), flight'[q][t])
    BY <2>1 DEF FlightObeys
  <2>4. record'[t] = None \/ As(record'[t], choice[t])
    BY <1>3, <2>2 DEF Obedient
  <2>. QED
    BY <1>3, <2>1, <2>2, <2>3, <2>4, NearStep
<1>. QED
  BY <1>1, <1>3, <1>4, ReadObeys, FlightPutObeys DEF FlightStep

\* A process ends: a tenant that one of its requests was about is a mishap.
LEMMA RestartObeys ==
  ASSUME TypeInv, ChoiceInv, NEW r \in Replicas, Restart(r)
  PROVE  ChoiceInv'
<1>1. SUFFICES ASSUME NEW t \in Tenants, t \notin mishap' PROVE Obedient(t)'
  BY DEF ChoiceInv
<1>2. /\ \A y \in Tasks :
           \/ y \in Mine(r) /\ pc'[y] = "done" /\ job'[y] = NoJob /\ mem'[y] = NoMem
           \/ y \notin Mine(r) /\ pc'[y] = pc[y] /\ job'[y] = job[y] /\ mem'[y] = mem[y]
      /\ \A q \in Replicas : flight'[q][t] = flight[q][t] \/ flight'[q][t].pc = "idle"
      /\ mishap \subseteq mishap'
      /\ \A x \in Mine(r) : job[x].t # t
  BY <1>1, RestartDoes
<1>3. Obedient(t)
  BY <1>1, <1>2 DEF ChoiceInv
<1>4. snapshot' = snapshot /\ record' = record /\ choice' = choice
  BY DEF Restart
<1>5. \A y \in Tasks : \/ pc'[y] = pc[y] /\ job'[y] = job[y] /\ mem'[y] = mem[y]
                       \/ job'[y].t # t
  BY <1>2, AboutNone
<1>6. Owed(t) \subseteq Owed(t)'
  <2>1. SUFFICES ASSUME NEW k, NEW y \in Tasks, Narrowing(y, t), job[y].kind = k
                 PROVE  Narrowing(y, t)' /\ job'[y].kind = k
    BY OwedIs
  <2>2. y \notin Mine(r)
    BY <1>2, <2>1 DEF Narrowing
  <2>. QED
    BY <1>2, <2>1, <2>2 DEF Narrowing
<1>7. Near(View(t), View(t)')
  BY <1>4, <1>6, ViewIs DEF Near
<1>8. \A q \in Replicas : flight'[q][t] = flight[q][t] \/ FlightObeys(View(t), flight'[q][t])
  BY <1>2 DEF FlightObeys
<1>9. record'[t] = None \/ As(record'[t], choice[t])
  BY <1>3, <1>4 DEF Obedient
<1>. QED
  BY <1>3, <1>4, <1>5, <1>7, <1>8, <1>9, NearStep

\* What a start does to another tenant: nothing but a full read begun.
LEMMA StartNear ==
  ASSUME TypeInv, StartOnly, NEW t \in Tenants, Obedient(t),
         record'[t] = record[t], choice'[t] = choice[t],
         \A q \in Replicas : flight'[q][t] = flight[q][t] \/ flight'[q][t].pc = "open"
  PROVE  Obedient(t)'
<1>1. snapshot' = snapshot /\ pc' = pc /\ job' = job /\ mem' = mem
  BY DEF StartOnly, requests
<1>2. Owed(t)' = Owed(t)
  BY <1>1 DEF Owed, Narrowing
<1>3. Near(View(t), View(t)')
  BY <1>1, <1>2, ViewIs DEF Near
<1>4. \A q \in Replicas : flight'[q][t] = flight[q][t] \/ FlightObeys(View(t), flight'[q][t])
  BY DEF FlightObeys
<1>5. record'[t] = None \/ As(record'[t], choice[t])
  BY DEF Obedient
<1>. QED
  BY <1>1, <1>3, <1>4, <1>5, NearStep

\* A declared tenant is stored as the deployment has it, with nobody at work on it.
LEMMA StartStoreObeys ==
  ASSUME TypeInv, ChoiceInv, NEW r \in Replicas, StartStore(r)
  PROVE  ChoiceInv'
<1>1. SUFFICES ASSUME NEW t \in Tenants, t \notin mishap' PROVE Obedient(t)'
  BY DEF ChoiceInv
<1>2. Obedient(t) /\ StartOnly
  BY <1>1, StartStoreDoes DEF ChoiceInv
<1>3. \A q \in Replicas : flight'[q][t] = flight[q][t] \/ flight'[q][t].pc = "open"
  BY StartStoreDoes
<1>4. CASE t # start[r].t
  <2>1. record'[t] = record[t] /\ choice'[t] = choice[t]
    BY <1>4, StartStoreDoes
  <2>. QED
    BY <1>2, <1>3, <2>1, StartNear
<1>5. CASE t = start[r].t
  <2>1. /\ record'[t] \in Record /\ record'[t].serve = {} /\ record'[t].sync = {}
        /\ choice'[t] = [serve |-> {}, sync |-> {}]
        /\ ~InHandOf(t, Replicas, Tasks)
    BY <1>1, <1>5, StartStoreDoes
  <2>2. record'[t] # None /\ As(record'[t], choice'[t])
    BY <2>1, Nothing DEF As
  <2>3. PICK w : w = View(t)'
    OBVIOUS
  <2>4. \A s : Obeys(w, s)
    BY <2>1, <2>3, ViewIs DEF Obeys, OnlyServed, OnlySynced
  <2>5. Replicas \subseteq Replicas /\ Tasks \subseteq Tasks
    OBVIOUS
  <2>6. /\ \A q \in Replicas : FlightObeys(w, flight[q][t])
        /\ \A y \in Tasks : Active(y) /\ job[y].t = t =>
             RequestObeys(w, pc[y], job[y], mem[y])
    BY <2>1, <2>5, AloneObeys
  <2>7. ASSUME NEW q \in Replicas PROVE FlightObeys(w, flight'[q][t])
    <3>1. CASE flight'[q][t].pc = "open"
      BY <3>1 DEF FlightObeys
    <3>. QED
      BY <1>3, <2>6, <3>1
  <2>8. ASSUME NEW y \in Tasks, Active(y)', job'[y].t = t
        PROVE  RequestObeys(w, pc'[y], job'[y], mem'[y])
    <3>1. pc' = pc /\ job' = job /\ mem' = mem
      BY <1>2 DEF StartOnly, requests
    <3>2. Active(y) /\ job[y].t = t
      BY <2>8, <3>1 DEF Active
    <3>. QED
      BY <2>6, <3>1, <3>2
  <2>. QED
    BY <2>2, <2>3, <2>4, <2>7, <2>8 DEF Obedient
<1>. QED
  BY <1>4, <1>5

\* The rest of a start decides nothing, unless it forgets a tenant.
LEMMA StartObeys ==
  ASSUME TypeInv, ChoiceInv, NEW r \in Replicas, NEW u \in Tenants,
         StartAdopt(r, u) \/ StartReopen(r, u)
  PROVE  ChoiceInv'
<1>1. SUFFICES ASSUME NEW t \in Tenants, t \notin mishap' PROVE Obedient(t)'
  BY DEF ChoiceInv
<1>2. /\ StartOnly /\ record'[t] = record[t] /\ choice'[t] = choice[t] /\ flight' = flight
      /\ mishap \subseteq mishap'
  <2>1. CASE StartAdopt(r, u)
    BY <2>1, StartAdoptDoes
  <2>2. CASE StartReopen(r, u)
    BY <1>1, <2>2, StartReopenDoes
  <2>. QED
    BY <2>1, <2>2
<1>3. Obedient(t)
  BY <1>1, <1>2 DEF ChoiceInv
<1>. QED
  BY <1>2, <1>3, StartNear

\* Where the hub stays as it was, all obeys as it did.
LEMMA StillObeys ==
  ASSUME TypeInv, ChoiceInv, UNCHANGED <<hub, choice, mishap>>
  PROVE  ChoiceInv'
<1>1. /\ record' = record /\ snapshot' = snapshot /\ choice' = choice /\ flight' = flight
      /\ pc' = pc /\ job' = job /\ mem' = mem /\ mishap' = mishap
  BY DEF hub, requests
<1>2. SUFFICES ASSUME NEW t \in Tenants, t \notin mishap PROVE Obedient(t)'
  BY <1>1 DEF ChoiceInv
<1>3. Obedient(t)
  BY <1>2 DEF ChoiceInv
<1>4. View(t)' = View(t)
  BY <1>1 DEF View, Owed, Narrowing
<1>. QED
  BY <1>1, <1>3, <1>4 DEF Obedient, Active

\* Every step.
LEMMA ChoiceStep ==
  ASSUME TypeInv, ChoiceInv, [Next]_vars
  PROVE  ChoiceInv'
<1>1. CASE Next
  <2>1. ASSUME NEW x \in Tasks, Arrive(x) PROVE ChoiceInv'
    <3>1. mishap' = mishap
      <4>1. PICK r \in Replicas :
              \/ \E demand \in BOOLEAN : \/ \E e \in Emails : AskPoint(x, r, e, demand)
                                         \/ \E g \in Groups : AskGroup(x, r, g, demand)
              \/ \E t \in Tenants : ProbeOne(x, r, t)
              \/ \E t \in Tenants :
                   \/ \E new \in ServeChoices : Choose(x, r, t, "served", new)
                   \/ \E new \in SyncChoices : Choose(x, r, t, "synced", new)
                   \/ Adopt(x, r, t) \/ Disconnect(x, r, t)
        BY <2>1 DEF Arrive
      <4>2. \A e, demand : AskPoint(x, r, e, demand) \/ AskGroup(x, r, e, demand) => mishap' = mishap
        BY DEF AskPoint, AskGroup, OnlyAsk
      <4>3. \A t, kind, new : Choose(x, r, t, kind, new) => mishap' = mishap
        BY DEF Choose, OnlyAsk
      <4>4. \A t : ProbeOne(x, r, t) \/ Adopt(x, r, t) \/ Disconnect(x, r, t) => mishap' = mishap
        BY DEF ProbeOne, Adopt, Disconnect, OnlyAsk
      <4>. QED
        BY <4>1, <4>2, <4>3, <4>4
    <3>. QED
      BY <2>1, <3>1, ArriveObeys DEF ChoiceInv
  <2>2. CASE \E x \in Tasks : Step(x)
    BY <2>2, StepObeys
  <2>3. CASE \E r \in Replicas :
               \/ Restart(r) \/ StartStore(r)
               \/ \E t \in Tenants : StartAdopt(r, t) \/ StartReopen(r, t) \/ FlightStep(r, t)
    BY <2>3, RestartObeys, StartStoreObeys, StartObeys, FlightStepObeys
  <2>4. CASE \/ \E e \in Emails : \/ \E st \in Standing : SetStanding(e, st)
                                  \/ \E g \in Groups : SetMember(g, e)
             \/ \E d \in Domains, o \in Tenants : MoveDomain(d, o)
             \/ Tick
    <3>1. UNCHANGED <<hub, choice, mishap>>
      BY <2>4 DEF SetStanding, SetMember, MoveDomain, Tick, history
    <3>. QED
      BY <3>1, StillObeys
  <2>. QED
    BY <1>1, <2>1, <2>2, <2>3, <2>4 DEF Next
<1>2. CASE UNCHANGED vars
  <2>1. UNCHANGED <<hub, choice, mishap>>
    BY <1>2 DEF vars, hub, history, requests
  <2>. QED
    BY <2>1, StillObeys
<1>. QED
  BY <1>1, <1>2

\* At the start the records and the snapshots are as decided.
LEMMA ChoiceInit ==
  ASSUME Init
  PROVE  ChoiceInv
<1>1. SUFFICES ASSUME NEW t \in Tenants PROVE Obedient(t)
  BY DEF ChoiceInv
<1>2. /\ record[t] \in Record /\ record[t].serve = {}
      /\ choice[t] = [serve |-> {}, sync |-> record[t].sync]
  BY InitDoes
<1>3. record[t] # None /\ As(record[t], choice[t])
  BY <1>2, Nothing DEF As
<1>4. Obeys(View(t), snapshot[t])
  <2>1. PICK all \in Snapshot : snapshot[t] = restrict(all, {}, record[t].sync)
    BY InitDoes
  <2>2. PICK serve : serve = {}
    OBVIOUS
  <2>3. /\ serve \in SUBSET Domains /\ record[t].sync \in SUBSET Groups
        /\ snapshot[t] = restrict(all, serve, record[t].sync)
    BY <1>2, <2>1, <2>2, RecordFields
  <2>4. OnlySynced(snapshot[t], choice[t])
    <3>1. record[t].sync = choice[t].sync
      BY <1>2
    <3>. QED
      BY <2>3, <3>1, RestrictObeys
  <2>5. OnlyServed(snapshot[t], choice[t])
    BY <1>2 DEF OnlyServed
  <2>. QED
    BY <2>4, <2>5, ViewIs DEF Obeys
<1>5. \A r \in Replicas : FlightObeys(View(t), flight[r][t])
  BY DEF Init, Idle, FlightObeys
<1>6. \A x \in Tasks : ~Active(x)
  BY DEF Init, Active
<1>. QED
  BY <1>3, <1>4, <1>5, <1>6 DEF Obedient

\* What was decided holds in every state.
LEMMA AllObey == Spec => [](TypeInv /\ ChoiceInv)
<1>1. Init => TypeInv /\ ChoiceInv
  BY TypeInit, ChoiceInit
<1>2. TypeInv /\ ChoiceInv /\ [Next]_vars => (TypeInv /\ ChoiceInv)'
  BY TypeStep, ChoiceStep
<1>. QED
  BY <1>1, <1>2, PTL DEF Spec

\* What an operator chose stays in the record, through probes, full reads and a reconnect,
\* where no write crossed another and none failed (SetServed, SetSynced, Adopt).
THEOREM DecisionsKept == Spec => []DecisionKept
<1>1. TypeInv /\ ChoiceInv => DecisionKept
  <2>1. SUFFICES ASSUME TypeInv, ChoiceInv, NEW t \in Tenants \ mishap, record[t] # None
                 PROVE  [serve |-> record[t].serve, sync |-> record[t].sync] = choice[t]
    BY DEF DecisionKept
  <2>2. record[t].serve = choice[t].serve /\ record[t].sync = choice[t].sync
    BY <2>1 DEF ChoiceInv, Obedient, As
  <2>3. choice[t] \in [serve : SUBSET Domains, sync : SUBSET Groups]
    BY <2>1 DEF TypeInv, TypeOK
  <2>. QED
    BY <2>2, <2>3
<1>. QED
  BY <1>1, AllObey, PTL

\* What an operator excluded is not in the snapshot once the choice has been answered, nor
\* later; but a group comes back by the patch of a lookup, and all of it where a write that
\* was under way met the choice or a call failed (SetServed, SetSynced, narrow, Refresh).
THEOREM ExcludedIsGone == Spec => []ExcludedGone
<1>1. TypeInv /\ ChoiceInv => ExcludedGone
  <2>1. SUFFICES ASSUME TypeInv, ChoiceInv, NEW t \in Tenants \ mishap,
                        snapshot[t] # None, ~Choosing(t)
                 PROVE  OnlyServed(snapshot[t], choice[t]) /\ OnlySynced(snapshot[t], choice[t])
    BY DEF ExcludedGone, OnlyServed, OnlySynced
  <2>2. \A k : k \notin Owed(t)
    <3>1. ASSUME NEW x \in Tasks, Narrowing(x, t) PROVE FALSE
      BY <2>1, <3>1, NarrowingIs DEF Choosing
    <3>. QED
      BY <3>1, OwedIs
  <2>3. Obeys(View(t), snapshot[t])
    BY <2>1 DEF ChoiceInv, Obedient
  <2>. QED
    BY <2>2, <2>3, ViewIs DEF Obeys
<1>. QED
  BY <1>1, AllObey, PTL

=============================================================================
