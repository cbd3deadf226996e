# access-roster in TLA+

A specification of the parts of access-roster whose correctness depends on what
several processes do to one store, or to one outside system, in what order: the
store's port and its adapters, the **lease** a reconciler runs under, the issuer's
**sign-ins, codes, sessions and signing keys**, the **GitHub** links and passes, the
**loop** that starts a pass, the directory **hub**, and the **migration** between
stores. Each is one module, model-checked by TLC on small instances. The safety of the
leases, the sessions, the sign-ins, the signing keys, the GitHub links and passes, the loop,
the hub with its schedule and the migration, and that the adapters implement the port, are also proved with TLAPS for every
value of the constants.

File and line references are to the repository this directory belongs to.

## 1. The system and its parts

access-roster is one Go binary with several jobs. `serve` is an OpenID provider
(the *issuer*), a directory hub, a policy and a console; `controller github` and
`controller slack` reconcile memberships from the same policy. It runs at several
replicas, with no database of record: everything shared goes through a set of
*ports* (`internal/port`) over NATS, DynamoDB or Valkey.

| Part | State it keeps | Operations | Talks to | What is hard | What makes it correct |
|---|---|---|---|---|---|
| **ports** (`internal/port`) | values with a lifetime and a revision; sets; blobs; sealed values | Create, Put, Update, Delete, DeleteIfRevision, Watch; Add, Remove, Members | every part | a call may be applied and its answer lost; no transaction spans two keys | compare-and-swap on a revision; an expired value is absent |
| **leases** (`internal/rails/lease.go`) | one record per target | Do: Acquire, keep/Renew, Release | State; every reconciler and exporter | timeouts against expiry; lost answers; death while holding | only the holder changes a live lease; a lost lease stops its tick soon; a target is never stuck |
| **sessions** (`internal/issuer/session.go`) | record per session, pointer per refresh token, successor per spent token, three sets of ids | Record, Refreshed, replayed, RevokeID, RevokeToken, Revoke, List, Sweep | State, Index; called by the token endpoint and the console | each operation is many store calls at any replica | a session ends at its limit; a revocation holds; a live session is findable and its client has a credential |
| **key rings** (`internal/issuer/keyring.go`) | entries, active key and published set per replica; entries and index in the store | Observe (record, absorb, refresh, recompute), Active, Published, Configure | State, Index; the key poller; each replica's mounted file | replicas see a rotation at different times; restarts; an unreachable store | publish before sign; overlap; one schedule |
| **authorization codes** (`internal/issuer/storage.go`) | authorization requests, codes, access tokens | code redemption, refresh, exchange, userinfo, revocation | sessions, key rings, policy | a code redeemed twice at once | one redemption; reuse ends what the code opened |
| **sign-ins and logout** (`signin.go`, `sso.go`, `backchannel.go`) | browser sessions and what was opened under each | Begin, End, EndFor, announce | sessions | sign-out against a sign-in in flight | sign-out everywhere leaves nothing open |
| **reconcile rails** (`internal/rails`) | journal, ledger, breaker, confirmations, reports | Loop, Watch, Pass, Vouch, Removal | leases, hub, policy | stale directory; too many removals; lost wake-ups | authoritative or held, never guessed |
| **GitHub** and Slack reconcilers | plans, reports, cursors | plan and apply | rails, external APIs | an API call that succeeded and timed out | converges to the policy |
| **port stores** (`internal/portstore`) | links, handoffs, gates, applications, workspaces | compare-and-swap updates | State, Sealed | a one-time token refreshed by two replicas | one refresh claim at a time |
| **hub** (`internal/hub`) | tenants, credentials, a snapshot per tenant, readers per replica | point and group lookups, Refresh, probe, SetServed, SetSynced, Connect, Disconnect; a schedule | State, Blob, directories | a patch, a full read, a probe and a choice overwrite one another; a contested domain | an absence is vouched for only if true; nothing is older than the freshness window; a choice holds |
| **migration** (`internal/migrate`) | a plan and a report, in memory | plan, copy, verify | two stores | a restart between any two calls; lifetimes running out | a run that ends well has copied what the source lists; nothing listed is touched |
| policy, identity, claims, exchange | none | pure decisions | | boundary cases | |
| server, console, CLI, charts, audit | none of their own | handlers and output | the above | | |

The parts in bold are modelled, in whole or in part. `PROJECT.json` lists every
component with the reason when it is not modelled, and the hazards of the code with
the properties that would catch each.

## 2. Modules

| Module | What it is |
|---|---|
| `PortState` | the abstract State port: one key, calls that take effect at one moment |
| `StateAdapters`, `StateAdaptersProofs` | the memory, NATS and DynamoDB adapters request by request; implements `PortState`; the proof that it does |
| `Runners` | the replicas of a controller, a constant of the next two |
| `Lease` | one target, any runners, the record and the four operations, in relative time |
| `PassLoop` | loop, watch, notifications and shared inputs of a reconciler, over a lease |
| `LeasedProofs` | proofs about both, and about `Refresher`: work that replicas share by a lease |
| `Sessions`, `SessionsProofs` | the session index and the requests that use it, one store call a step; proofs of types and limits, and of what happens to a session in its life |
| `SignIn` | authorization requests, codes, sign-ins and the ways to end them |
| `KeyRing` | several replicas' rings of one algorithm over one store, their files and the clock |
| `IssuerProofs` | proofs about both |
| `GitHubLinks`, `GitHubLinksProofs` | people's linked accounts: linking, checking, refreshing, adopting; proofs |
| `GitHubPass`, `GitHubPassProofs` | one organisation's pass from its first read to its report; proofs |
| `Hub`, `HubProofs` | lookups, full reads, probes and an operator's choices over the tenants' snapshots; proofs |
| `Refresher` | the replicas' schedule of full reads and its leases |
| `Migrate`, `MigrateProofs` | runs of the copy between two stores; proofs |
| `MC...` | the instance of each for TLC |

How they compose: `StateAdapters` instantiates `PortState` under a refinement mapping
(`Contract`). The other modules take the port as `PortState` states it: a call is
one step, it may fail, and its answer may be lost. `PassLoop` takes from `Lease` that
a lease is exclusive until it is released or its dead holder's record expires;
`SignIn` takes the operations of `Sessions` as one step each; `Refresher` takes a full
read of `Hub` as one that succeeds or fails.

Each specification module holds its mutants, operators marked `Mutant:` that stand
before the definition they replace and are used by no behaviour of the
specification; they are the plausible bugs each property is tested against.

### Lease

One action per instant that matters: `Acquire` is the store applying a Create,
`Begin` its answer reaching `Do`, `AcquireFails` the answer being lost;
`RenewApplied`, `RenewRefused` and `RenewUnreached` are what may become of an
Update, and `Answered` is `keep` acting on the answer; `TickReturns` and `Release`
end the tick; `Crash` may happen anywhere. Time counts down in timers and up in
ages, each capped at the largest value a guard or a property can tell apart, so the
state space is finite without a bound on the clock. Revisions are only compared
for equality, so one that nobody remembers may be handed out again.

The lifetime is three renewal periods (`TTL == 3 * Every`), as in `keep`; that a
call is answered within a renewal period (`CallTime <= Every`) is what the adapters'
timeouts give: 10 s (NATS) and 15 s (DynamoDB) against a third of two minutes.
`Timely` says whether timers fire on time; without it a runner may pause for any
time anywhere.

### Sessions

A request is a redemption of a sign-in, a refresh, a revocation by token or by id,
or a walk over one of the three sets (a listing, a bulk revocation, a sweep). It
moves through the code one store call at a time, and between two calls every other
request may move. `stage` is the function it is in, `pc` the next call. `Fail` ends
a request anywhere, which is what an error return does and what a dead replica
does.

- The random identifiers of the code (session ids, refresh tokens, access tokens)
  are the names of the requests that mint them.
- All sessions belong to one identity at one client: the three sets then list the
  same sessions, which is the case in which a missing one matters. The filters of
  a two-part query are left out with it.
- The client's gate (`entitled`) is a choice: it may refuse any refresh.
- The limit is whatever the policy says now (`SetLimit` moves it); `0` is none.
- Expiry is that of the ports: a value is absent from its expiry on, a set expires
  as a whole and `Add` refreshes it. (The NATS adapter expires each member alone;
  a member is then added for as long as, and later than, the record it names.)
- `spentAt`, `raced` and the field `late` are history variables: no guard reads
  them.

### KeyRing

`Observe` holds a mutex in the code, so a replica signs and answers its JWKS only
when it is `idle`; but each of Observe's store calls is one step here, interleaved
with the other replicas' steps. An entry is its `ActivateAt`; the key material is
the key's number. `FirstKey`, `Claim`, `ReadClaim` and `AddKey` are `record`;
`Members` and `Absorb` are `absorb`; `RefreshSet` and `RefreshAdd` are `refresh`;
`Recompute`, `DeleteKey` and `RemoveKey` are `recompute`; `Finish` returns, and the
first time stands for `Configure`, which follows the seeding `Observe` of
`NewKeyRings`. `sort.Slice` is not stable and the entries come from a map, so keys
that activate together are ordered by an arbitrary `tie`.

The environment: `Rotate` issues a key once the previous one is recorded and in
every file (rotations are weeks apart); `SyncFile` is the kubelet. `Tick` lets time
pass only while every live replica has begun an `Observe` within `Poll` and has a
file no more than `Sync` behind the key `issued` last: this is the assumption the
activation delay is chosen for. `Timings` states the margins: a delay longer than `Sync`
and a poll (15 minutes against about two in the deployment), an overlap as long as
`Sync`, two polls and a token, and a default overlap (65 minutes) as long as a poll. The
configured delay is no shorter than the default, and there is one rotation. The instance
for TLC assumes `Timings` (`InTime`), and so do the proofs. `Answer(FALSE)` is a failed
store call. `Crash` loses the ring, and `Boot` is the seeding `Observe` of a new process,
with the defaults and the file as it is then; `SyncFile` may come in between, as in a new
pod.

Both mishaps are in the model, in any order; `OneKind` says that only one of them has
happened, and is a condition of the properties. After both, a process that starts while
the store does not answer knows of no key, takes the one in its file for the
installation's first and signs with it at once (`PublishAlways`). `OverlapCovers` says
nothing, either, of restarts where the default overlap does not cover a poll and a token:
the lifetime of a token is configured, and the ring is seeded before it is
(`OverlapAlways`).

### PortState and StateAdapters

`PortState` is what a caller may rely on: a call begins (`Begin`), reads, writes or
removes at one moment, and is answered with a result or a refusal (`Missing`,
`Moved`, `Exists`, `Unavailable`). `saw` collects what the record
looked like to the call since it began, so that a refusal is justified by some
moment of it. Some things the interface's comments do not mention had to be
allowed. Two of them both engines do: a conditional write may still act on the
record it names when that record's lifetime ended during the call (expiry is judged
by a clock read earlier), and DynamoDB's `failedWith` may answer NotFound for a
record that has moved. A third concerns `Create` on NATS, which makes four rounds and
then answers ErrExists (`nats.go:531-565`): callers that delete the expired record
meanwhile leave a marker each time, which can use the rounds up although no live
record was ever there (three callers are needed). `saw` therefore also notes a
removal during the call; the proof of `Contract` shows that without one four rounds
suffice. A fourth: when NATS refuses the write and the read that would say why fails,
ErrConflict is answered (`nats.go:586-589, 632-635`) whatever became of the record
(`NatsWhy`), so `Moved` allows it also of a record that was seen as named and then gone.

`StateAdapters` has one action per request an adapter sends: memory's operations
under its lock; NATS' read, judgement and publish with an expected sequence, and the
four rounds of its `Create`; DynamoDB's conditional write with the time it was built
at, and the two answers `failedWith` tells apart. The server's own reaping of expired
records is an action, every request may fail, and every applied one may lose its
answer. The legacy Valkey adapter is outside: its revision is a hash of the
content, so a value written back is not a new revision, which `port.go:53` rules out
("changes on every write").

### PassLoop

Each runner has a loop (sweep, then a tick per target under the lease), a watch (a
poll of the digest, and a wake-up dropped when one is already waiting) and a handler
of notifications; the loop and the handler share inputs under one mutex, kept by
a key and for a time. A read of the port may fail: the watch then keeps the digest and
the requests it has, a key that cannot be read is like no other, and a part of the inputs
that cannot be read is empty, version 0. A tick whose lease cannot be asked for is left
out. The records and the gates an operator keeps are numbered by
version. On a `port` deployment a notification crosses processes and may be lost;
on a `mounted` one the files lag and only the own watch notifies.

### SignIn

Every HTTP request is a process that makes one store call a step. `Callback`,
`Recovery` and `Silent` are the ways in: the sign-in is written, listed, and the
authorization request completed, with the durable record first when the sign-in is a
recovery. `Redeem` starts a redemption: `AuthRequestByCode`, `Record` (the session,
one step here), the note of what the code opened and the deletion of the request.
The ways out are `signout`, `browser` (the console ends one sign-in), `everywhere`,
`sparing` (a sign-in past its absolute limit, whose clients are not told) and `drop` (a
sign-in the directory refuses): list, revoke each, announce, end. `hurt` marks a request that met a failed call; it is a
history variable, as `before` and `opened` are.

### GitHubLinks

A process is one operation on links: the page (link, and take the address from
whoever had it), the controller's check (ask GitHub about each link, refresh its
token pair, write what was found), the import of links nobody made, and replacing
the link App. The store's compare-and-swap edit re-reads on a conflict and so is one
step; `cur` says who has read a link as it stands, which is its revision. A
refresh token is good for one use: refreshing is a step at GitHub and a later step
at the store, with a death in between. `Overlap` allows two checks at once, which is
what a lost lease leads to. GitHub's token pairs are names from a set, used again once no
link or process refers to them; an exchange waits for a free name (`Names`, a bound).

### GitHubPass

Read the links, the confirmation, GitHub and the directory, each a step that people
may join, leave, link or be suspended around; derive who should be where, decide
(`Decide`), hold back what the guard forbids (the last seat, the breaker, an unconfirmed
removal), act one change at a time, record what is newly held and publish. A group
is what it feeds: the organisation, or a role in a team. Between two passes the
process may be another, which knows the last report only.

### Hub and Refresher

A request of `Hub` runs at one replica and makes one call a step: routing by the
records and the probes, the live question, the fall-back to the snapshot, the patch
of the snapshot with what was learnt, the narrowing after an operator's choice. A
full read is a flight shared by those who ask for it meanwhile. A replica that starts
reads and stores its declared tenants, each two steps (`StartAdopt`, `StartStore`; the
read may fail, and the record is then stored without domains), and opens or forgets the
others (`StartReopen`, which reads each record as it comes to it, where `reopenStored`
lists them first) before it serves anybody. An address may be a person's at one time and
a group's at another (`Named`). The environment moves accounts, memberships and whole domains between tenants; `moved`, `steady`,
`choice` and `mishap` are history variables that say what was true when. `mishap` has the
tenants whose record or snapshot was written while another request, full read or start of
a replica had it in hand, and those that a request left half changed.

`Refresher` is the schedule around it: tickers with a channel of one, leases of
three quarters of the interval, the pass at a start (`catchUp`, whose `now` is taken
once), and reads that take time. A lookup holds the snapshot it read and writes it back
with its old date (`old`, `hands`), as `pointLive` does, over any full read since (`ages`).
Time is kept as what is left, so it never ends. At least one replica is up. The probe loop in the same goroutine is left out.

### Migrate

A run plans every step, refuses or goes on, copies item by item and verifies. Items
differ in how they are written: one call, a record and then a credential, or a
set member by member. A run may end between any two calls and be run again, any
number of times; what either side holds runs out meanwhile. The source's writers are
stopped, as a run demands. A record that does not decode is presented as unreadable by
some kinds' stores (`Bad`) and passed over by the `List` of others (`Skipped`: links,
organisations, Slack workspaces, confirmations), on either side. Listing the links first
finishes the claims a crashed writer left (`FinishClaim`, dry runs too); a confirmation
and a pass request (`Gates`) get the destination's own lifetime. A workspace's record
that does not decode fails every run, so `Init` leaves it out. `between`, a history variable, is the time that has passed
between verify's two reads of a step. `Init` allows any contents of either side; the
instance in `MCMigrate` starts from any two keys populated.

## 3. What TLC checks

| Run | Bounds | Properties |
|---|---|---|
| `lease` | 2 runners, 4 revisions, period 2, call 1, timers on time, fair | `Attribution`, `OverlapBounded`, `HolderOnly`, `TargetNeverStuck` |
| `sessions` | 1 sign-in, 2 refreshes, 1 revocation by token, 1 by id, 1 walk; of the latter one at a time beside one refresh; window 2, grace 1, limits 2 and 3, time 3 | `TypeOK`, `AbsoluteLimit`, `NotStranded`, `SpentStaysSpent`, `Findable`, `RevocationHolds`, `ReplayAnswered` |
| `keyring` | 2 replicas, 2 keys, delay 3, overlap 4 (2 before `Configure`), two failed calls or one restart, time 9 | `OverlapCovers`, `PublishBeforeSign`, `AlwaysSigns` |
| `signin` | 1 authorization request, 1 code, 2 entrants of whom 1 recovers, 2 redemptions, 1 way out, 4 events | `ReuseEnds`, `SignOutHolds`, `ClientsTold`, `RecoveryRecorded` |
| `github_links` | 2 accounts, 1 address, 5 pairs, 2 Apps, 2 processes, 4 events, no overlapping checks | `LostOnRevocation`, `ClaimsFinish`, `RelinkKept` |
| `github_pass` | 2 accounts, 2 addresses, 1 team, at most 2 seats, 2 events | `RemovalJustified`, `SeatsKept`, `HeldRecorded`, `BreakerHolds` |
| `state_adapters` | 2 callers, 6 revisions, lifetime 2, call 1, all three engines | `Contract` |
| `pass_loop` | 1 runner, 1 change, 2 deaths or failed calls, both sources | `TickSeesRecords`, `WakeKept`, `Served` |
| `hub` | 1 replica, 2 tenants (one declared), 2 domains, 3 addresses of people, one of them also that of a group at another time, 2 groups, window 2, time 3, 1 event, 1 full read, 2 requests | `AbsenceTrue`, `StandingFresh`, `GroupsWhole`, `DecisionKept`, `ExcludedGone` |
| `refresher` | 2 replicas, 1 workspace, interval 4, reads up to 2, 2 slips, 2 snapshots in lookups' hands, any number of restarts (without lookups also 2 workspaces with reads up to 1 and 1 slip) | `FreshBound`, `ReadsSpaced` |
| `migrate` | a workspace, a link, a gate, a token and a set, any two populated, 2 values, 2 members, slack 2, lifetimes 0 or 3 (the destination's own 1 or 4), claims left on either side, any number of runs | `OkMeansCopied`, `ForeignKept`, `MismatchExplained` |

Why the bounds suffice. Four revisions are one more than two runners and the record
can have in use at a write, so a fresh one is always available; more add no state
but a renaming, and six do the same for two callers of an adapter. In `sessions` the
clock passes the grace, the window and both limits, so tokens, records and sets all
expire within a run; two refreshes are the least that can race for a token, replay
one another or refresh one another's successor. The constraint `FewAtOnce` lets two
refreshes, or a refresh and one walk or revocation, meet; larger meetings are not
explored. In `keyring` the clock passes the activation of the second key and the
retirement of the first; what follows mishaps of both kinds, of which the properties
say nothing, is cut off by the constraint `OneKind`. Its view
`Readable` leaves out what no later step or property reads (the time of issue once every
file shows the key, the key of a step that is over, a dead replica's clock). In `signin`
the single authorization request is completed and redeemed twice, the least for a
reuse, while one way out of any kind runs beside it. `pass_loop` has one runner: what
another does to it is hold the lease, which the record of a dead holder stands for; a
watch that failed its first read notices twice for one change, so wakes coalesce.
In `github_pass` two seats and two people make the last seat contested, and one of
two leaving is not more than half while two are. `hub`'s two tenants contest one
domain; two requests meet one full read and one change in the directories. The address
that is a group's and then a person's is asked about by a request alone. An
interval of 4 is the smallest that a quarter of divides. In `migrate` unlimited runs
make every half-copied state a start.

`sessions`, `signin`, `github_links`, `hub` and `state_adapters` switch deadlock
checking off: requests, events, the clock or names are finite, so a run really ends.
The others check it.

What the properties say:

- **Attribution, HolderOnly.** The revision in a runner's hand never passes for
  that of another's record, so a stale renewal or release does nothing; a live
  lease changes only by its holder or by the passing of time.
- **OverlapBounded.** A tick may still be writing when its lease is gone, for at
  most a renewal period and a call.
- **TargetNeverStuck.** Whatever answers are lost and runners die, some tick runs on
  the target again and again.
- **AbsoluteLimit.** No chain of refreshes carries a session past a limit the policy
  stated, even when the limit moves between two calls of one request.
- **NotStranded.** A live session that no failed or racing request has touched has
  a pointer for a token its client was given. A refresh that *fails* half way does
  strand its client; the property says nothing else does.
- **SpentStaysSpent.** A token spent more than a grace ago, with no refresh that read
  it still running, is never answered.
- **ReplayAnswered.** Within its grace a spent token is refused only when its session
  is over, its successor has been used up in turn, or the rotation never came past
  its last write: it is between its writes, failed there, or is ending the session.
  It supposes a refresh window no shorter than the grace, as configured.
- **Findable.** A settled live session is in all three sets: neither expiry nor
  self-repair hides it.
- **RevocationHolds.** A revocation that was answered has ended the session, unless
  a refresh already had the session in hand when it was ended.
- **PublishBeforeSign, OverlapCovers, AlwaysSigns.** No replica signs with a scheduled
  key another answering replica does not publish; a key whose delay is over at every
  replica and in its record stays published while a token it signed is valid; retirement
  never takes the last private half a replica holds, as long as its file lags no more than
  `Sync`. All through failed calls, or through restarts (for the overlap, where the
  default one covers a poll and a token).
- **ReuseEnds.** A code presented again after its request was deleted ends the session
  it opened, except where the note of that session was not written or has expired.
- **SignOutHolds.** A sign-out that met no failure leaves none of the sessions and
  sign-ins open that were open when it began.
- **ClientsTold.** Every client issued an ID token under the sign-in is told, after its
  session has ended.
- **RecoveryRecorded.** No recovery completes a request before it is on the durable
  trail.
- **LostOnRevocation.** While one check runs at a time, a link is marked lost only if its
  person revoked it, never because a token pair was lost in a refresh.
- **ClaimsFinish.** Two accounts prove one address only while the marker of a claim is
  there, for the claim or for the next reader to finish it, also when the claimant died.
  The exceptions are in `cut`: two claims of one account at once, or a reader that takes
  the marker up during a claim.
- **RelinkKept.** What a check writes never replaces a link newer than the one it read.
- **RemovalJustified.** Whoever leaves the organisation had a lost link, or no address the
  directory had throughout the pass; nobody leaves a team whose address held its groups
  throughout. What is incomplete or unvouched for removes nobody.
- **SeatsKept.** Members and pending invitations never exceed the seats, whoever accepts
  or leaves between the reads.
- **BreakerHolds.** More than half of the members leave only as an operator confirmed
  that very set.
- **HeldRecorded.** A row that becomes held is recorded, across restarts, switches on and
  off, failed passes and reports that could not be written or read, with two exceptions
  the model keeps in `trail.excused`: a record the recorder lost, which is only logged
  (`controller.go:632-634`, `audit.go:52-53`), and a row that a new process finds in a stored
  report that is not that of the last pass, or not of a pass that acted. Without the
  exceptions it is `HeldAlwaysRecorded`, which fails.
- **Contract.** Refinement: every behaviour of each adapter is one of the State port.
- **TickSeesRecords.** A tick works with records at least as new as those it could see
  when it began, or with none when they could not be read: a part that fails to read is
  left empty and kept like any other, so until `sharedTTL` passes ticks may find it empty
  (`TickHasRecords`, section below).
- **WakeKept, Served.** A change noticed while a sweep runs is swept for afterwards; every
  change is acted on in the end.
- **AbsenceTrue, StandingFresh, GroupsWhole.** What the hub vouches for: an absence was
  true when asked or later, a standing is no older than the freshness window, a group
  lists everyone who was in it all along. An address that the snapshot has for a group's
  is answered absent with nobody asked: that absence is as old as the window.
- **DecisionKept, ExcludedGone.** What an operator chose stays in the record, and what
  was excluded stays out of the snapshot, where no other request or full read had the
  record or the snapshot in hand meanwhile and no call failed (`mishap`). Even there the
  patch of a lookup brings back the excluded groups its account is in (`made`).
- **FreshBound.** How long the last full read that was stored may lie back: an interval
  and a pass, more by a known amount for every failed read (`SlipCost`: the lease, an interval and the reads before in
  a pass) and by less than an interval for restarts, however many. It takes `ReadsQuick`:
  the reads of a pass fit in the lease, and those before a workspace's in what `leaseFor`
  leaves of the interval; nothing in the code enforces that. It is not the age of the
  snapshot served, which a lookup may set back (`SnapshotFresh` below).
- **ReadsSpaced.** A workspace is not read twice under the lease within a lease's time.
- **OkMeansCopied.** A run that ends well leaves everything the source lists at the
  destination, no lifetime longer than the slack and the time that verify itself took
  between its two reads; the source's value was that much older when compared.
- **ForeignKept.** Without `--overwrite` the copy touches nothing the destination listed.
- **MismatchExplained.** A copy fails to verify for one of three reasons only: a source
  workspace without the credential that the destination keeps, a lifetime that is none
  or has changed by more than the slack, or a copy that ran out.

The modules state a little more that the runs leave out, and that holds when it is
added to a configuration: `TypeOK` of every module, `TokensWithinLimit` (Sessions),
`OneSchedule` (KeyRing, which is proved), `SsoListed` (SignIn), `NothingLeft` (Hub), `OwnLeaseExpired`
(Refresher, proved too), `NothingWritten` (also proved) and `RerunCopiesNothing` (Migrate).

### Where the code and its comments disagree

`sessions_revive` is a run that TLC must find violated, with its finding in
`PROJECT.json`: a refresh in flight writes a revoked session back (`RevocationEnds`).

The following are formulas of the modules that no run checks; each is violated when
it is added to the configuration of its module's run (with the constants named).

| Formula | What is said, and what happens |
|---|---|
| `Lease!SoleWriter` | `lease.go:20-21`; a holder cut off from the store goes on while another runner already holds the target |
| `Sessions!OneCredential` | `storage.go:867-869`; two refreshes that both read one token leave two live refresh tokens |
| `KeyRing!NoEarlySigning` | `keyring.go:29-31`; a replica restarted after a rotation signs with the new key at once |
| `KeyRing!PublishAlways` without the constraint | `keyring.go:145-148`, publish before sign; a replica that starts while the store does not answer gives the new key no delay (`keyring.go:287-291`) and signs with it while others have not read it |
| `KeyRing!OverlapAlways` without the constraint, or with `BootOverlap = 1`, `TokenLife = 3`, `Overlap = 6` | `keyring.go:148-153`; a restart retires a key by the default overlap, shorter than the configured one (`storage.go:341`), or finds neither the store nor the key |
| `SignIn!OneRedemption` | "A code used twice must be denied"; two redemptions that both read the request before either deletes it both open a session |
| `SignIn!SignInOutlivesFailure` | "If the first half fails the sign-in is still there"; `signin.go:670-671`; `signOut` only logs a failed `Revoke` and ends the sign-in all the same, leaving sessions that nothing lists |
| `GitHubLinks!ProvenByOne` | `githublinks.go:173-174`, an address held "by neither never"; two people claiming one address at once each take it from the other |
| `GitHubLinks!LostOnRevocation` with `Overlap = TRUE` | `controller/links.go:31-37`; two checks use one refresh token and the second marks the link lost |
| `GitHubPass!HeldAlwaysRecorded` | the comments on `StatusReader` (`controller.go:52-56`) and `recordNewlyHeld` (`controller.go:583-586`); a record is lost, or a new process starts from a report of a pass that did not act, or of one before the last |
| `GitHubPass!WiderRoleWins` | `docs/reference/policy.md:1108-1110`; `reconcile.go:424` decides per address, so of one person's two addresses the one that only a member group names sets the role back to member, and the next pass sets it again |
| `PassLoop!RequestNotDelayed` | `slackroster/controller/inputs.go:19-20`; a request for a pass can find kept inputs and wait for the next sweep |
| `PassLoop!TickHasRecords` | `slackroster/controller/inputs.go:36-38`, inputs are kept "per what is mounted (so a new record, credential or operator's request reads them again)"; records that could not be read (`records.go:169-216`) are kept as an empty part under the key of the good ones |
| `Hub!WholeAlways` | `snapshot.go:118-119`; a patch brings a group into the snapshot with the one member it learnt of |
| `Hub!NeverReportedAbsent` | `hub.go:512-515`, "an account created since the last pass must never be reported absent"; an account made at an address that was a group's is, until the next full read (`hub.go:545`) |
| `Hub!ExcludedForGood` | `hub.go:1184-1186`; a lookup's patch puts the groups of its account back into the snapshot, the excluded ones too (`snapshot.go:265-278`) |
| `Hub!AbsentIsGone` | `workspace.go`, "the old tenant stops serving it the moment the directory stops listing it"; until the next probe the old tenant vouches for absences in a domain that has moved |
| `Hub!NeverAges` | `snapshot.go`, a patch "makes the snapshot a little fresher"; a patch of a snapshot read before a full read writes the older one back |
| `Hub!ChoiceHolds` | a probe's whole-record write undoes a `SetServed` it did not see |
| `Hub!ReaderCurrent` with two replicas | `hub.go:170`; a replica keeps the reader it opened before a reconnect elsewhere |
| `Refresher!RestartExtendsNothing` | `background.go:98-99`; a restart just before a tick makes the snapshot older by up to an interval |
| `Refresher!SnapshotFresh` | `background.go:8-11`, "a refresher that replaces each workspace's snapshot every RefreshInterval"; a lookup that held the snapshot during the read writes it back, and it is served for another interval |
| `Refresher!OwnLeaseExpired` with `N = 2`, `ReadTime = 2` | `background.go:151-153`; when reads differ by more than a quarter interval a replica meets its own lease |
| `Migrate!RerunCompletes` | `migrate.go:26-28`, "A re-run after a failure plans again and so copies exactly what is missing"; a half-written workspace or set is a conflict for the re-run |
| `Migrate!CopyNotLonger` | `port/export.go:23-25`, "a session moved to another store expires when it would have"; the copy outlives its source by the time between plan and write, and beyond `ttlSlack` never verifies |
| `Migrate!OkMeansAll` | `docs/operations/migrate.md:119-120` and `domains.go:174-177`: what does not decode is reported; most kinds' `List` passes over it, and the run ends well |
| `Migrate!NothingReplaced` | `migrate.go:105-107`, "Without it a destination value that differs fails the run"; one that its `List` passes over is planned new and replaced |
| `Migrate!DryWritesNothing` | `migrate.go:103-104`, "plans and reports and writes nothing"; listing the links finishes claims on both sides |

Smaller ones, met while modelling and visible in the actions named:

- `session.go:310-312` says a replay can never find a successor that is not yet
  resolvable; it can, between `SetRotated` and `SetPointer`, which is the exception
  `ReplayAnswered` makes.
- `session.go:574-577` says `Sweep` drops ids; it only counts them (`Scan`).
- `keyring.go:121-127` says every replica reads back the same schedule; after a
  failed `SetIfAbsent` a replica keeps its own (`Claim`), writes it over the recorded
  one (`RefreshSet`) and never reads another (`Members` passes over known ids).
- `keyring.go:371-375` says a later poll cleans an index entry without a record; only
  entries the replica holds are ever removed (`RemoveKey`).
- `keyring.go:492-493` says `Active` is nil only before the first `Observe`; a replica
  whose file lags beyond activation and overlap retires its only private key
  (`Recompute`).
- `background.go:13-16` says the lease is held for the whole interval; `leaseFor` is
  three quarters of it.
- `watch.go:99-100`: a change between a process's first read and the watch's first
  digest is not noticed by the watch, only by the next sweep (`WatchStart`).
- Migration: a set without a lifetime is written for a day (`TtlOrDay`) and then never
  verifies; a credential without a record at the destination is overwritten without
  a conflict; a pass request too close to the destination's own fails the run;
  verification accepts any shorter lifetime.

### Fairness

`Lease!FairSpec`: time passes; a timer that fired and an answer that arrived are
served (goroutines are scheduled); a tick whose context is cancelled returns, as
its next call fails; a runner keeps trying (its loop wakes at every interval) and
is not refused by the network for ever, hence strong fairness of `Acquire` and
`Begin`. How long a tick runs is not assumed, and neither is the absence of
crashes.

`PassLoop!Fairness`: the lease of a dead holder expires, mounted files catch up, the
loop's timer fires, a dead runner is started again and a thread that can move does
(weak fairness); a thread waiting for the mutex gets it (strong fairness: Go's mutex
hands over after a millisecond of starvation). Notifications may all be lost and the
watch need not run: `Served` rests on the interval alone.

The other modules are checked for safety.

## 4. What is proved

For any set of runners, any revisions and any periods that meet `LeaseAssumption`:

- `LeasedProofs!LeaseTypeCorrect`, and from it
- `AttributionHolds` and `HolderOnlyHolds`. Attribution is not inductive: a renewal
  in flight has changed the record's revision, and its runner holds the old one.
  `RevInv` adds that the revisions of different runners, in hand and in flight, are
  distinct and that the record's holder is the only one with its revision; a fresh
  revision is one nobody remembers.
- `OverlapBoundedHolds`. `TimingInv` relates, for each place a runner can be in, the
  time since the store last applied its write to the timer and the age its keeper
  holds (`since <= age + ...`), which is what survives a tick of the clock: when time
  passes no timer is overdue, so no age runs ahead.

For any number of requests of each kind and any lifetimes that meet
`SessionsAssumption`:

- `SessionsProofs!TypeCorrect`: `TypeOK` with `Shape`, what each place in the code
  knows of the request (its stage, that it has a session in hand). Without `Shape`
  types are not inductive: the tables that say where a lookup leads have rows only
  for the stages that look up.
- `AbsoluteLimitHolds`. The record obeys the limit because the end a refresh is
  about to write obeys it (`LimitInv`); that end was computed one call earlier,
  under a limit that may since have moved, which is why the property speaks of *a*
  limit the policy has stated. Lemma `CapEndCapped` is the arithmetic, `PutFromMint`
  and `RecordFromPut` say that no other step computes or writes an end.

- `RevocationHolding`, `SpentStays`, `AlwaysFindable`,
  `NeverStranded`, and the action property `ReplaysAnswered`. None of the five is
  inductive: what a request does next depends on what it read some calls ago.
  `LifeInv` says what each place knows of the store (`Owned`: the session it names was
  recorded, the token it works with was minted), that a pointer is written once, by
  the request that minted its token (`Tokens`), that a late presentation can reach
  only places that refuse (`Late`), that a session is over for good once nobody has it
  in hand (`Ended`), and that a live session is in every set, and has a pointer that
  lives as long, or some request is about to write them (`Listed`, `Carried`).

For any engines, callers and lifetimes with a call shorter than a lifetime, and
revisions that do not run out:

- `StateAdaptersProofs!Implements`: the refinement `Spec => Contract`, each step of an
  adapter being a step of the port or none. `AdapterInv` says that a call has seen what
  its refusal will name: the revision it holds cannot come back, the record live when
  its request was built was seen so, and a `Create` has rounds left for every change
  that what is stored can still undergo (`Rank`, `Lasting`).

For any runners, changes, deaths and failed calls:

- `LeasedProofs!TickSeesRecordsHolds`, `WakeKeptHolds`. `LoopInv` adds that kept inputs
  are empty or not behind the key they are kept by (`Remembered`) and that the key under the
  mutex is not behind what the tick could see when it began (`Guarded`): without the
  mutex a tick could be handed inputs that another thread computed earlier.

For any requests, codes and people, and any number of failed calls:

- `IssuerProofs`: `RecoveryRecordedHolds`, `ReuseEndsHolds`, `SignOutHolding`,
  `ClientsToldHolds`, on `Roles`, which says what handler a request is in at each place.
  `RecoveryInv`: what is complete under a recovery is on the trail, and whoever ended a
  sign-in unhurt has ended it for good. `ReuseInv`: the one session of a redeemed
  request is noted or has ended, at every place between the redemption's calls.
  `LeaveInv`: what a sign-out saw open is under the sign-in, then in its list, then
  ended, and each live sign-in is in the identity's set or being ended by somebody.

For any replicas, delays, overlaps, polls, lags and token lifetimes with the margins of
`Timings`, and any number of failed calls or of restarts, until both have happened
(`OneKind`):

- `IssuerProofs!RingTypeCorrect` (which needs no `Timings`), `PublishesBeforeSigning`,
  `OverlapIsEnough`, `SignsAlways` and `ScheduleIsOne`. All but the first rest on `OneKind => RingInv`.
  Its common part says what a ring holds at each step of Observe (`Held`), that a replica
  has the new key in hand once the lag is over (`Seen`), and that nobody activates it
  within the default delay of its issue (`Waits`), by when every replica has noticed it
  (`SecondIsLate`). That the old key is still published is argued in two ways. When no
  replica was restarted, each schedule of the new key, however many there are for want of
  the store, lies between a delay after its issue and a lag and a poll more
  (`Uninterrupted`, `StoreLags`), so the earliest retirement comes after the last token.
  When no call failed there is one schedule, the recorded one, and until an overlap after
  it the record and the index entry of the old key stay, so a replica that comes up absorbs
  it before it answers (`Recorded`, `StoreKeeps`); that overlap is the default one where
  it is shorter, which still outlasts every replica's poll, and the last token if it
  covers that as well. `FirstIsHeld` joins the two.

For any accounts, addresses, token pairs, Apps and processes:

- `GitHubLinksProofs`: `RelinkKeptHolds`, `ClaimsFinishHolds`, `LostOnRevocationHolds` and
  `PairedHolds`, on `Sound`, which says what operation and account a process is about at
  each place. `ReadInv`: a link that a check has read as it stands is what the check
  holds or more, so what it writes keeps the person's own pair and adds no address.
  `ClaimInv`: whenever two accounts prove one address, the claim of one is open, that is,
  its marker is there and every process that will take it away has yet to come to the
  other link with all of the claim's addresses. `PairInv`, for one check at a time: every
  pair in a link or in a process's hand is honoured, or was revoked, or is marked as
  being refreshed; a pair is dead for any other reason only between the exchange and the
  write, and then the marker is in the store. `LostOnRevocationHolds` assumes `~Overlap`,
  without which it is false (section 3).

For any finite set of accounts and any addresses, teams, seats and events:

- `GitHubPassProofs`: `BreakerHolding`, `RemovalsJustified`, `SeatsAreKept` and
  `HeldAreRecorded`, on `Shape`: a pass works on the teams that exist, what it decided is
  well formed, and it knows nothing before it starts. `ApprovalInv`: what the console has as
  confirmed, and what the pass read of it some steps ago, an operator confirmed. `Witness`:
  each answer a pass vouches for was true at a moment of that pass, however the directory
  changed since, which is what makes a decision on several answers of different moments
  just. `SeatInv` counts the invitations a pass still has to send against the seats it
  read as free, while invitations are accepted, expire and members leave; it needs that
  whoever is invited now was invited when the pass read it. `TrailInv`: whatever a later
  pass may take as recorded (the ledger of its process, the stored report while it is that
  of the last acting pass) was recorded or is excused.

For any replicas, workspaces, interval, reads, phases, restarts and failures:

- `LeasedProofs!ScheduleTypeCorrect` and the action property `ReadsAreSpaced` (`Spaced`: the
  time since a lease was taken and what is left of it make up the lease).
- `StaysFresh`, which assumes `ReadsQuick`. How long ago the last full read was depends on
  who reads next, and that on the leases, the failures and the restarts since, so `FreshBound` is
  far from inductive. `Placed` says how far a pass can be when its ticker stands at a
  given time. `OnTime` adds four facts of each workspace. `Tight`: while no process has
  ended, some replica comes, or reads, no later than an interval after the last snapshot.
  `Attended`: every replica that is up comes in time, or one of them is engaged; `Settled`:
  it is so too if all of them stop and one starts. `LeaseTold` says why a taken lease does
  no harm: its read is under way, or is done and whoever made it comes again after the
  lease's end, or failed and the slip has paid for it, or another reads without it. A
  refusal is harmless by the last, a failure by `Loose`, a start by `Settled`. `Dated`: no
  snapshot, stored or in a lookup's hand, is younger than the last full read, so what a
  start leaves alone was read in time.
- `OwnLeaseIsExpired`, which assumes `ReadsQuick` too: the sentence of `leaseFor` that a
  replica on schedule always finds its lease expired. `OwnLease` follows a lease through
  its replica's restarts.

For any keys, contents, lifetimes and slack:

- `MigrateProofs`: `ForeignKeptHolds`, `NothingWrittenHolds`, `OkMeansCopiedHolds` and the
  action property `MismatchExplainedHolds`. They speak of what a `List` presents, and
  count the claims a listing finishes with what was held; `ClaimsDone` says those are
  finished before the first step is planned. `KeptInv` ties the plan to what the
  destination held when the run began; `CopiedInv` follows a key from verify's first
  read to the end of the run while both sides run out; `ExplainedInv` follows it from
  the plan through its calls until it is compared.

For any replicas, tenants, domains, people, groups, requests and events, and any freshness
window:

- `HubProofs`: `AbsencesTrue`, `StandingsFresh`, `GroupsAreWhole`, `DecisionsKept` and
  `ExcludedIsGone`, on `Shape`, which says what calls a request and a full read have
  made at each place. The first three speak of one answer at the moment it is given,
  and what it is made of was read at different earlier moments, by other requests, and
  written back over newer values. `TruthInv` therefore says of everything in the store and
  in every hand what it was worth when it was read: a record's domains were the tenant's
  at its probe, a snapshot's accounts had their standing since its date less the time of
  a full read, who has been in a group all along is in it. These are statements about
  the directories (`Moment`) that no later moment falsifies (`Later`, with a lemma for
  each kind of thing held), so a step need only be shown true of what it writes. `Vouched`
  carries the answer. The last two rest on `ChoiceInv`: the record, what every request
  and full read holds of it and what they are about to write agree with the operator's
  choice, except for what a request that stored a choice has yet to narrow (`Owed`).
  `View` is all that this depends on of a tenant, so a request of another tenant is
  shown harmless once. A choice changes at three places (a stored choice, a new tenant's
  connect, a declared tenant stored by a start), and each finds nobody else with the record in hand or puts the
  tenant in `mishap`.

Each module's `TypeCorrect` is the first layer of its argument.

The constants are assumed to be what the code makes them (positive durations, names
that are not each other's, a call shorter than a lifetime); nothing else is assumed. In
`Sessions`, `SignIn` and `Migrate` different kinds of requests or keys have different
names; the bounds of the runs on time and events are arbitrary numbers in the proofs.

Five properties changed because their proof failed, and TLC confirmed it with larger
bounds: the earlier `ReplayAnswered` overlooked a successor that was used up by a third
refresh, the earlier `OkMeansCopied` the time between verify's two reads, the earlier
`DecisionKept` a replica that starts, and writes the declared choice, while a probe at
another holds the record, the earlier `FreshBound` that each failure can also cost the
reads before in the pass that makes up for it (interval 8, reads of 2, 3 failures), and the
earlier `OverlapCovers` a replica that restarts, signs with the new key for want of
another, and dies again: its token is live, no other replica has the key yet, and its
delay is running in the record (2 restarts). `ClaimsFinish`
became stronger: the marker is there also while the claim is under way.

Only model-checked:

- liveness, `TargetNeverStuck` and `Served` (out of the prover's reach);
- the formulas that no run checks, and all disagreements below the runs.

Neither the run nor the proofs of `KeyRing` follow a second rotation, and its properties
are silent once calls have failed and replicas have been restarted.

## 5. Plan

1. **Proofs**: `KeyRing` over any number of rotations; its invariant names the two keys.
2. **The Slack pass** (`slackroster/reconcile`, `controller/apply`), beside `GitHubPass`.
3. **Abstract specifications**: a lease as a lock with a bounded overlap, implemented
   by `Lease`; a session as a set of live ids with an end, implemented by `Sessions`
   where no refresh races a revocation.
4. **Exports**: the runner under a lease and its cursor.
5. **Pure algorithms**: the policy's effective limit, group scoping and gates, as
   operators against a reference definition.

## 6. Not modelled

Formatting, logging, metrics, HTTP and cookies; the contents of tokens; the choice of
an algorithm per audience (each ring is independent); clock skew between replicas
(one clock; the overlap's own skew allowance is left out with it); expiry of key ring
records after 30 days without a replica; List, Watch, Index, Blob and Sealer of the
adapters; the Valkey store; ignored addresses and logins, invitations by address and
outside collaborators at GitHub; the Slack API; which steps of a migration are left
out (`--skip`, a port that is not supported) and its report; and the external systems
behind the ports. Much of the repository's Go is generated code, API clients, page
handlers and wiring, which keep no state of their own.
