------------------------------ MODULE PassLoop ------------------------------
(***************************************************************************)
(* What makes a reconciler tick, and on what: the loop and the watch       *)
(* (internal/rails/loop.go, watch.go), the trigger (internal/port), and    *)
(* the Slack controller's sweep, notified tick and shared inputs           *)
(* (internal/slackroster/controller).  The GitHub controller runs the same *)
(* loop, watch and trigger and shares no inputs between ticks.             *)
(*                                                                         *)
(* The console changes records, and keeps gates: an operator's request for *)
(* a pass, or a confirmation of a removal.  Both are numbered by version.  *)
(* Each runner has a loop, a watch and a handler of notifications; the     *)
(* loop and the handler tick the one target under its lease, with inputs   *)
(* that one mutex guards and that are kept by a key and for a time.  On    *)
(* "port" the runner reads the State port and a notification crosses       *)
(* processes, and may be lost; on "mounted" it reads files that lag behind *)
(* and is notified by its own watch alone.                                 *)
(*                                                                         *)
(* The waits (the interval, the policy retries, the poll) are left to the  *)
(* scheduler: a timer may fire at any moment.  The lease is Lease's, held  *)
(* until it is released or its dead holder's record expires.               *)
(***************************************************************************)
EXTENDS Naturals, Runners

CONSTANTS
    Sources,    \* where a deployment keeps its records: "port", "mounted"
    MaxSaved,   \* bound: versions of the records and of the gates, together
    MaxMishaps  \* bound: runners that die, reads and lease calls that fail

ASSUME PassLoopAssumption ==
    /\ Sources \subseteq {"port", "mounted"}
    /\ {MaxSaved, MaxMishaps} \subseteq Nat
    /\ MaxSaved >= 2
    /\ NoOne \notin {"loop", "handler"}

Thread == {"loop", "handler"}

VARIABLES
    source,     \* this deployment's
    saved,      \* what the console has saved: the records, the gates, the last request
    mount,      \* mounted: what of it a runner's files show
    pc,         \* where each thread of each runner is
    mutex,      \* sharedInputs.mu: who holds it
    key,        \* the key computed under it
    cache,      \* sharedInputs: the inputs, their key, and whether they are recent
    in,         \* the inputs a tick works with
    wake,       \* the channel that ends the loop's wait
    pending,    \* a notification waiting for the handler
    watch,      \* the watch: where it is, the last digest and request it saw, whether the
                \* digest changed, the change it acted on
    lease,      \* who holds the target's lease
    mishaps,    \* deaths and failures, so far
    done,       \* history: the newest inputs a finished tick had
    begun,      \* history: what a thread could see when its tick began
    swept       \* history: the records there were for the runner's last sweep to read

local == <<pc, mutex, key, cache, in, wake, pending, watch, begun, swept>>
vars == <<source, saved, mount, local, lease, mishaps, done>>

----------------------------------------------------------------------------
\* Versions are numbered from 1; 0 is what could not be read.
Unread == [record |-> 0, gate |-> 0]

NoCache == [inputs |-> Unread, key |-> Unread, recent |-> FALSE]

\* What a runner reads now.
View(r) == IF source = "port" THEN saved ELSE mount[r]

Inputs(v) == [record |-> v.record, gate |-> v.gate]

\* inputKey: on mounted files, every file; on the State port, the revisions
\* of the workspaces' and the channels' records.
InputKey(v) ==
    IF source = "mounted" THEN Inputs(v) ELSE [record |-> v.record, gate |-> 0]

Newest(a, b) == [f \in DOMAIN a |-> IF a[f] < b[f] THEN b[f] ELSE a[f]]

Goto(r, t, to) == pc' = [pc EXCEPT ![r][t] = to]

Up(r) == pc[r]["loop"] # "down"

Idle == [t \in Thread |-> IF t = "loop" THEN "sweep" ELSE "idle"]

NoWatch == [at |-> "off", record |-> 0, asked |-> 0, changed |-> FALSE, noticed |-> 0]

\* A call is answered, or fails.
Answer(ok) ==
    \/ ok /\ mishaps' = mishaps
    \/ ~ok /\ mishaps < MaxMishaps /\ mishaps' = mishaps + 1

\* A read of the State port is; mounted files are there.
PortRead(ok) == Answer(ok) /\ (~ok => source = "port")

Init ==
    /\ source \in Sources
    /\ saved = [record |-> 1, gate |-> 1, asked |-> 0]
    /\ mount = [r \in Runner |-> saved]
    /\ pc = [r \in Runner |-> Idle]
    /\ mutex = [r \in Runner |-> NoOne]
    /\ key = [r \in Runner |-> Unread]
    /\ cache = [r \in Runner |-> NoCache]
    /\ in = [r \in Runner |-> [t \in Thread |-> Unread]]
    /\ wake = [r \in Runner |-> FALSE]
    /\ pending = [r \in Runner |-> FALSE]
    /\ watch = [r \in Runner |-> NoWatch]
    /\ lease = NoOne
    /\ mishaps = 0
    /\ done = Unread
    /\ begun = [r \in Runner |-> [t \in Thread |-> Unread]]
    /\ swept = [r \in Runner |-> 0]

----------------------------------------------------------------------------
(* The console.                                                            *)

\* Notify, from process p: every subscriber on the State port, or those whose
\* watch is up; this process's own on the in-process trigger.
Notified(p) ==
    {S \in SUBSET {r \in Runner : Up(r)} : source = "port" \/ S = {p} \cap Runner}

Deliver(S) == pending' = [r \in Runner |-> pending[r] \/ r \in S]

\* A record, a channel or a credential is saved, and the target notified.
Change ==
    /\ saved.record + saved.gate < MaxSaved
    /\ saved' = [saved EXCEPT !.record = @ + 1]
    /\ \E S \in Notified(NoOne) : Deliver(S)
    /\ UNCHANGED <<source, mount, pc, mutex, key, cache, in, wake, watch, begun, swept,
                   lease, mishaps, done>>

\* An operator's request is kept (requestPass), or a confirmation is.
Ask(request) ==
    /\ saved.record + saved.gate < MaxSaved
    /\ saved' = [saved EXCEPT !.gate = @ + 1, !.asked = IF request THEN @ + 1 ELSE @]
    /\ \E S \in Notified(NoOne) : Deliver(S)
    /\ UNCHANGED <<source, mount, pc, mutex, key, cache, in, wake, watch, begun, swept,
                   lease, mishaps, done>>

\* The kubelet brings a runner's files up to date.
Sync(r) ==
    /\ source = "mounted"
    /\ mount[r] # saved
    /\ mount' = [mount EXCEPT ![r] = saved]
    /\ UNCHANGED <<source, saved, local, lease, mishaps, done>>

----------------------------------------------------------------------------
(* The watch.                                                              *)

\* Run reads the digest as it is at its start ...
WatchStart(r) ==
    /\ Up(r)
    /\ watch[r].at = "off"
    /\ \E ok \in BOOLEAN :
          /\ PortRead(ok)
          /\ watch' = [watch EXCEPT ![r] = [@ EXCEPT !.at = "start", !.record = IF ok THEN View(r).record ELSE 0]]
    /\ UNCHANGED <<source, saved, mount, pc, mutex, key, cache, in, wake, pending, begun,
                   swept, lease, done>>

\* ... and then the requests, which the first pass answers.
WatchStarted(r) ==
    /\ watch[r].at = "start"
    /\ \E ok \in BOOLEAN :
          /\ PortRead(ok)
          /\ watch' = [watch EXCEPT ![r] = [@ EXCEPT !.at = "poll", !.asked = IF ok THEN View(r).asked ELSE 0]]
    /\ UNCHANGED <<source, saved, mount, pc, mutex, key, cache, in, wake, pending, begun,
                   swept, lease, done>>

\* At every poll it reads the digest, which is the last one if it cannot ...
WatchPoll(r) ==
    /\ watch[r].at = "poll"
    /\ \E ok \in BOOLEAN :
          /\ PortRead(ok)
          /\ watch' = [watch EXCEPT ![r] =
                [watch[r] EXCEPT !.at = "requests",
                                 !.record = IF ok THEN View(r).record ELSE watch[r].record,
                                 !.changed = ok /\ View(r).record # watch[r].record]]
    /\ UNCHANGED <<source, saved, mount, pc, mutex, key, cache, in, wake, pending, begun,
                   swept, lease, done>>

\* What the requests it can read have the watch do: a newer one is notified.
Requested(r) ==
    \E ok \in BOOLEAN :
       LET newer == ok /\ View(r).asked > watch[r].asked IN
       /\ PortRead(ok)
       /\ watch' = [watch EXCEPT ![r] =
             [watch[r] EXCEPT !.at = "poll", !.changed = FALSE,
                              !.asked = IF newer THEN View(r).asked ELSE watch[r].asked,
                              !.noticed = IF watch[r].changed THEN watch[r].record
                                                              ELSE watch[r].noticed]]
       /\ \E S \in IF newer THEN Notified(r) ELSE {{}} : Deliver(S)

\* Mutant: a change found while nobody is waiting for one is let go.
WatchRequestsDrops(r) ==
    /\ watch[r].at = "requests"
    /\ Requested(r)
    /\ wake' = [wake EXCEPT ![r] = @ \/ (watch[r].changed /\ pc[r]["loop"] = "wait")]
    /\ UNCHANGED <<source, saved, mount, pc, mutex, key, cache, in, begun, swept, lease,
                   done>>

\* ... and the requests, and wakes the loop if the digest changed.
WatchRequests(r) ==
    /\ watch[r].at = "requests"
    /\ Requested(r)
    /\ wake' = [wake EXCEPT ![r] = @ \/ watch[r].changed]
    /\ UNCHANGED <<source, saved, mount, pc, mutex, key, cache, in, begun, swept, lease,
                   done>>

----------------------------------------------------------------------------
(* The loop and the handler.                                               *)

\* Run: the timer fires ...
LoopTimer(r) ==
    /\ pc[r]["loop"] = "wait"
    /\ Goto(r, "loop", "sweep")
    /\ UNCHANGED <<source, saved, mount, mutex, key, cache, in, wake, pending, watch, begun,
                   swept, lease, mishaps, done>>

\* ... or the loop is woken.
LoopWake(r) ==
    /\ pc[r]["loop"] = "wait"
    /\ wake[r]
    /\ wake' = [wake EXCEPT ![r] = FALSE]
    /\ Goto(r, "loop", "sweep")
    /\ UNCHANGED <<source, saved, mount, mutex, key, cache, in, pending, watch, begun, swept,
                   lease, mishaps, done>>

\* A notification is handed to the handler.  The dispatcher of nats and
\* dynamodb waits for it to return; the in-process trigger does not, and the
\* second call finds the target leased.
Dispatch(r) ==
    /\ Up(r)
    /\ pending[r]
    /\ pending' = [pending EXCEPT ![r] = FALSE]
    /\ \/ pc[r]["handler"] = "idle" /\ Goto(r, "handler", "lease")
       \/ pc[r]["handler"] # "idle" /\ source = "mounted" /\ pc' = pc
    /\ UNCHANGED <<source, saved, mount, mutex, key, cache, in, wake, watch, begun, swept,
                   lease, mishaps, done>>

\* RunTarget, Leases.Do: the tick begins, or is left to who holds the target
\* or, where the lease cannot be asked for, to the next.
RunTarget(r, t) ==
    /\ pc[r][t] = "lease"
    /\ \/ /\ lease = NoOne
          /\ Answer(TRUE)
          /\ lease' = <<r, t>>
          /\ begun' = [begun EXCEPT ![r][t] = Inputs(View(r))]
          /\ Goto(r, t, "inputs")
       \/ /\ Answer(lease # NoOne)
          /\ Goto(r, t, IF t = "loop" THEN "wait" ELSE "idle")
          /\ UNCHANGED <<lease, begun>>
    /\ UNCHANGED <<source, saved, mount, mutex, key, cache, in, wake, pending, watch, swept,
                   done>>

\* inputs: the key is computed under the mutex ("sweep" is Pass's fresh read);
\* one that cannot be read is like no other.
ComputeKey(r, t) ==
    /\ pc[r][t] \in {"sweep", "inputs"}
    /\ mutex[r] = NoOne
    /\ mutex' = [mutex EXCEPT ![r] = t]
    /\ \E ok \in BOOLEAN :
          PortRead(ok) /\ key' = [key EXCEPT ![r] = IF ok THEN InputKey(View(r)) ELSE Unread]
    /\ UNCHANGED <<source, saved, mount, pc, cache, in, wake, pending, watch, begun, swept,
                   lease, done>>

\* Where inputs returns to: RunTarget after the fresh read, the tick otherwise.
Return(r, t, inputs) ==
    /\ mutex' = [mutex EXCEPT ![r] = NoOne]
    /\ key' = [key EXCEPT ![r] = Unread]
    /\ IF pc[r][t] = "sweep"
       THEN Goto(r, t, "lease") /\ swept' = [swept EXCEPT ![r] = View(r).record] /\ in' = in
       ELSE Goto(r, t, "work") /\ in' = [in EXCEPT ![r][t] = inputs] /\ swept' = swept

KeptServes(r) == cache[r].recent /\ cache[r].key = key[r] /\ key[r] # Unread

\* The kept inputs serve ...
UseCache(r, t) ==
    /\ mutex[r] = t
    /\ pc[r][t] = "inputs"
    /\ KeptServes(r)
    /\ Return(r, t, cache[r].inputs)
    /\ UNCHANGED <<source, saved, mount, cache, wake, pending, watch, begun, lease, mishaps, done>>

\* What readInputs returns: a part that cannot be read is left empty.
Readable(r) ==
    {[record |-> x, gate |-> y] : x \in {View(r).record, 0}, y \in {View(r).gate, 0}}

\* Mutant: what was read is kept under the key of the time it was kept.
ReadInputsThenKey(r, t) ==
    /\ mutex[r] = t
    /\ pc[r][t] = "sweep" \/ ~KeptServes(r)
    /\ mishaps' = mishaps
    /\ \E old \in {key[r]} :
          cache' = [cache EXCEPT ![r] = [inputs |-> [Inputs(View(r)) EXCEPT !.record = old.record],
                                         key |-> InputKey(View(r)), recent |-> TRUE]]
    /\ Return(r, t, cache'[r].inputs)
    /\ UNCHANGED <<source, saved, mount, wake, pending, watch, begun, lease, done>>

\* ... or are read again, and kept under the key computed before, whatever of
\* them could be read.
ReadInputs(r, t) ==
    /\ mutex[r] = t
    /\ pc[r][t] = "sweep" \/ ~KeptServes(r)
    /\ \E inputs \in Readable(r) :
          /\ Answer(inputs = Inputs(View(r)))
          /\ cache' = [cache EXCEPT ![r] = [inputs |-> inputs, key |-> key[r], recent |-> TRUE]]
          /\ Return(r, t, inputs)
    /\ UNCHANGED <<source, saved, mount, wake, pending, watch, begun, lease, done>>

\* sharedTTL passes.
CacheAges(r) ==
    /\ Up(r)
    /\ cache[r].recent
    /\ cache' = [cache EXCEPT ![r].recent = FALSE]
    /\ UNCHANGED <<source, saved, mount, pc, mutex, key, in, wake, pending, watch, begun, swept,
                   lease, mishaps, done>>

\* The tick decides, acts and publishes, and the lease is released.
Finish(r, t) ==
    /\ pc[r][t] = "work"
    /\ done' = Newest(done, in[r][t])
    /\ lease' = NoOne
    /\ in' = [in EXCEPT ![r][t] = Unread]
    /\ begun' = [begun EXCEPT ![r][t] = Unread]
    /\ Goto(r, t, IF t = "loop" THEN "wait" ELSE "idle")
    /\ UNCHANGED <<source, saved, mount, mutex, key, cache, wake, pending, watch, swept, mishaps>>

----------------------------------------------------------------------------
(* Death and restart.                                                      *)

Die(r) ==
    /\ Up(r)
    /\ mishaps < MaxMishaps
    /\ mishaps' = mishaps + 1
    /\ pc' = [pc EXCEPT ![r] = [t \in Thread |-> "down"]]
    /\ mutex' = [mutex EXCEPT ![r] = NoOne]
    /\ key' = [key EXCEPT ![r] = Unread]
    /\ cache' = [cache EXCEPT ![r] = NoCache]
    /\ in' = [in EXCEPT ![r] = [t \in Thread |-> Unread]]
    /\ begun' = [begun EXCEPT ![r] = [t \in Thread |-> Unread]]
    /\ wake' = [wake EXCEPT ![r] = FALSE]
    /\ pending' = [pending EXCEPT ![r] = FALSE]
    /\ watch' = [watch EXCEPT ![r] = NoWatch]
    /\ swept' = [swept EXCEPT ![r] = 0]
    /\ UNCHANGED <<source, saved, mount, lease, done>>

Boot(r) ==
    /\ ~Up(r)
    /\ pc' = [pc EXCEPT ![r] = Idle]
    /\ \E shown \in {saved, mount[r]} : mount' = [mount EXCEPT ![r] = shown]
    /\ UNCHANGED <<source, saved, mutex, key, cache, in, wake, pending, watch, begun, swept,
                   lease, mishaps, done>>

\* Mutant: a lease is kept until its holder releases it.
LeaseNeverExpires ==
    /\ \E r \in Runner, t \in Thread : lease = <<r, t>> /\ pc[r][t] \notin {"inputs", "work"}
    /\ UNCHANGED vars

\* The lease of a holder that died expires.
LeaseExpires ==
    /\ \E r \in Runner, t \in Thread : lease = <<r, t>> /\ pc[r][t] \notin {"inputs", "work"}
    /\ lease' = NoOne
    /\ UNCHANGED <<source, saved, mount, local, mishaps, done>>

ThreadStep(r, t) ==
    \/ RunTarget(r, t) \/ ComputeKey(r, t) \/ UseCache(r, t) \/ ReadInputs(r, t)
    \/ Finish(r, t)

Next ==
    \/ Change \/ Ask(TRUE) \/ Ask(FALSE) \/ LeaseExpires
    \/ \E r \in Runner :
          \/ Sync(r) \/ WatchStart(r) \/ WatchStarted(r) \/ WatchPoll(r) \/ WatchRequests(r)
          \/ LoopTimer(r) \/ LoopWake(r) \/ Dispatch(r) \/ CacheAges(r)
          \/ Die(r) \/ Boot(r)
          \/ \E t \in Thread : ThreadStep(r, t)

\* What the code's scheduling gives: the loop's timer fires, a thread that can
\* go on does, one that waits for the mutex gets it in the end (sync.Mutex
\* hands itself to a waiter that has starved), a dead runner is restarted and
\* its lease expires.  Neither the watch nor the trigger is counted on.
Fairness ==
    /\ WF_vars(LeaseExpires)
    /\ \A r \in Runner :
          /\ WF_vars(Sync(r)) /\ WF_vars(LoopTimer(r)) /\ WF_vars(Boot(r))
          /\ \A t \in Thread : WF_vars(ThreadStep(r, t)) /\ SF_vars(ComputeKey(r, t))

Spec == Init /\ [][Next]_vars /\ Fairness

----------------------------------------------------------------------------
(* Properties.                                                             *)

Place == {"wait", "sweep", "idle", "lease", "inputs", "work", "down"}

Version == [record : 0 .. MaxSaved, gate : 0 .. MaxSaved]

Saved == [record : 0 .. MaxSaved, gate : 0 .. MaxSaved, asked : 0 .. MaxSaved]

Watching ==
    [at : {"off", "start", "poll", "requests"}, record : 0 .. MaxSaved, asked : 0 .. MaxSaved,
     changed : BOOLEAN, noticed : 0 .. MaxSaved]

\* Every variable has its type, within the bound on what is saved.
TypeOK ==
    /\ source \in Sources
    /\ saved \in Saved
    /\ saved.record + saved.gate <= MaxSaved /\ saved.asked <= saved.gate
    /\ saved.record >= 1 /\ saved.gate >= 1
    /\ mount \in [Runner -> Saved]
    /\ pc \in [Runner -> [Thread -> Place]]
    /\ mutex \in [Runner -> Thread \cup {NoOne}]
    /\ key \in [Runner -> Version]
    /\ cache \in [Runner -> [inputs : Version, key : Version, recent : BOOLEAN]]
    /\ in \in [Runner -> [Thread -> Version]]
    /\ wake \in [Runner -> BOOLEAN] /\ pending \in [Runner -> BOOLEAN]
    /\ watch \in [Runner -> Watching]
    /\ lease \in (Runner \X Thread) \cup {NoOne}
    /\ mishaps \in 0 .. MaxMishaps
    /\ done \in Version
    /\ begun \in [Runner -> [Thread -> Version]]
    /\ swept \in [Runner -> 0 .. MaxSaved]

\* A tick acts on every record its runner could see when it began, or, where
\* they could not be read, on none: never on an older version, although its
\* inputs may be shared with an earlier tick.  What is mounted, or saved, is
\* part of the key they are kept by, and the key is computed before them
\* (inputs.go: "so a new record ... reads them again").
TickSeesRecords ==
    \A r \in Runner, t \in Thread :
        pc[r][t] = "work" => in[r][t].record >= begun[r][t].record \/ in[r][t].record = 0

\* A change the watch has acted on is never lost to a wake already waiting:
\* the runner's sweep came after it, is about to, or the wake is still there
\* (watch.go: "one pass answers any number of changes").
WakeKept ==
    \A r \in Runner :
        watch[r].noticed > swept[r]
        => wake[r] \/ pc[r]["loop"] = "sweep"

\* What is saved is acted on: once the console saves no more (MaxSaved has it
\* stop), whatever notifications are lost, whoever holds the lease, whichever
\* runner dies and whatever reads fail, a tick with inputs as new as every
\* record and every gate saved finishes.
Served == <>[](done = Inputs(saved))

\* What inputs.go says of an operator's request: a tick that begins after it
\* does not work with inputs read before it.
RequestNotDelayed ==
    \A r \in Runner, t \in Thread :
        pc[r][t] = "work" => in[r][t].gate >= begun[r][t].gate

\* What would follow from inputs.go's "who holds a group is never a long time
\* stale" if a read that failed were not kept: a tick has its records.
TickHasRecords ==
    \A r \in Runner, t \in Thread :
        pc[r][t] = "work" /\ begun[r][t].record > 0 => in[r][t].record > 0

=============================================================================
