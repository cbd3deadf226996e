--------------------------- MODULE StateAdapters ---------------------------
(***************************************************************************)
(* The adapters of port.State, on one key: internal/port/memory, nats      *)
(* (JetStream KV) and dynamodb.  They are shown to implement PortState.    *)
(*                                                                         *)
(* A call is a sequence of requests to the engine, each of which takes     *)
(* effect at one moment; other callers, the clock and the engine's own     *)
(* reaping step in between.  memory does everything under one lock.  nats  *)
(* reads, judges the record by its own clock, and publishes expecting the  *)
(* sequence it read.  dynamodb sends one conditional write whose condition *)
(* carries the time at which it was built.  Any request may fail, or be    *)
(* applied and its answer lost.                                            *)
(*                                                                         *)
(* A revision is only compared for equality, so one that nobody remembers  *)
(* may be used again.  Time is relative and counted in the unit expiry is  *)
(* judged in: a lifetime counts down, an age counts up.                    *)
(***************************************************************************)
EXTENDS Integers

CONSTANTS
    Client,     \* the callers
    Engines,    \* the engines a deployment may run on
    Rev,        \* the revisions the engine can hand out
    NoRev,      \* no revision
    Life,       \* the lifetime records are written with
    CallTime    \* opTimeout: the longest a call takes

ASSUME AdapterAssumption ==
    /\ Engines \subseteq {"memory", "nats", "dynamodb"}
    /\ NoRev \notin Rev
    /\ Life \in Nat
    /\ CallTime \in Nat
    /\ CallTime < Life

\* The engine does not run out of revisions: one is left that is neither the
\* record's nor one of the two a caller may hold.
ASSUME RevAssumption ==
    \A r \in Rev \cup {NoRev}, f, g \in [Client -> Rev \cup {NoRev}] :
        \E v \in Rev : v # r /\ \A c \in Client : v # f[c] /\ v # g[c]

VARIABLES
    engine,     \* which engine this deployment runs on
    rec,        \* what is stored: nothing, a value, or the marker of one removed
    call,       \* each caller's call, and its answer
    pc,         \* the request the call is at
    round,      \* Create of nats: the rounds left
    expect,     \* the revision the next request expects
    ran,        \* time since the call began
    since,      \* time since the request in flight was built
    old,        \* dynamodb: what a failed condition's old item has left
    saw         \* history: what the record has looked like to the call

vars == <<engine, rec, call, pc, round, expect, ran, since, old, saw>>

----------------------------------------------------------------------------
Rounds == 4                         \* "for range 4" of nats.Create

Ops == {"Get", "Put", "Create", "Update", "Delete", "DeleteIfRevision"}

Conditional == {"Update", "DeleteIfRevision"}

Nothing == [kind |-> "none", rev |-> NoRev, left |-> 0]

\* expired / dead, by a clock read t ago.
Dead(t) == rec.kind # "value" \/ rec.left + t <= 0

Live == ~Dead(0)

\* The record as a caller of the port sees it.
Cell ==
    IF rec.kind = "value"
    THEN [rev |-> rec.rev, left |-> IF rec.left > 0 THEN rec.left ELSE 0]
    ELSE [rev |-> NoRev, left |-> 0]

Port == INSTANCE PortState WITH cell <- Cell, MaxLife <- Life

\* A revision nobody remembers: which of them does not matter.
NewRev ==
    CHOOSE v \in Rev :
       /\ v # rec.rev
       /\ \A c \in Client : v # call[c].arg /\ v # call[c].got /\ v # expect[c]

Pending(c) == call[c].res = "pending"

Init ==
    /\ engine \in Engines
    /\ rec = Nothing
    /\ call = [c \in Client |-> [op |-> "none", arg |-> NoRev, res |-> "ok", got |-> NoRev]]
    /\ pc = [c \in Client |-> "idle"]
    /\ round = [c \in Client |-> 0]
    /\ expect = [c \in Client |-> NoRev]
    /\ ran = [c \in Client |-> 0]
    /\ since = [c \in Client |-> 0]
    /\ old = [c \in Client |-> 0]
    /\ saw = [c \in Client |-> {}]

----------------------------------------------------------------------------
(* What a request does to the call.                                        *)

\* What is stored becomes x, before the eyes of every call still pending.
Store(x, more) ==
    /\ rec' = x
    /\ saw' = [c \in Client |->
                 IF call'[c].res = "pending"
                 THEN saw[c] \cup {Port!View(Cell', call[c].arg)} \cup more
                 ELSE {}]

\* The call ends, and what is stored becomes x.
Return(c, res, got, x, more) ==
    /\ call' = [call EXCEPT ![c] = [op |-> "none", arg |-> NoRev, res |-> res, got |-> got]]
    /\ pc' = [pc EXCEPT ![c] = "idle"]
    /\ round' = [round EXCEPT ![c] = 0]
    /\ expect' = [expect EXCEPT ![c] = NoRev]
    /\ ran' = [ran EXCEPT ![c] = 0]
    /\ since' = [since EXCEPT ![c] = 0]
    /\ old' = [old EXCEPT ![c] = 0]
    /\ Store(x, more)

Refuse(c, res) == Return(c, res, NoRev, rec, {})

\* What is stored becomes x, and the answer is lost.
Lost(c, x, more) == Return(c, "unavailable", call[c].arg, x, more)

\* The call goes on to another request: one built now, or one that carries
\* what was sealed t ago.
Proceed(c, to, rev, t) ==
    /\ pc' = [pc EXCEPT ![c] = to]
    /\ expect' = [expect EXCEPT ![c] = rev]
    /\ since' = [since EXCEPT ![c] = t]
    /\ UNCHANGED <<rec, call, ran, old, saw>>

\* What is left of the lifetime of what call c writes.
Remaining(c) == IF engine = "memory" THEN Life ELSE Life - since[c]

\* publish, write, PutItem: the value is stored and the call returns its
\* revision, unless the answer is lost.
Written(c) ==
    LET x == [kind |-> "value", rev |-> NewRev, left |-> Remaining(c)] IN
    \/ Return(c, "ok", x.rev, x, {})
    \/ Lost(c, x, {})

\* What a removal leaves: nats places a marker.
Marker == [kind |-> "marker", rev |-> NewRev, left |-> 0]

Removed(c) ==
    LET x == IF engine = "nats" THEN Marker ELSE Nothing IN
    Return(c, "ok", NoRev, x, {"removed"}) \/ Lost(c, x, {"removed"})

\* A caller makes a call; a conditional one names the revision it holds.
Begin(c, op) ==
    /\ ~Pending(c)
    /\ op \in Conditional => call[c].got # NoRev
    /\ LET arg == IF op \in Conditional THEN call[c].got ELSE NoRev IN
       /\ call' = [call EXCEPT ![c] = [op |-> op, arg |-> arg, res |-> "pending", got |-> NoRev]]
       /\ saw' = [saw EXCEPT ![c] = {Port!View(Cell, arg)}]
    /\ pc' = [pc EXCEPT ![c] = "start"]
    /\ UNCHANGED <<engine, rec, round, expect, ran, since, old>>

At(c, e, op, step) ==
    /\ Pending(c)
    /\ engine = e
    /\ call[c].op = op
    /\ pc[c] = step
    /\ UNCHANGED engine

\* The request fails: the engine was not reached, or the time is up.
Fail(c) ==
    /\ Pending(c)
    /\ UNCHANGED engine
    /\ Lost(c, rec, {})

\* Get, of every adapter: a consistent read, and the record as it is now.
Get(c) ==
    /\ \E e \in Engines : At(c, e, "Get", "start")
    /\ \/ Live /\ Return(c, "ok", rec.rev, rec, {})
       \/ ~Live /\ Refuse(c, "notfound")

\* Put, of every adapter: unconditional.
Put(c) ==
    /\ \E e \in Engines : At(c, e, "Put", "start")
    /\ Written(c)

----------------------------------------------------------------------------
(* memory: everything under the lock, by the clock at that moment.         *)

MemoryCreate(c) ==
    /\ At(c, "memory", "Create", "start")
    /\ \/ Live /\ Refuse(c, "exists")
       \/ ~Live /\ Written(c)

\* Update and DeleteIfRevision
MemoryIfRevision(c, op) ==
    /\ At(c, "memory", op, "start")
    /\ \/ ~Live /\ Refuse(c, "notfound")
       \/ Live /\ rec.rev # call[c].arg /\ Refuse(c, "conflict")
       \/ /\ Live
          /\ rec.rev = call[c].arg
          /\ IF op = "Update" THEN Written(c) ELSE Removed(c)

MemoryDelete(c) ==
    /\ At(c, "memory", "Delete", "start")
    /\ Removed(c)

----------------------------------------------------------------------------
(* dynamodb: one conditional request, whose :now is when it was built.     *)

\* Create: condCreate
DynamoCreate(c) ==
    /\ At(c, "dynamodb", "Create", "start")
    /\ \/ Dead(since[c]) /\ Written(c)
       \/ ~Dead(since[c]) /\ Refuse(c, "exists")

\* condLive
DynamoHolds(c) == rec.rev = call[c].arg /\ ~Dead(since[c])

\* Update and DeleteIfRevision.  A failure carries the old item, if any.
DynamoIfRevision(c, op) ==
    /\ At(c, "dynamodb", op, "start")
    /\ \/ /\ DynamoHolds(c)
          /\ IF op = "Update" THEN Written(c) ELSE Removed(c)
       \/ /\ ~DynamoHolds(c)
          /\ pc' = [pc EXCEPT ![c] = IF rec.kind = "none" THEN "reread" ELSE "failed"]
          /\ old' = [old EXCEPT ![c] = Cell.left]
          /\ UNCHANGED <<rec, call, round, expect, ran, since, saw>>

\* failedWith: the old item is judged when the answer arrives.
DynamoJudge(c, op) ==
    /\ At(c, "dynamodb", op, "failed")
    /\ Refuse(c, IF old[c] = 0 THEN "notfound" ELSE "conflict")

\* failedWith: there was no old item, and a read says what there is now.
DynamoReread(c, op) ==
    /\ At(c, "dynamodb", op, "reread")
    /\ Refuse(c, IF Live THEN "conflict" ELSE "notfound")

DynamoDelete(c) ==
    /\ At(c, "dynamodb", "Delete", "start")
    /\ Removed(c)

----------------------------------------------------------------------------
(* nats: conditional publishes against what was read.                      *)

\* Another round of Create, or ErrExists after the last.
Again(c) ==
    \/ /\ round[c] > 1
       /\ round' = [round EXCEPT ![c] = @ - 1]
       /\ Proceed(c, "create", NoRev, 0)
    \/ round[c] = 1 /\ Refuse(c, "exists")

NatsCreate(c) ==
    /\ At(c, "nats", "Create", "start")
    /\ round' = [round EXCEPT ![c] = Rounds]
    /\ Proceed(c, "create", NoRev, 0)

\* kv.Create: a publish that expects nothing under the key ...
KVCreate(c) ==
    /\ At(c, "nats", "Create", "create")
    /\ \/ rec.kind = "none" /\ Written(c)
       \/ rec.kind # "none" /\ Proceed(c, "peek", NoRev, since[c]) /\ UNCHANGED round

\* ... and, over a marker, a second one of the same message that expects the
\* marker.
KVPeek(c) ==
    /\ At(c, "nats", "Create", "peek")
    /\ UNCHANGED round
    /\ \/ rec.kind = "marker" /\ Proceed(c, "recreate", rec.rev, since[c])
       \/ rec.kind # "marker" /\ Proceed(c, "look", NoRev, 0)

KVRecreate(c) ==
    /\ At(c, "nats", "Create", "recreate")
    /\ \/ rec.rev = expect[c] /\ Written(c)
       \/ rec.rev # expect[c] /\ Proceed(c, "look", NoRev, 0) /\ UNCHANGED round

\* Something is stored: a live record refuses, an expired one is written
\* over, and one that is gone meanwhile is tried again.
NatsLook(c) ==
    /\ At(c, "nats", "Create", "look")
    /\ \/ rec.kind # "value" /\ Again(c)
       \/ Live /\ Refuse(c, "exists")
       \/ /\ rec.kind = "value" /\ ~Live
          /\ Proceed(c, "replace", rec.rev, 0)
          /\ UNCHANGED round

\* Mutant: an expired record is written over whatever is stored by now.
NatsReplaceBlind(c) ==
    /\ At(c, "nats", "Create", "replace")
    /\ Written(c)

\* An expired record is written over against its own revision.
NatsReplace(c) ==
    /\ At(c, "nats", "Create", "replace")
    /\ \/ rec.rev = expect[c] /\ Written(c)
       \/ rec.rev # expect[c] /\ Again(c)

\* Update and DeleteIfRevision: the live read ...
NatsLive(c, op) ==
    /\ At(c, "nats", op, "start")
    /\ \/ ~Live /\ Refuse(c, "notfound")
       \/ Live /\ rec.rev # call[c].arg /\ Refuse(c, "conflict")
       \/ Live /\ rec.rev = call[c].arg /\ Proceed(c, "swap", rec.rev, 0) /\ UNCHANGED round

\* ... the write that expects the revision ...
NatsSwap(c, op) ==
    /\ At(c, "nats", op, "swap")
    /\ \/ /\ rec.rev = expect[c]
          /\ IF op = "Update" THEN Written(c) ELSE Removed(c)
       \/ rec.rev # expect[c] /\ Proceed(c, "why", NoRev, 0) /\ UNCHANGED round

\* ... and, on a mismatch, whether it moved or is gone; where that read fails
\* it is taken to have moved.
NatsWhy(c, op) ==
    /\ At(c, "nats", op, "why")
    /\ \/ ~Live /\ Refuse(c, "notfound")
       \/ Refuse(c, "conflict")

\* Delete: no marker is left where nothing is stored, unless the read that
\* would tell fails.
NatsDelete(c) ==
    /\ At(c, "nats", "Delete", "start")
    /\ \/ rec.kind # "value" /\ Refuse(c, "ok")
       \/ Proceed(c, "remove", NoRev, 0) /\ UNCHANGED round

NatsRemove(c) ==
    /\ At(c, "nats", "Delete", "remove")
    /\ Removed(c)

----------------------------------------------------------------------------
(* The engine and the clock.                                               *)

\* An expired value is reaped (nats leaves a marker in its place, dynamodb
\* nothing), and a marker goes.
Reap ==
    /\ engine # "memory"
    /\ rec.kind # "none"
    /\ ~Live
    /\ UNCHANGED <<engine, call, pc, round, expect, ran, since, old>>
    /\ Store(IF engine = "nats" /\ rec.kind = "value" THEN Marker ELSE Nothing, {})

Older(t, c) == IF Pending(c) THEN t[c] + 1 ELSE 0

Sooner(n, least) == IF n > least THEN n - 1 ELSE least

\* Time passes; no call outlives its timeout.
Tick ==
    /\ \A c \in Client : Pending(c) => ran[c] < CallTime
    /\ ran' = [c \in Client |-> Older(ran, c)]
    /\ since' = [c \in Client |-> Older(since, c)]
    /\ old' = [c \in Client |-> Sooner(old[c], 0)]
    /\ UNCHANGED <<engine, call, pc, round, expect>>
    /\ Store(IF rec.kind = "value" THEN [rec EXCEPT !.left = Sooner(@, -CallTime)] ELSE rec,
             {"late"})

Next ==
    \/ \E c \in Client :
          \/ \E op \in Ops : Begin(c, op)
          \/ Fail(c) \/ Get(c) \/ Put(c)
          \/ MemoryCreate(c) \/ MemoryDelete(c)
          \/ DynamoCreate(c) \/ DynamoDelete(c)
          \/ NatsCreate(c) \/ KVCreate(c) \/ KVPeek(c) \/ KVRecreate(c)
          \/ NatsLook(c) \/ NatsReplace(c) \/ NatsDelete(c) \/ NatsRemove(c)
          \/ \E op \in Conditional :
                \/ MemoryIfRevision(c, op)
                \/ DynamoIfRevision(c, op) \/ DynamoJudge(c, op) \/ DynamoReread(c, op)
                \/ NatsLive(c, op) \/ NatsSwap(c, op) \/ NatsWhy(c, op)
    \/ Reap
    \/ Tick

Spec == Init /\ [][Next]_vars

----------------------------------------------------------------------------
(* Properties.                                                             *)

\* Every variable has its type: a call that is pending is at a request, and
\* what is stored has a revision.
TypeOK ==
    /\ engine \in Engines
    /\ rec \in [kind : {"none", "value", "marker"}, rev : Rev \cup {NoRev},
                left : -CallTime .. Life]
    /\ (rec.kind = "none") = (rec.rev = NoRev)
    /\ call \in [Client -> [op : Ops \cup {"none"}, arg : Rev \cup {NoRev}, got : Rev \cup {NoRev},
                            res : {"pending", "ok", "notfound", "exists", "conflict",
                                   "unavailable"}]]
    /\ pc \in [Client -> {"idle", "start", "failed", "reread", "create", "peek", "recreate",
                          "look", "replace", "swap", "why", "remove"}]
    /\ \A c \in Client : Pending(c) = (pc[c] # "idle")
    /\ round \in [Client -> 0 .. Rounds]
    /\ expect \in [Client -> Rev \cup {NoRev}]
    /\ ran \in [Client -> 0 .. CallTime]
    /\ since \in [Client -> 0 .. CallTime]
    /\ old \in [Client -> 0 .. Life]
    /\ saw \in [Client -> SUBSET {"gone", "same", "other", "late", "removed"}]

\* Every adapter implements the port: however the requests of several callers,
\* the clock, the engine's reaping and lost answers interleave, each call of
\* memory.Store, nats.Store and dynamodb.Store acts at one moment and only on
\* the record it names, one taker of an expired record wins, and a refusal is
\* true of some moment of the call.
Contract == Port!PortSpec

=============================================================================
