------------------------------- MODULE Lease -------------------------------
(***************************************************************************)
(* The lease a reconciler's tick runs under: internal/rails/lease.go over  *)
(* the State port (internal/port/port.go).  One target, any number of      *)
(* runners.                                                                *)
(*                                                                         *)
(* A lease is a record with a lifetime and a revision.  Leases.Do creates  *)
(* it, a goroutine renews it every third of the lifetime with a            *)
(* compare-and-swap on the revision, the tick's context is cancelled when  *)
(* the lease is lost, and the record is deleted, only at the holder's      *)
(* revision, when the tick returns.  Every store call takes effect at one  *)
(* instant and is answered at a later one; an answer may be lost, and the  *)
(* call may never reach the store.                                         *)
(*                                                                         *)
(* Time is relative: every timer counts down, every age counts up to the   *)
(* largest value a test can tell apart.  A revision is only ever compared  *)
(* for equality, so a revision nobody remembers may be used again.         *)
(***************************************************************************)
EXTENDS Naturals, Runners

CONSTANTS
    Rev,        \* the revisions the store can hand out
    NoRev,      \* no revision
    Every,      \* the renewal period: a third of the lifetime
    CallTime,   \* the longest a store call takes before it is answered
    Timely      \* whether timers fire, and answers arrive, on time

ASSUME LeaseAssumption ==
    /\ NoRev \notin Rev
    /\ NoOne \notin Runner
    /\ Every \in Nat \ {0}
    /\ CallTime \in Nat
    /\ CallTime <= Every        \* opTimeout of the adapters < DefaultLeaseTTL / 3
    /\ Timely \in BOOLEAN

VARIABLES
    rec,        \* the record under the lease's key; left = 0 is absent
    at,         \* where each runner is in Leases.Do
    rev,        \* Lease.rev: the revision the runner believes it holds
    keep,       \* the answer to the renewal in flight, "wait" when there is none
    newRev,     \* the revision that answer carries
    wait,       \* time until the renewal ticker fires
    call,       \* time until the call in flight is answered at the latest
    age,        \* time since lastGood
    since       \* history: time since the store last applied a write of the runner

leaseVars == <<rec, at, rev, keep, newRev, wait, call, age, since>>

----------------------------------------------------------------------------
TTL == 3 * Every

\* An age beyond this is not told apart.
Horizon == TTL + Every + CallTime + 1

Absent == [holder |-> NoOne, rev |-> NoRev, left |-> 0]

Live == rec.left > 0

\* A revision no record and no runner remembers.
Fresh(v) ==
    /\ v \in Rev
    /\ v # rec.rev
    /\ \A r \in Runner : v # rev[r] /\ v # newRev[r]

\* What a write of runner r leaves under the key.
Written(r, v) == [holder |-> r, rev |-> v, left |-> TTL]

\* The lease is still the one runner r was given.
Mine(r) == Live /\ rec.rev = rev[r]

Least(a, b) == IF a < b THEN a ELSE b

Older(n, cap) == Least(n + 1, cap)

Sooner(n) == IF n = 0 THEN 0 ELSE n - 1

LeaseInit ==
    /\ rec = Absent
    /\ at = [r \in Runner |-> "idle"]
    /\ rev = [r \in Runner |-> NoRev]
    /\ keep = [r \in Runner |-> "wait"]
    /\ newRev = [r \in Runner |-> NoRev]
    /\ wait = [r \in Runner |-> 0]
    /\ call = [r \in Runner |-> 0]
    /\ age = [r \in Runner |-> 0]
    /\ since = [r \in Runner |-> 0]

----------------------------------------------------------------------------
\* Mutant: a key that exists is read back and taken for the runner's own.
AcquireAdopts(r) ==
    /\ at[r] = "idle"
    /\ \/ Live /\ rec' = rec /\ rev' = [rev EXCEPT ![r] = rec.rev]
       \/ ~Live /\ \E v \in Rev :
             /\ Fresh(v)
             /\ rec' = Written(r, v)
             /\ rev' = [rev EXCEPT ![r] = v]
    /\ at' = [at EXCEPT ![r] = "taking"]
    /\ call' = [call EXCEPT ![r] = CallTime]
    /\ since' = [since EXCEPT ![r] = 0]
    /\ UNCHANGED <<keep, newRev, wait, age>>

\* Acquire: Create succeeds only on an absent (or expired) key.  A key that
\* is held, or a call the store never saw, leaves everything as it was.
Acquire(r) ==
    /\ at[r] = "idle"
    /\ ~Live
    /\ \E v \in Rev :
          /\ Fresh(v)
          /\ rec' = Written(r, v)
          /\ rev' = [rev EXCEPT ![r] = v]
    /\ at' = [at EXCEPT ![r] = "taking"]
    /\ call' = [call EXCEPT ![r] = CallTime]
    /\ since' = [since EXCEPT ![r] = 0]
    /\ UNCHANGED <<keep, newRev, wait, age>>

\* The answer to Create arrives: the keeper starts and the tick runs.
Begin(r) ==
    /\ at[r] = "taking"
    /\ at' = [at EXCEPT ![r] = "running"]
    /\ wait' = [wait EXCEPT ![r] = Every]
    /\ age' = [age EXCEPT ![r] = 0]
    /\ UNCHANGED <<rec, rev, keep, newRev, call, since>>

\* Create was applied and its answer lost: Do returns the error, and the
\* record nobody remembers stays until it expires.
AcquireFails(r) ==
    /\ at[r] = "taking"
    /\ at' = [at EXCEPT ![r] = "idle"]
    /\ rev' = [rev EXCEPT ![r] = NoRev]
    /\ UNCHANGED <<rec, keep, newRev, wait, call, age, since>>

\* The ticker fires and Renew calls Update with the revision in hand.
RenewFires(r) ==
    /\ at[r] = "running"
    /\ keep[r] = "wait"
    /\ wait[r] = 0
    /\ wait' = [wait EXCEPT ![r] = Every]
    /\ call' = [call EXCEPT ![r] = CallTime]
    /\ UNCHANGED <<at, rev, age>>

\* ... the store applies it; the answer arrives, or is lost on the way back.
RenewApplied(r) ==
    /\ RenewFires(r)
    /\ Mine(r)
    /\ \E v \in Rev :
          /\ Fresh(v)
          /\ rec' = Written(r, v)
          /\ \/ /\ keep' = [keep EXCEPT ![r] = "ok"]
                /\ newRev' = [newRev EXCEPT ![r] = v]
             \/ /\ keep' = [keep EXCEPT ![r] = "error"]
                /\ newRev' = newRev
    /\ since' = [since EXCEPT ![r] = 0]

\* ... the store refuses it: the revision moved (ErrConflict) or the record
\* is gone (ErrNotFound), both of them ErrLost.
RenewRefused(r) ==
    /\ RenewFires(r)
    /\ ~Mine(r)
    /\ keep' = [keep EXCEPT ![r] = "lost"]
    /\ UNCHANGED <<rec, newRev, since>>

\* ... the store never sees it.
RenewUnreached(r) ==
    /\ RenewFires(r)
    /\ keep' = [keep EXCEPT ![r] = "error"]
    /\ UNCHANGED <<rec, newRev, since>>

\* Mutant: only a lost lease cancels the tick, never a lifetime of failures.
AnsweredForgiving(r) ==
    /\ keep[r] # "wait"
    /\ keep' = [keep EXCEPT ![r] = "wait"]
    /\ newRev' = [newRev EXCEPT ![r] = NoRev]
    /\ rev' = [rev EXCEPT ![r] = IF keep[r] = "ok" THEN newRev[r] ELSE @]
    /\ age' = [age EXCEPT ![r] = IF keep[r] = "ok" THEN 0 ELSE @]
    /\ at' = [at EXCEPT ![r] =
                 IF @ = "running" /\ keep[r] = "lost" THEN "cancelled" ELSE @]
    /\ UNCHANGED <<rec, wait, call, since>>

\* keep reads the answer.  The tick is cancelled when the lease is lost, or
\* when it could not be renewed for a whole lifetime.  Once the tick has
\* returned, a good answer still updates the revision Release will use.
Answered(r) ==
    /\ keep[r] # "wait"
    /\ keep' = [keep EXCEPT ![r] = "wait"]
    /\ newRev' = [newRev EXCEPT ![r] = NoRev]
    /\ rev' = [rev EXCEPT ![r] = IF keep[r] = "ok" THEN newRev[r] ELSE @]
    /\ age' = [age EXCEPT ![r] = IF keep[r] = "ok" THEN 0 ELSE @]
    /\ at' = [at EXCEPT ![r] =
                 IF /\ @ = "running"
                    /\ \/ keep[r] = "lost"
                       \/ keep[r] = "error" /\ age[r] >= TTL
                 THEN "cancelled"
                 ELSE @]
    /\ UNCHANGED <<rec, wait, call, since>>

\* The tick returns: done, or at its next check of a cancelled context.
TickReturns(r) ==
    /\ at[r] \in {"running", "cancelled"}
    /\ at' = [at EXCEPT ![r] = "stopping"]
    /\ UNCHANGED <<rec, rev, keep, newRev, wait, call, age, since>>

\* Mutant: the key is deleted whatever its revision.
ReleaseUnconditional(r) ==
    /\ at[r] = "stopping"
    /\ keep[r] = "wait"
    /\ at' = [at EXCEPT ![r] = "idle"]
    /\ rev' = [rev EXCEPT ![r] = NoRev]
    /\ rec' = Absent
    /\ UNCHANGED <<keep, newRev, wait, call, age, since>>

\* Release, once the keeper has stopped: DeleteIfRevision.  Conflict and
\* absence are not errors; any other failure leaves the record to expire.
Release(r) ==
    /\ at[r] = "stopping"
    /\ keep[r] = "wait"
    /\ at' = [at EXCEPT ![r] = "idle"]
    /\ rev' = [rev EXCEPT ![r] = NoRev]
    /\ \/ Mine(r) /\ rec' = Absent
       \/ rec' = rec
    /\ UNCHANGED <<keep, newRev, wait, call, age, since>>

\* The process dies wherever it is; its successor has a new holder name and
\* remembers nothing.
Crash(r) ==
    /\ at[r] # "idle"
    /\ at' = [at EXCEPT ![r] = "idle"]
    /\ rev' = [rev EXCEPT ![r] = NoRev]
    /\ keep' = [keep EXCEPT ![r] = "wait"]
    /\ newRev' = [newRev EXCEPT ![r] = NoRev]
    /\ UNCHANGED <<rec, wait, call, age, since>>

\* A timer that is due, or an answer that cannot be later.
Due(r) ==
    \/ at[r] = "running" /\ keep[r] = "wait" /\ wait[r] = 0
    \/ at[r] = "taking" /\ call[r] = 0
    \/ at[r] = "running" /\ keep[r] # "wait" /\ call[r] = 0

\* Mutant: the lease is created without a lifetime.
TickNoExpiry ==
    /\ Timely => \A r \in Runner : ~Due(r)
    /\ wait' = [r \in Runner |-> Sooner(wait[r])]
    /\ call' = [r \in Runner |-> Sooner(call[r])]
    /\ age' = [r \in Runner |-> Older(age[r], TTL)]
    /\ since' = [r \in Runner |-> Older(since[r], Horizon)]
    /\ UNCHANGED <<rec, at, rev, keep, newRev>>

\* One unit of time.  The record expires when its lifetime is over.
Tick ==
    /\ Timely => \A r \in Runner : ~Due(r)
    /\ rec' = IF rec.left > 1 THEN [rec EXCEPT !.left = @ - 1] ELSE Absent
    /\ wait' = [r \in Runner |-> Sooner(wait[r])]
    /\ call' = [r \in Runner |-> Sooner(call[r])]
    /\ age' = [r \in Runner |-> Older(age[r], TTL)]
    /\ since' = [r \in Runner |-> Older(since[r], Horizon)]
    /\ UNCHANGED <<at, rev, keep, newRev>>

Renew(r) == RenewApplied(r) \/ RenewRefused(r) \/ RenewUnreached(r)

RunnerStep(r) ==
    \/ Acquire(r) \/ Begin(r) \/ AcquireFails(r)
    \/ Renew(r) \/ Answered(r)
    \/ TickReturns(r) \/ Release(r) \/ Crash(r)

LeaseNext == Tick \/ \E r \in Runner : RunnerStep(r)

LeaseSpec == LeaseInit /\ [][LeaseNext]_leaseVars

\* Time passes; a runner's timers and answers are served; each runner keeps
\* trying (its loop wakes at every interval), and a runner that goes on
\* asking is not refused by the network for ever.  A tick whose context is
\* cancelled returns (its next call fails).  Nothing is assumed of how long a
\* tick runs otherwise, and crashes stay possible.
FairSpec ==
    /\ LeaseSpec
    /\ WF_leaseVars(Tick)
    /\ \A r \in Runner :
          /\ SF_leaseVars(Acquire(r))
          /\ SF_leaseVars(Begin(r))
          /\ WF_leaseVars(Renew(r))
          /\ WF_leaseVars(Answered(r))
          /\ WF_leaseVars(at[r] = "cancelled" /\ TickReturns(r))
          /\ WF_leaseVars(Release(r))

----------------------------------------------------------------------------
PCs == {"idle", "taking", "running", "cancelled", "stopping"}

LeaseTypeOK ==
    /\ rec \in [holder : Runner \cup {NoOne}, rev : Rev \cup {NoRev}, left : 0..TTL]
    /\ at \in [Runner -> PCs]
    /\ rev \in [Runner -> Rev \cup {NoRev}]
    /\ keep \in [Runner -> {"wait", "ok", "lost", "error"}]
    /\ newRev \in [Runner -> Rev \cup {NoRev}]
    /\ wait \in [Runner -> 0..Every]
    /\ call \in [Runner -> 0..CallTime]
    /\ age \in [Runner -> 0..TTL]
    /\ since \in [Runner -> 0..Horizon]

\* A revision names one holding: no runner, by the revision it holds or is
\* about to be told of, can pass the compare-and-swap of a record somebody
\* else wrote (lease.go:106, :122).
Attribution ==
    \A r \in Runner :
        Live /\ rec.rev \in {rev[r], newRev[r]} => rec.holder = r

\* A live lease is only ever changed by the runner that holds it: a holder
\* whose lease expired never renews, releases or replaces the lease of
\* whoever took it next (lease.go:117-118).  Only the passing of time
\* shortens it.
HolderOnly ==
    [][ Live /\ rec' # rec
        => \/ \E r \in Runner : rec.holder = r /\ RunnerStep(r)
           \/ rec' = [rec EXCEPT !.left = @ - 1]
           \/ rec.left = 1 /\ rec' = Absent ]_leaseVars

\* With timers on time, a tick that may still write holds a lease the store
\* applied at most a lifetime, a renewal period and a call ago: two runners
\* act on one target for no longer than a renewal period and a call
\* (lease.go:164-197).
OverlapBounded ==
    Timely => \A r \in Runner :
        at[r] = "running" => since[r] <= TTL + Every + CallTime

\* A dead, stuck or cut-off runner is replaced: a tick runs on the target
\* again and again, whatever answer was lost (lease.go:23-26, :159).
TargetNeverStuck == []<>(\E r \in Runner : at[r] = "running")

\* What the comment on the lease promises: a holder that cannot renew stops
\* before its next external write, so two ticks never act on one target.
SoleWriter ==
    \A r, s \in Runner :
        at[r] = "running" /\ at[s] = "running" => r = s

=============================================================================
