---------------------------- MODULE LeasedProofs ----------------------------
(***************************************************************************)
(* Theorems about work that replicas share by a lease: a reconciler's      *)
(* lease (Lease), for every set of runners and every period; the loop      *)
(* whose passes run under it (PassLoop), for every set of runners and      *)
(* every number of changes and deaths; and the hub's schedule of reads     *)
(* (Refresher), for every set of replicas, every number of workspaces,     *)
(* every interval and every number of failures.                            *)
(***************************************************************************)
EXTENDS Lease, PassLoop, Refresher, TLAPS

-----------------------------------------------------------------------------
(* The lease.                                                              *)

\* The strengthening of Attribution that every step preserves: it does not
\* mention the lifetime, and an absent record carries no revision.
RevInv ==
    /\ Live => rec.rev # NoRev
    /\ \A r \in Runner :
          rec.rev # NoRev /\ rec.rev \in {rev[r], newRev[r]} => rec.holder = r

\* While the keeper waits for its ticker, either the last applied write and
\* the ticker are in phase, or (before the first renewal) the start of the
\* tick and the ticker are; and lastGood is at most a call younger than the
\* write it answers for, unless a whole lifetime has passed since it.
InPhase(r) ==
    \/ /\ since[r] + wait[r] \in {Every, 2 * Every, 3 * Every, 4 * Every}
       /\ since[r] <= age[r] + CallTime \/ age[r] = TTL
    \/ /\ age[r] + wait[r] \in {Every, 2 * Every, 3 * Every}
       /\ since[r] <= age[r] + CallTime

\* The strengthening of OverlapBounded, one clause per place in keep.
Timing(r) ==
    /\ at[r] \in {"idle", "taking"} => keep[r] = "wait"
    /\ at[r] = "taking" => since[r] + call[r] <= CallTime
    /\ at[r] = "running" /\ keep[r] = "wait" => InPhase(r)
    /\ at[r] = "running" /\ keep[r] # "wait" =>
          /\ since[r] + call[r] <= TTL + Every + CallTime
          /\ wait[r] + CallTime = call[r] + Every
          /\ keep[r] = "ok" => since[r] + wait[r] = Every
          /\ InPhase(r) \/ age[r] = TTL

TimingInv == Timely => \A r \in Runner : Timing(r)
----------------------------------------------------------------------------
\* The arithmetic of the constants, stated once.
LEMMA Periods ==
    /\ TTL \in Nat /\ TTL > 0
    /\ Horizon \in Nat
    /\ TTL = Every + Every + Every
    /\ Horizon = TTL + Every + CallTime + 1
    /\ Every \in Nat /\ Every > 0
    /\ CallTime \in Nat /\ CallTime <= Every
BY LeaseAssumption DEF TTL, Horizon

\* One unit of time keeps every timer and every age within its bounds.
LEMMA TimersInRange ==
    ASSUME LeaseTypeOK, Tick
    PROVE  /\ wait' \in [Runner -> 0..Every]
           /\ call' \in [Runner -> 0..CallTime]
           /\ age' \in [Runner -> 0..TTL]
           /\ since' \in [Runner -> 0..Horizon]
BY Periods DEF LeaseTypeOK, Tick, Sooner, Older, Least

\* Type correctness of the lease, its runners and its clocks.
THEOREM LeaseTypeCorrect == LeaseSpec => []LeaseTypeOK
<1>1. LeaseInit => LeaseTypeOK
  BY Periods DEF LeaseInit, LeaseTypeOK, Absent, PCs
<1>2. LeaseTypeOK /\ [LeaseNext]_leaseVars => LeaseTypeOK'
  <2> SUFFICES ASSUME LeaseTypeOK, [LeaseNext]_leaseVars
               PROVE  LeaseTypeOK'
    OBVIOUS
  <2> USE Periods
  <2>1. CASE Tick
    <3>1. rec' \in [holder : Runner \cup {NoOne}, rev : Rev \cup {NoRev}, left : 0..TTL]
      BY <2>1 DEF LeaseTypeOK, Tick, Absent
    <3> QED
      BY <2>1, <3>1, TimersInRange DEF LeaseTypeOK, Tick
  <2>2. ASSUME NEW r \in Runner, RunnerStep(r)
        PROVE  LeaseTypeOK'
    <3>1. CASE Acquire(r)
      BY <3>1 DEF LeaseTypeOK, Acquire, Written, PCs, Fresh
    <3>2. CASE Begin(r)
      BY <3>2 DEF LeaseTypeOK, Begin, PCs
    <3>3. CASE AcquireFails(r)
      BY <3>3 DEF LeaseTypeOK, AcquireFails, PCs
    <3>4. CASE RenewApplied(r)
      BY <3>4 DEF LeaseTypeOK, RenewApplied, RenewFires, Written, Fresh
    <3>5. CASE RenewRefused(r)
      BY <3>5 DEF LeaseTypeOK, RenewRefused, RenewFires
    <3>6. CASE RenewUnreached(r)
      BY <3>6 DEF LeaseTypeOK, RenewUnreached, RenewFires
    <3>7. CASE Answered(r)
      BY <3>7 DEF LeaseTypeOK, Answered, PCs
    <3>8. CASE TickReturns(r)
      BY <3>8 DEF LeaseTypeOK, TickReturns, PCs
    <3>9. CASE Release(r)
      BY <3>9 DEF LeaseTypeOK, Release, Absent, PCs
    <3>10. CASE Crash(r)
      BY <3>10 DEF LeaseTypeOK, Crash, PCs
    <3> QED
      BY <2>2, <3>1, <3>2, <3>3, <3>4, <3>5, <3>6, <3>7, <3>8, <3>9, <3>10
      DEF RunnerStep, Renew
  <2>3. CASE UNCHANGED leaseVars
    BY <2>3 DEF LeaseTypeOK, leaseVars
  <2> QED
    BY <2>1, <2>2, <2>3 DEF LeaseNext
<1> QED
  BY <1>1, <1>2, PTL DEF LeaseSpec

----------------------------------------------------------------------------
\* A revision is written once: nothing a runner remembers can pass for a
\* record somebody else wrote.
LEMMA RevInvHolds == LeaseSpec => []RevInv
<1>1. LeaseInit => RevInv
  BY DEF LeaseInit, RevInv, Live, Absent
<1>2. LeaseTypeOK /\ RevInv /\ [LeaseNext]_leaseVars => RevInv'
  <2> SUFFICES ASSUME LeaseTypeOK, RevInv, [LeaseNext]_leaseVars
               PROVE  RevInv'
    OBVIOUS
  <2> USE Periods, LeaseAssumption
  <2>1. CASE Tick
    BY <2>1 DEF LeaseTypeOK, RevInv, Live, Tick, Absent
  <2>2. ASSUME NEW r \in Runner, RunnerStep(r)
        PROVE  RevInv'
    <3>1. CASE Acquire(r)
      BY <3>1 DEF LeaseTypeOK, RevInv, Live, Acquire, Written, Fresh
    <3>2. CASE Begin(r)
      BY <3>2 DEF LeaseTypeOK, RevInv, Live, Begin
    <3>3. CASE AcquireFails(r)
      BY <3>3 DEF LeaseTypeOK, RevInv, Live, AcquireFails
    <3>4. CASE RenewApplied(r)
      BY <3>4 DEF LeaseTypeOK, RevInv, Live, RenewApplied, RenewFires, Written, Fresh
    <3>5. CASE RenewRefused(r)
      BY <3>5 DEF LeaseTypeOK, RevInv, Live, RenewRefused, RenewFires
    <3>6. CASE RenewUnreached(r)
      BY <3>6 DEF LeaseTypeOK, RevInv, Live, RenewUnreached, RenewFires
    <3>7. CASE Answered(r)
      BY <3>7 DEF LeaseTypeOK, RevInv, Live, Answered
    <3>8. CASE TickReturns(r)
      BY <3>8 DEF LeaseTypeOK, RevInv, Live, TickReturns
    <3>9. CASE Release(r)
      BY <3>9 DEF LeaseTypeOK, RevInv, Live, Release, Absent
    <3>10. CASE Crash(r)
      BY <3>10 DEF LeaseTypeOK, RevInv, Live, Crash
    <3> QED
      BY <2>2, <3>1, <3>2, <3>3, <3>4, <3>5, <3>6, <3>7, <3>8, <3>9, <3>10
      DEF RunnerStep, Renew
  <2>3. CASE UNCHANGED leaseVars
    BY <2>3 DEF RevInv, Live, leaseVars
  <2> QED
    BY <2>1, <2>2, <2>3 DEF LeaseNext
<1> QED
  BY <1>1, <1>2, LeaseTypeCorrect, PTL DEF LeaseSpec

\* No runner passes the compare-and-swap of a lease it does not hold.
THEOREM AttributionHolds == LeaseSpec => []Attribution
<1>1. RevInv => Attribution
  BY DEF RevInv, Attribution, Live
<1> QED
  BY <1>1, RevInvHolds, PTL

\* A live lease is changed by its holder or by time, and by nobody else.
THEOREM HolderOnlyHolds == LeaseSpec => HolderOnly
<1>1. LeaseTypeOK /\ RevInv /\ [LeaseNext]_leaseVars
      => [Live /\ rec' # rec
          => \/ \E r \in Runner : rec.holder = r /\ RunnerStep(r)
             \/ rec' = [rec EXCEPT !.left = @ - 1]
             \/ rec.left = 1 /\ rec' = Absent]_leaseVars
  <2> SUFFICES ASSUME LeaseTypeOK, RevInv, LeaseNext, Live, rec' # rec
               PROVE  \/ \E r \in Runner : rec.holder = r /\ RunnerStep(r)
                      \/ rec' = [rec EXCEPT !.left = @ - 1]
                      \/ rec.left = 1 /\ rec' = Absent
    OBVIOUS
  <2> USE Periods
  <2>1. CASE Tick
    BY <2>1 DEF LeaseTypeOK, Live, Tick
  <2>2. ASSUME NEW r \in Runner, RunnerStep(r)
        PROVE  rec.holder = r
    <3>1. CASE Acquire(r)
      BY <3>1 DEF Acquire
    <3>2. CASE RenewApplied(r)
      BY <3>2 DEF RenewApplied, Mine, RevInv
    <3>3. CASE Release(r)
      BY <3>3 DEF Release, Mine, RevInv
    <3> QED
      BY <2>2, <3>1, <3>2, <3>3
      DEF RunnerStep, Renew, Begin, AcquireFails, RenewRefused, RenewUnreached,
          Answered, TickReturns, Crash
  <2> QED
    BY <2>1, <2>2 DEF LeaseNext
<1> QED
  BY <1>1, LeaseTypeCorrect, RevInvHolds, PTL DEF LeaseSpec, HolderOnly

----------------------------------------------------------------------------
\* A step of one runner leaves the timing of the others alone.
LEMMA OthersTiming ==
    ASSUME LeaseTypeOK, NEW r \in Runner, NEW q \in Runner, q # r,
           RunnerStep(r), Timing(q)
    PROVE  Timing(q)'
<1>1. /\ at'[q] = at[q] /\ keep'[q] = keep[q] /\ wait'[q] = wait[q]
      /\ call'[q] = call[q] /\ age'[q] = age[q] /\ since'[q] = since[q]
  BY DEF LeaseTypeOK, RunnerStep, Renew, Acquire, Begin, AcquireFails, RenewFires,
         RenewApplied, RenewRefused, RenewUnreached, Answered, TickReturns,
         Release, Crash
<1> QED
  BY <1>1 DEF Timing, InPhase

\* The values Timing speaks of are numbers within their bounds.
LEMMA TimingTypes ==
    ASSUME LeaseTypeOK, NEW q \in Runner
    PROVE  /\ wait[q] \in Nat /\ wait[q] <= Every
           /\ call[q] \in Nat /\ call[q] <= CallTime
           /\ age[q] \in Nat /\ age[q] <= TTL
           /\ since[q] \in Nat /\ since[q] <= Horizon
BY Periods DEF LeaseTypeOK

\* A runner's own steps keep its timing.
LEMMA OwnTiming ==
    ASSUME LeaseTypeOK, NEW q \in Runner, RunnerStep(q), Timing(q)
    PROVE  Timing(q)'
<1> USE Periods, TimingTypes
<1>1. CASE Acquire(q)
  BY <1>1 DEF LeaseTypeOK, Acquire, Timing
<1>2. CASE Begin(q)
  <2>1. /\ at'[q] = "running" /\ keep'[q] = "wait" /\ wait'[q] = Every
        /\ call'[q] = call[q] /\ age'[q] = 0 /\ since'[q] = since[q]
        /\ since[q] + call[q] <= CallTime
    BY <1>2 DEF LeaseTypeOK, Begin, Timing
  <2>2. InPhase(q)'
    BY <2>1 DEF InPhase
  <2> QED
    BY <2>1, <2>2 DEF Timing
<1>3. CASE AcquireFails(q)
  BY <1>3 DEF LeaseTypeOK, AcquireFails, Timing
<1>4. CASE RenewApplied(q)
  BY <1>4 DEF LeaseTypeOK, RenewApplied, RenewFires, Timing, InPhase
<1>5. CASE RenewRefused(q)
  BY <1>5 DEF LeaseTypeOK, RenewRefused, RenewFires, Timing, InPhase
<1>6. CASE RenewUnreached(q)
  BY <1>6 DEF LeaseTypeOK, RenewUnreached, RenewFires, Timing, InPhase
<1>7. CASE Answered(q)
  <2>1. /\ keep'[q] = "wait" /\ wait'[q] = wait[q]
        /\ call'[q] = call[q] /\ since'[q] = since[q]
    BY <1>7 DEF LeaseTypeOK, Answered
  <2>2. CASE at'[q] = "running" /\ keep[q] = "ok"
    <3>1. at[q] = "running" /\ age'[q] = 0
      BY <1>7, <2>2 DEF LeaseTypeOK, Answered
    <3>2. /\ since[q] + wait[q] = Every
          /\ wait[q] + CallTime = call[q] + Every
      BY <1>7, <2>2, <3>1 DEF Timing, Answered
    <3> QED
      BY <2>1, <2>2, <3>1, <3>2 DEF Timing, InPhase
  <2>3. CASE at'[q] = "running" /\ keep[q] # "ok"
    <3>1. at[q] = "running" /\ keep[q] # "wait" /\ age'[q] = age[q] /\ age[q] # TTL
      BY <1>7, <2>3 DEF LeaseTypeOK, Answered
    <3> QED
      BY <2>1, <2>3, <3>1 DEF Timing, InPhase
  <2>4. CASE at'[q] # "running"
    <3>1. at'[q] # "taking"
      BY <1>7, <2>4 DEF LeaseTypeOK, Answered, Timing
    <3> QED
      BY <2>1, <2>4, <3>1 DEF Timing
  <2> QED
    BY <2>2, <2>3, <2>4
<1>8. CASE TickReturns(q)
  BY <1>8 DEF LeaseTypeOK, TickReturns, Timing
<1>9. CASE Release(q)
  BY <1>9 DEF LeaseTypeOK, Release, Timing
<1>10. CASE Crash(q)
  BY <1>10 DEF LeaseTypeOK, Crash, Timing
<1> QED
  BY <1>1, <1>2, <1>3, <1>4, <1>5, <1>6, <1>7, <1>8, <1>9, <1>10
  DEF RunnerStep, Renew

\* A unit of time keeps the timing, because no timer is left behind.
LEMMA TickTiming ==
    ASSUME LeaseTypeOK, Timely, Tick, NEW q \in Runner, Timing(q)
    PROVE  Timing(q)'
<1> USE Periods, TimingTypes
<1>1. /\ ~Due(q)
      /\ at'[q] = at[q] /\ keep'[q] = keep[q]
      /\ wait'[q] = Sooner(wait[q]) /\ call'[q] = Sooner(call[q])
      /\ age'[q] = Older(age[q], TTL) /\ since'[q] = Older(since[q], Horizon)
  BY DEF LeaseTypeOK, Tick
<1>2. CASE at[q] = "taking"
  BY <1>1, <1>2 DEF Due, Timing, Sooner, Older, Least
<1>3. CASE at[q] = "running" /\ keep[q] = "wait"
  <2>1. wait'[q] = wait[q] - 1 /\ wait[q] > 0
    BY <1>1, <1>3 DEF Due, Sooner
  <2>2. InPhase(q)
    BY <1>3 DEF Timing
  <2>3. InPhase(q)'
    BY <1>1, <2>1, <2>2 DEF InPhase, Older, Least
  <2> QED
    BY <1>1, <1>3, <2>3 DEF Timing
<1>4. CASE at[q] = "running" /\ keep[q] # "wait"
  <2>1. call'[q] = call[q] - 1 /\ call[q] > 0
    BY <1>1, <1>4 DEF Due, Sooner
  <2>2. wait'[q] = wait[q] - 1 /\ wait[q] > 0
    BY <1>1, <1>4, <2>1 DEF Timing, Sooner
  <2>3. InPhase(q)' \/ age'[q] = TTL
    BY <1>1, <1>4, <2>1, <2>2 DEF Timing, InPhase, Older, Least
  <2> QED
    BY <1>1, <1>4, <2>1, <2>2, <2>3 DEF Timing, Older, Least
<1> QED
  BY <1>1, <1>2, <1>3, <1>4 DEF Timing

\* With timers on time, a tick that may still write was given its lease at
\* most a lifetime, a renewal period and a call ago.
THEOREM OverlapBoundedHolds == LeaseSpec => []OverlapBounded
<1>1. LeaseInit => TimingInv
  BY DEF LeaseInit, TimingInv, Timing
<1>2. LeaseTypeOK /\ TimingInv /\ [LeaseNext]_leaseVars => TimingInv'
  <2> SUFFICES ASSUME LeaseTypeOK, TimingInv, [LeaseNext]_leaseVars, Timely, NEW q \in Runner
               PROVE  Timing(q)'
    BY DEF TimingInv
  <2>1. Timing(q)
    BY DEF TimingInv
  <2>2. CASE Tick
    BY <2>1, <2>2, TickTiming
  <2>3. ASSUME NEW r \in Runner, RunnerStep(r)
        PROVE  Timing(q)'
    BY <2>1, <2>3, OthersTiming, OwnTiming
  <2>4. CASE UNCHANGED leaseVars
    BY <2>1, <2>4 DEF leaseVars, Timing, InPhase
  <2> QED
    BY <2>2, <2>3, <2>4 DEF LeaseNext
<1>3. LeaseTypeOK /\ TimingInv => OverlapBounded
  BY Periods, TimingTypes DEF TimingInv, Timing, InPhase, OverlapBounded
<1> QED
  BY <1>1, <1>2, <1>3, LeaseTypeCorrect, PTL DEF LeaseSpec

-----------------------------------------------------------------------------
(* The loop.                                                               *)

\* What a runner has remembered is not ahead of what it reads now, and the
\* kept inputs, where they could be read, are not behind the key they are kept by.
Remembered(r) ==
    /\ mount[r].record <= saved.record
    /\ key[r].record <= View(r).record
    /\ cache[r].inputs.record >= cache[r].key.record \/ cache[r].inputs.record = 0
    /\ watch[r].noticed <= View(r).record /\ watch[r].record <= View(r).record
    /\ \A t \in Thread : begun[r][t].record <= View(r).record

\* The mutex is held by a thread that reads inputs, and the key that a tick
\* computes under it, if it can, is not behind what the tick could see when it began.  A
\* runner is down with both its threads, and nobody then holds the mutex.
Guarded(r) ==
    /\ \A t \in Thread : mutex[r] = t =>
          /\ pc[r][t] \in {"sweep", "inputs"}
          /\ pc[r][t] = "inputs" /\ key[r] # Unread => key[r].record >= begun[r][t].record
    /\ \A t \in Thread : pc[r][t] = "down" => mutex[r] = NoOne
    /\ \A t, u \in Thread : pc[r][t] = "down" => pc[r][u] = "down"

\* TickSeesRecords and WakeKept, of one runner.
Current(r) ==
    /\ \A t \in Thread :
          pc[r][t] = "work" => in[r][t].record >= begun[r][t].record \/ in[r][t].record = 0
    /\ watch[r].noticed > swept[r] => wake[r] \/ pc[r]["loop"] = "sweep"

\* The strengthening of TickSeesRecords and WakeKept.
LoopInv == \A r \in Runner : Remembered(r) /\ Guarded(r) /\ Current(r)
----------------------------------------------------------------------------
\* A function of two arguments, changed at one pair of them.
LEMMA PairExcept ==
    ASSUME NEW S, NEW f \in [Runner -> [Thread -> S]], NEW r \in Runner, NEW t \in Thread,
           NEW x \in S
    PROVE  /\ [f EXCEPT ![r][t] = x] \in [Runner -> [Thread -> S]]
           /\ \A q \in Runner, u \in Thread :
                 [f EXCEPT ![r][t] = x][q][u] = IF q = r /\ u = t THEN x ELSE f[q][u]
OBVIOUS

\* Where a thread goes, and nobody else.
LEMMA Goes ==
    ASSUME TypeOK, NEW r \in Runner, NEW t \in Thread, NEW to \in Place, Goto(r, t, to)
    PROVE  /\ pc' \in [Runner -> [Thread -> Place]]
           /\ \A q \in Runner, u \in Thread :
                 pc'[q][u] = IF q = r /\ u = t THEN to ELSE pc[q][u]
BY PairExcept DEF Goto, TypeOK

\* What a runner reads, and what it makes of it, has the type of inputs.
LEMMA ViewType ==
    ASSUME TypeOK, NEW r \in Runner
    PROVE  /\ View(r) \in Saved
           /\ Inputs(View(r)) \in Version
           /\ InputKey(View(r)) \in Version
           /\ Unread \in Version
           /\ Readable(r) \subseteq Version
BY PassLoopAssumption DEF TypeOK, View, Inputs, InputKey, Unread, Readable, Version, Saved

\* What inputs returns with, wherever it returns to.
LEMMA ReturnType ==
    ASSUME TypeOK, NEW r \in Runner, NEW t \in Thread, NEW x \in Version, Return(r, t, x)
    PROVE  /\ mutex' \in [Runner -> Thread \cup {NoOne}]
           /\ key' \in [Runner -> Version]
           /\ swept' \in [Runner -> 0 .. MaxSaved]
           /\ in' \in [Runner -> [Thread -> Version]]
           /\ pc' \in [Runner -> [Thread -> Place]]
<1>1. key' \in [Runner -> Version] /\ mutex' \in [Runner -> Thread \cup {NoOne}]
  BY ViewType DEF Return, TypeOK
<1>2. swept' \in [Runner -> 0 .. MaxSaved]
  BY ViewType DEF Return, TypeOK, Saved
<1>3. in' \in [Runner -> [Thread -> Version]]
  <2>1. in \in [Runner -> [Thread -> Version]]
    BY DEF TypeOK
  <2>2. [in EXCEPT ![r][t] = x] \in [Runner -> [Thread -> Version]]
    BY <2>1, PairExcept
  <2> QED
    BY <2>1, <2>2 DEF Return
<1>4. pc' \in [Runner -> [Thread -> Place]]
  BY Goes DEF Return, Place
<1> QED
  BY <1>1, <1>2, <1>3, <1>4

\* The bound on what goes wrong.
LEMMA AnswerType ==
    ASSUME TypeOK, NEW ok \in BOOLEAN, Answer(ok)
    PROVE  mishaps' \in 0 .. MaxMishaps
BY PassLoopAssumption DEF Answer, TypeOK

\* What the watch reads changes what it last saw, and nothing it acted on.
LEMMA WatchSteps ==
    ASSUME TypeOK, NEW r \in Runner, WatchStart(r) \/ WatchStarted(r) \/ WatchPoll(r)
    PROVE  \E w \in Watching :
              /\ watch' = [watch EXCEPT ![r] = w]
              /\ w.noticed = watch[r].noticed
              /\ w.record \in {watch[r].record, View(r).record, 0}
<1>0. /\ watch[r] \in Watching /\ View(r).record \in 0 .. MaxSaved
      /\ View(r).asked \in 0 .. MaxSaved /\ 0 \in 0 .. MaxSaved
  BY ViewType, PassLoopAssumption DEF TypeOK, Saved
<1>1. CASE WatchStart(r)
  <2>1. PICK n \in {View(r).record, 0} :
          watch' = [watch EXCEPT ![r] = [watch[r] EXCEPT !.at = "start", !.record = n]]
    BY <1>1 DEF WatchStart
  <2> DEFINE w == [watch[r] EXCEPT !.at = "start", !.record = n]
  <2>2. w \in Watching /\ w.noticed = watch[r].noticed /\ w.record = n
    BY <1>0 DEF Watching
  <2> QED
    BY <2>1, <2>2
<1>2. CASE WatchStarted(r)
  <2>1. PICK n \in {View(r).asked, 0} :
          watch' = [watch EXCEPT ![r] = [watch[r] EXCEPT !.at = "poll", !.asked = n]]
    BY <1>2 DEF WatchStarted
  <2> DEFINE w == [watch[r] EXCEPT !.at = "poll", !.asked = n]
  <2>2. w \in Watching /\ w.noticed = watch[r].noticed /\ w.record = watch[r].record
    BY <1>0 DEF Watching
  <2> QED
    BY <2>1, <2>2
<1>3. CASE WatchPoll(r)
  <2>1. PICK ok \in BOOLEAN :
          watch' = [watch EXCEPT ![r] =
                [watch[r] EXCEPT !.at = "requests",
                                 !.record = IF ok THEN View(r).record ELSE watch[r].record,
                                 !.changed = ok /\ View(r).record # watch[r].record]]
    BY Zenon, <1>3 DEF WatchPoll
  <2> DEFINE w == [watch[r] EXCEPT !.at = "requests",
                                   !.record = IF ok THEN View(r).record ELSE watch[r].record,
                                   !.changed = ok /\ View(r).record # watch[r].record]
  <2>2. w \in Watching /\ w.noticed = watch[r].noticed /\ w.record \in {watch[r].record, View(r).record}
    BY <1>0 DEF Watching
  <2>3. watch' = [watch EXCEPT ![r] = w]
    BY <2>1
  <2> QED
    BY <2>2, <2>3
<1> QED
  BY <1>1, <1>2, <1>3

\* What it acts on is the digest it last saw.
LEMMA WatchActs ==
    ASSUME TypeOK, NEW r \in Runner, WatchRequests(r)
    PROVE  \E w \in Watching :
              /\ watch' = [watch EXCEPT ![r] = w]
              /\ w.record = watch[r].record
              /\ w.noticed = IF watch[r].changed THEN watch[r].record ELSE watch[r].noticed
<1>0. watch[r] \in Watching /\ View(r).asked \in 0 .. MaxSaved
  BY ViewType DEF TypeOK, Saved
<1> DEFINE newer(ok) == ok /\ View(r).asked > watch[r].asked
           w(ok) == [watch[r] EXCEPT !.at = "poll", !.changed = FALSE,
                       !.asked = IF newer(ok) THEN View(r).asked ELSE watch[r].asked,
                       !.noticed = IF watch[r].changed THEN watch[r].record ELSE watch[r].noticed]
<1>1. PICK ok \in BOOLEAN : watch' = [watch EXCEPT ![r] = w(ok)]
  BY Zenon DEF WatchRequests, Requested
<1>2. /\ w(ok) \in Watching /\ w(ok).record = watch[r].record
      /\ w(ok).noticed = IF watch[r].changed THEN watch[r].record ELSE watch[r].noticed
  BY <1>0 DEF Watching
<1> QED
  BY <1>1, <1>2

\* The types and the bound on what is saved.
THEOREM TypeCorrect == Spec => []TypeOK
<1> USE PassLoopAssumption
<1>1. Init => TypeOK
  BY DEF Init, TypeOK, Saved, Version, Watching, Place, Thread, Unread, NoCache, NoWatch, Idle
<1>2. TypeOK /\ [Next]_vars => TypeOK'
  <2> SUFFICES ASSUME TypeOK, [Next]_vars PROVE TypeOK'
    OBVIOUS
  <2>1. CASE Change
    <3>0. /\ saved'.record = saved.record + 1 /\ saved'.gate = saved.gate /\ saved'.asked = saved.asked
          /\ saved' = [record |-> saved'.record, gate |-> saved'.gate, asked |-> saved'.asked]
      BY <2>1 DEF Change, TypeOK, Saved
    <3>1. /\ saved' \in Saved /\ saved'.record + saved'.gate <= MaxSaved /\ saved'.asked <= saved'.gate
          /\ saved'.record >= 1 /\ saved'.gate >= 1
      BY <2>1, <3>0 DEF Change, TypeOK, Saved
    <3>2. pending' \in [Runner -> BOOLEAN]
      BY <2>1 DEF Change, Deliver
    <3> QED
      BY <2>1, <3>1, <3>2 DEF Change, TypeOK
  <2>2. ASSUME NEW q \in BOOLEAN, Ask(q) PROVE TypeOK'
    <3>0. /\ saved'.record = saved.record /\ saved'.gate = saved.gate + 1
          /\ saved'.asked \in {saved.asked, saved.asked + 1}
          /\ saved' = [record |-> saved'.record, gate |-> saved'.gate, asked |-> saved'.asked]
      BY <2>2 DEF Ask, TypeOK, Saved
    <3>1. /\ saved' \in Saved /\ saved'.record + saved'.gate <= MaxSaved /\ saved'.asked <= saved'.gate
          /\ saved'.record >= 1 /\ saved'.gate >= 1
      BY <2>2, <3>0 DEF Ask, TypeOK, Saved
    <3>2. pending' \in [Runner -> BOOLEAN]
      BY <2>2 DEF Ask, Deliver
    <3> QED
      BY <2>2, <3>1, <3>2 DEF Ask, TypeOK
  <2>3. CASE LeaseExpires
    BY <2>3 DEF LeaseExpires, TypeOK, local
  <2>4. ASSUME NEW r \in Runner, Sync(r) PROVE TypeOK'
    BY <2>4 DEF Sync, TypeOK, local
  <2>5. ASSUME NEW r \in Runner, WatchStart(r) \/ WatchStarted(r) \/ WatchPoll(r) PROVE TypeOK'
    <3>1. mishaps' \in 0 .. MaxMishaps
      BY <2>5, AnswerType DEF WatchStart, WatchStarted, WatchPoll, PortRead
    <3>2. watch' \in [Runner -> Watching]
      BY <2>5, WatchSteps DEF TypeOK
    <3> QED
      BY <2>5, <3>1, <3>2 DEF WatchStart, WatchStarted, WatchPoll, TypeOK
  <2>6. ASSUME NEW r \in Runner, WatchRequests(r) PROVE TypeOK'
    <3>1. mishaps' \in 0 .. MaxMishaps
      BY <2>6, AnswerType DEF WatchRequests, Requested, PortRead
    <3>2. pending' \in [Runner -> BOOLEAN] /\ wake' \in [Runner -> BOOLEAN]
      BY <2>6 DEF WatchRequests, Requested, Deliver, TypeOK
    <3>3. watch' \in [Runner -> Watching]
      BY <2>6, WatchActs DEF TypeOK
    <3> QED
      BY <2>6, <3>1, <3>2, <3>3 DEF WatchRequests, TypeOK
  <2>7. ASSUME NEW r \in Runner, LoopTimer(r) \/ LoopWake(r) \/ Dispatch(r) PROVE TypeOK'
    <3>1. pc' \in [Runner -> [Thread -> Place]]
      BY <2>7, Goes DEF LoopTimer, LoopWake, Dispatch, Thread, Place, TypeOK
    <3>2. wake' \in [Runner -> BOOLEAN] /\ pending' \in [Runner -> BOOLEAN]
      BY <2>7 DEF LoopTimer, LoopWake, Dispatch, TypeOK
    <3> QED
      BY <2>7, <3>1, <3>2 DEF LoopTimer, LoopWake, Dispatch, TypeOK
  <2>8. ASSUME NEW r \in Runner, CacheAges(r) PROVE TypeOK'
    <3>1. cache' \in [Runner -> [inputs : Version, key : Version, recent : BOOLEAN]]
      BY ZenonT(30), <2>8 DEF CacheAges, TypeOK
    <3> QED
      BY <2>8, <3>1 DEF CacheAges, TypeOK
  <2>9. ASSUME NEW r \in Runner, Die(r) PROVE TypeOK'
    BY <2>9, ViewType DEF Die, TypeOK, NoCache, NoWatch, Watching, Place
  <2>10. ASSUME NEW r \in Runner, Boot(r) PROVE TypeOK'
    BY <2>10 DEF Boot, TypeOK, Idle, Place
  <2>11. ASSUME NEW r \in Runner, NEW t \in Thread, ThreadStep(r, t) PROVE TypeOK'
    <3>1. CASE RunTarget(r, t)
      <4>1. pc' \in [Runner -> [Thread -> Place]]
        BY <3>1, Goes DEF RunTarget, Place
      <4>2. begun' \in [Runner -> [Thread -> Version]]
        <5>1. begun \in [Runner -> [Thread -> Version]]
          BY DEF TypeOK
        <5>2. [begun EXCEPT ![r][t] = Inputs(View(r))] \in [Runner -> [Thread -> Version]]
          BY <5>1, ViewType, PairExcept
        <5> QED
          BY <3>1, <5>1, <5>2 DEF RunTarget
      <4>3. lease' \in (Runner \X Thread) \cup {NoOne}
        <5>1. lease' = lease \/ lease' = <<r, t>>
          BY Zenon, <3>1 DEF RunTarget
        <5> QED
          BY <5>1 DEF TypeOK
      <4>4. mishaps' \in 0 .. MaxMishaps
        BY <3>1, AnswerType DEF RunTarget
      <4> QED
        BY <3>1, <4>1, <4>2, <4>3, <4>4 DEF RunTarget, TypeOK
    <3>2. CASE ComputeKey(r, t)
      <4>1. mutex' \in [Runner -> Thread \cup {NoOne}] /\ key' \in [Runner -> Version]
        BY <3>2, ViewType DEF ComputeKey, TypeOK
      <4>2. mishaps' \in 0 .. MaxMishaps
        BY <3>2, AnswerType DEF ComputeKey, PortRead
      <4> QED
        BY <3>2, <4>1, <4>2 DEF ComputeKey, TypeOK
    <3>3. CASE UseCache(r, t)
      <4>1. PICK x \in Version : Return(r, t, x)
        BY <3>3, ViewType DEF UseCache, TypeOK
      <4>2. /\ mutex' \in [Runner -> Thread \cup {NoOne}] /\ key' \in [Runner -> Version]
            /\ swept' \in [Runner -> 0 .. MaxSaved] /\ in' \in [Runner -> [Thread -> Version]]
            /\ pc' \in [Runner -> [Thread -> Place]]
        BY <4>1, ReturnType
      <4>3. cache' \in [Runner -> [inputs : Version, key : Version, recent : BOOLEAN]]
        BY <3>3, ViewType DEF UseCache, TypeOK
      <4> QED
        BY <3>3, <4>2, <4>3 DEF UseCache, TypeOK
    <3>4. CASE ReadInputs(r, t)
      <4>1. PICK x \in Version : Return(r, t, x)
        BY <3>4, ViewType DEF ReadInputs, TypeOK
      <4>2. /\ mutex' \in [Runner -> Thread \cup {NoOne}] /\ key' \in [Runner -> Version]
            /\ swept' \in [Runner -> 0 .. MaxSaved] /\ in' \in [Runner -> [Thread -> Version]]
            /\ pc' \in [Runner -> [Thread -> Place]]
        BY <4>1, ReturnType
      <4>3. cache' \in [Runner -> [inputs : Version, key : Version, recent : BOOLEAN]]
        BY <3>4, ViewType DEF ReadInputs, TypeOK
      <4>4. mishaps' \in 0 .. MaxMishaps
        BY <3>4, AnswerType DEF ReadInputs
      <4> QED
        BY <3>4, <4>2, <4>3, <4>4 DEF ReadInputs, TypeOK
    <3>5. CASE Finish(r, t)
      BY <3>5, ViewType DEF Finish, Goto, TypeOK, Place, Version, Newest
    <3> QED
      BY <2>11, <3>1, <3>2, <3>3, <3>4, <3>5 DEF ThreadStep
  <2>12. CASE UNCHANGED vars
    BY <2>12 DEF TypeOK, vars, local
  <2> QED
    BY <2>1, <2>2, <2>3, <2>4, <2>5, <2>6, <2>7, <2>8, <2>9, <2>10, <2>11, <2>12 DEF Next
<1> QED
  BY <1>1, <1>2, PTL DEF Spec

----------------------------------------------------------------------------
\* What the invariant compares is a number.
LEMMA Numbers ==
    ASSUME TypeOK, NEW r \in Runner
    PROVE  /\ View(r).record \in Nat /\ saved.record \in Nat /\ mount[r].record \in Nat
           /\ key[r].record \in Nat /\ cache[r].inputs.record \in Nat
           /\ cache[r].key.record \in Nat /\ watch[r].noticed \in Nat /\ swept[r] \in Nat
           /\ watch[r].record \in Nat
           /\ \A t \in Thread : begun[r][t].record \in Nat /\ in[r][t].record \in Nat
BY ViewType, PassLoopAssumption DEF TypeOK, Version, Saved, Watching

\* Nobody holding the mutex is not a thread.
LEMMA NoThread == NoOne \notin Thread
BY PassLoopAssumption DEF Thread

\* Where inputs returns to, with inputs for the tick, or for the sweep.
LEMMA Returns ==
    ASSUME TypeOK, NEW r \in Runner, NEW t \in Thread, NEW x \in Version, Return(r, t, x)
    PROVE  /\ mutex' = [mutex EXCEPT ![r] = NoOne]
           /\ key' = [key EXCEPT ![r] = Unread]
           /\ \A q \in Runner, u \in Thread :
                 /\ pc'[q][u] = IF q = r /\ u = t
                                THEN IF pc[r][t] = "sweep" THEN "lease" ELSE "work"
                                ELSE pc[q][u]
                 /\ in'[q][u] = IF q = r /\ u = t /\ pc[r][t] # "sweep" THEN x ELSE in[q][u]
           /\ \A q \in Runner :
                 swept'[q] = IF q = r /\ pc[r][t] = "sweep" THEN View(r).record ELSE swept[q]
<1>1. in \in [Runner -> [Thread -> Version]] /\ swept \in [Runner -> 0 .. MaxSaved]
  BY DEF TypeOK
<1>2. \A q \in Runner, u \in Thread :
        [in EXCEPT ![r][t] = x][q][u] = IF q = r /\ u = t THEN x ELSE in[q][u]
  BY <1>1, PairExcept
<1>3. CASE pc[r][t] = "sweep"
  BY <1>1, <1>3, Goes DEF Return, Place
<1>4. CASE pc[r][t] # "sweep"
  BY <1>1, <1>2, <1>4, Goes DEF Return, Place
<1> QED
  BY <1>3, <1>4

\* The strengthened invariant.
LEMMA LoopInvHolds == Spec => []LoopInv
<1> USE PassLoopAssumption, NoThread
<1>1. Init => LoopInv
  <2> SUFFICES ASSUME Init, NEW r \in Runner PROVE Remembered(r) /\ Guarded(r) /\ Current(r)
    BY DEF LoopInv
  <2>1. View(r).record = 1
    BY DEF Init, View
  <2>2. Remembered(r)
    BY <2>1 DEF Init, Remembered, Unread, NoCache, NoWatch
  <2>3. Guarded(r)
    BY DEF Init, Guarded, Idle, Thread
  <2>4. Current(r)
    BY DEF Init, Current, Idle, Thread, NoWatch
  <2> QED
    BY <2>2, <2>3, <2>4
<1>2. TypeOK /\ TypeOK' /\ LoopInv /\ [Next]_vars => LoopInv'
  <2> SUFFICES ASSUME TypeOK, TypeOK', LoopInv, [Next]_vars, NEW q \in Runner
               PROVE  (Remembered(q) /\ Guarded(q) /\ Current(q))'
    BY DEF LoopInv
  <2>0. Remembered(q) /\ Guarded(q) /\ Current(q)
    BY DEF LoopInv
  <2>1. CASE Change
    <3>1. UNCHANGED <<source, mount, pc, mutex, key, cache, in, wake, watch, begun, swept>>
      BY <2>1 DEF Change
    <3>2. saved'.record >= saved.record /\ saved'.record \in Nat
      BY <2>1, Numbers DEF Change, TypeOK, Saved
    <3>3. View(q)'.record >= View(q).record /\ View(q)'.record \in Nat
      BY <3>1, <3>2, Numbers DEF View
    <3> QED
      BY <2>0, <3>1, <3>2, <3>3, Numbers DEF Remembered, Guarded, Current
  <2>2. ASSUME NEW a \in BOOLEAN, Ask(a) PROVE (Remembered(q) /\ Guarded(q) /\ Current(q))'
    BY <2>0, <2>2 DEF Ask, TypeOK, Saved, Version, Remembered, Guarded, Current, View
  <2>3. CASE LeaseExpires
    BY <2>0, <2>3 DEF LeaseExpires, local, Remembered, Guarded, Current, View
  <2>4. ASSUME NEW r \in Runner, Sync(r) PROVE (Remembered(q) /\ Guarded(q) /\ Current(q))'
    <3>1. UNCHANGED <<source, saved, pc, mutex, key, cache, in, wake, watch, begun, swept>>
      BY <2>4 DEF Sync, local
    <3>2. mount'[q] = mount[q] \/ mount'[q] = saved
      BY <2>4 DEF Sync, TypeOK
    <3>3. View(q)'.record >= View(q).record /\ View(q)'.record \in Nat
      BY <2>0, <3>1, <3>2, Numbers DEF View, Remembered
    <3> QED
      BY <2>0, <3>1, <3>2, <3>3, Numbers DEF Remembered, Guarded, Current
  <2>5. ASSUME NEW r \in Runner, WatchStart(r) \/ WatchStarted(r) \/ WatchPoll(r)
        PROVE (Remembered(q) /\ Guarded(q) /\ Current(q))'
    <3>1. /\ UNCHANGED <<source, saved, mount, pc, mutex, key, cache, in, wake, begun, swept>>
          /\ watch'[q].noticed = watch[q].noticed
          /\ watch'[q].record \in {watch[q].record, View(q).record, 0}
      <4>1. UNCHANGED <<source, saved, mount, pc, mutex, key, cache, in, wake, begun, swept>>
        BY <2>5 DEF WatchStart, WatchStarted, WatchPoll
      <4> QED
        BY <2>5, <4>1, WatchSteps DEF TypeOK
    <3>2. View(q)' = View(q)
      BY <3>1 DEF View
    <3> QED
      BY <2>0, <3>1, <3>2, Numbers DEF Remembered, Guarded, Current
  <2>6. ASSUME NEW r \in Runner, WatchRequests(r)
        PROVE (Remembered(q) /\ Guarded(q) /\ Current(q))'
    <3>1. UNCHANGED <<source, saved, mount, pc, mutex, key, cache, in, begun, swept>>
      BY <2>6 DEF WatchRequests
    <3>2. /\ watch'[q].record = watch[q].record
          /\ \/ watch'[q].noticed = watch[q].noticed /\ (wake[q] => wake'[q])
             \/ watch'[q].noticed = watch[q].record /\ wake'[q]
      <4>1. wake' = [wake EXCEPT ![r] = @ \/ watch[r].changed]
        BY <2>6 DEF WatchRequests
      <4>2. watch[r].changed \in BOOLEAN
        BY DEF TypeOK, Watching
      <4> QED
        BY <2>6, <4>1, <4>2, WatchActs DEF TypeOK
    <3>3. View(q)' = View(q)
      BY <3>1 DEF View
    <3> QED
      BY <2>0, <3>1, <3>2, <3>3, Numbers DEF Remembered, Guarded, Current
  <2>7. ASSUME NEW r \in Runner, LoopTimer(r) \/ LoopWake(r) \/ Dispatch(r)
        PROVE (Remembered(q) /\ Guarded(q) /\ Current(q))'
    <3>1. Remembered(q)'
      BY <2>0, <2>7, Goes, Numbers DEF LoopTimer, LoopWake, Dispatch, Thread, Place, TypeOK, Remembered, Guarded, Current, View
    <3>0. \A p \in Runner, u \in Thread :
            \/ pc'[p][u] = pc[p][u]
            \/ pc[p][u] \in {"wait", "idle"} /\ pc'[p][u] \in {"sweep", "lease"}
      <4>1. CASE LoopTimer(r)
        BY <4>1, Goes DEF LoopTimer, Thread, Place
      <4>2. CASE LoopWake(r)
        BY <4>2, Goes DEF LoopWake, Thread, Place
      <4>3. CASE Dispatch(r)
        BY <4>3, Goes DEF Dispatch, Thread, Place
      <4> QED
        BY <2>7, <4>1, <4>2, <4>3
    <3>2. Guarded(q)'
      <4>1. mutex' = mutex /\ key' = key /\ begun' = begun
        BY <2>7 DEF LoopTimer, LoopWake, Dispatch
      <4> QED
        BY <2>0, <3>0, <4>1 DEF Guarded
    <3>3. Current(q)'
      <4>1. in' = in /\ begun' = begun /\ watch' = watch /\ swept' = swept
        BY <2>7 DEF LoopTimer, LoopWake, Dispatch
      <4>2. \A u \in Thread : pc'[q][u] = "work" => pc[q][u] = "work"
        BY <3>0
      <4>3. wake[q] => wake'[q] \/ pc'[q]["loop"] = "sweep"
        <5>1. CASE LoopWake(r)
          BY <5>1, Goes DEF LoopWake, TypeOK, Thread, Place
        <5>2. CASE LoopTimer(r) \/ Dispatch(r)
          BY <5>2 DEF LoopTimer, Dispatch
        <5> QED
          BY <2>7, <5>1, <5>2
      <4>4. pc[q]["loop"] = "sweep" => pc'[q]["loop"] = "sweep"
        BY <3>0 DEF Thread
      <4> QED
        BY <2>0, <4>1, <4>2, <4>3, <4>4 DEF Current
    <3> QED
      BY <3>1, <3>2, <3>3
  <2>8. ASSUME NEW r \in Runner, CacheAges(r)
        PROVE (Remembered(q) /\ Guarded(q) /\ Current(q))'
    BY <2>0, <2>8 DEF CacheAges, TypeOK, Remembered, Guarded, Current, View
  <2>9. ASSUME NEW r \in Runner, Die(r) PROVE (Remembered(q) /\ Guarded(q) /\ Current(q))'
    <3>1. Remembered(q)'
      BY <2>0, <2>9, Numbers DEF Die, TypeOK, NoCache, NoWatch, Unread, Saved, Remembered, Guarded, Current, View
    <3>2. Guarded(q)'
      BY <2>0, <2>9, Numbers DEF Die, TypeOK, NoCache, NoWatch, Unread, Saved, Remembered, Guarded, Current, View
    <3>3. Current(q)'
      BY <2>0, <2>9, Numbers DEF Die, TypeOK, NoCache, NoWatch, Unread, Saved, Remembered, Guarded, Current, View
    <3> QED
      BY <3>1, <3>2, <3>3
  <2>10. ASSUME NEW r \in Runner, Boot(r) PROVE (Remembered(q) /\ Guarded(q) /\ Current(q))'
    <3>1. Remembered(q)'
      BY <2>0, <2>10, Numbers DEF Boot, TypeOK, Idle, Saved, Version, Up, Thread, Remembered, Guarded, Current, View
    <3>2. Guarded(q)'
      <4>1. mutex' = mutex /\ key' = key /\ begun' = begun
        BY <2>10 DEF Boot
      <4>2. CASE q = r
        <5>1. mutex[r] = NoOne
          BY <2>0, <2>10, <4>2 DEF Boot, Up, Guarded, Thread
        <5>2. \A u \in Thread : pc'[r][u] # "down"
          BY <2>10 DEF Boot, Idle, TypeOK
        <5> QED
          BY <4>1, <4>2, <5>1, <5>2 DEF Guarded
      <4>3. CASE q # r
        <5>1. pc'[q] = pc[q]
          BY <2>10, <4>3 DEF Boot, TypeOK
        <5> QED
          BY <2>0, <4>1, <5>1 DEF Guarded
      <4> QED
        BY <4>2, <4>3
    <3>3. Current(q)'
      BY <2>0, <2>10, Numbers DEF Boot, TypeOK, Idle, Saved, Version, Up, Thread, Remembered, Guarded, Current, View
    <3> QED
      BY <3>1, <3>2, <3>3
  <2>11. ASSUME NEW r \in Runner, NEW t \in Thread, ThreadStep(r, t)
         PROVE (Remembered(q) /\ Guarded(q) /\ Current(q))'
    <3>1. CASE RunTarget(r, t)
      <4>1. \A p \in Runner, u \in Thread :
              \/ begun'[p][u].record = begun[p][u].record
              \/ p = r /\ u = t /\ begun'[p][u].record = View(r).record
        <5>1. begun \in [Runner -> [Thread -> Version]]
          BY DEF TypeOK
        <5>2. \A p \in Runner, u \in Thread : [begun EXCEPT ![r][t] = Inputs(View(r))][p][u]
                 = IF p = r /\ u = t THEN Inputs(View(r)) ELSE begun[p][u]
          BY <5>1, ViewType, PairExcept
        <5>3. Inputs(View(r)).record = View(r).record
          BY DEF Inputs
        <5>4. begun' = begun \/ begun' = [begun EXCEPT ![r][t] = Inputs(View(r))]
          BY <3>1 DEF RunTarget
        <5> HIDE <3>1
        <5>5. CASE begun' = begun
          BY <5>5
        <5>6. CASE begun' = [begun EXCEPT ![r][t] = Inputs(View(r))]
          BY <5>2, <5>3, <5>6
        <5> QED
          BY <5>4, <5>5, <5>6
      <4>2. \A p \in Runner, u \in Thread :
              \/ pc'[p][u] = pc[p][u]
              \/ p = r /\ u = t /\ pc[p][u] = "lease" /\ pc'[p][u] \in {"inputs", "wait", "idle"}
        <5>1. pc[r][t] = "lease" /\ \E to \in {"inputs", "wait", "idle"} : Goto(r, t, to)
          BY Zenon, <3>1 DEF RunTarget
        <5>2. PICK to \in {"inputs", "wait", "idle"} : Goto(r, t, to)
          BY <5>1
        <5>3. to \in Place
          BY DEF Place
        <5> QED
          BY <5>1, <5>2, <5>3, Goes
      <4>3. View(q)' = View(q)
        BY <3>1 DEF RunTarget, View
      <4>4. Remembered(q)'
        BY <2>0, <3>1, <4>1, <4>3, Numbers DEF RunTarget, Remembered
      <4>5. Guarded(q)'
        BY <2>0, <3>1, <4>1, <4>2, Numbers DEF RunTarget, Guarded
      <4>6. Current(q)'
        BY <2>0, <3>1, <4>1, <4>2, Numbers DEF RunTarget, Current, Thread
      <4> QED
        BY <4>4, <4>5, <4>6
    <3>2. CASE ComputeKey(r, t)
      <4>1. \/ key' = [key EXCEPT ![r] = InputKey(View(r))] /\ InputKey(View(r)).record = View(r).record
            \/ key' = [key EXCEPT ![r] = Unread] /\ Unread.record = 0
        BY <3>2 DEF ComputeKey, InputKey, Inputs, Unread
      <4>2. View(q)' = View(q)
        BY <3>2 DEF ComputeKey, View
      <4>3. Remembered(q)'
        BY <2>0, <3>2, <4>1, <4>2, Numbers DEF ComputeKey, Remembered, TypeOK
      <4>4. Guarded(q)'
        BY <2>0, <3>2, <4>1, Numbers DEF ComputeKey, Remembered, Guarded, TypeOK
      <4>5. Current(q)'
        BY <2>0, <3>2 DEF ComputeKey, Current
      <4> QED
        BY <4>3, <4>4, <4>5
    <3>3. CASE UseCache(r, t)
      <4> DEFINE x == cache[r].inputs
      <4>1. x \in Version /\ Return(r, t, x)
        BY <3>3, ViewType DEF UseCache, TypeOK
      <4>2. View(q)' = View(q)
        BY <3>3 DEF UseCache, View
      <4>3. Remembered(q)'
        <5>1. /\ mount' = mount /\ saved' = saved /\ cache' = cache /\ watch' = watch
              /\ begun' = begun
          BY <3>3 DEF UseCache
        <5>2. key'[q].record = 0 \/ key'[q] = key[q]
          BY <4>1, Returns DEF TypeOK, Unread
        <5> QED
          BY <2>0, <4>2, <5>1, <5>2, Numbers DEF Remembered
      <4>4. Guarded(q)'
        <5>1. \A u \in Thread : mutex'[q] = u => q # r /\ mutex[q] = u
          BY <4>1, Returns DEF TypeOK
        <5>2. /\ begun' = begun /\ pc[r][t] = "inputs"
              /\ q # r => key'[q] = key[q] /\ mutex'[q] = mutex[q]
              /\ q = r => mutex'[q] = NoOne
          BY <3>3, <4>1, Returns DEF UseCache, TypeOK
        <5>3. \A u \in Thread : IF q = r /\ u = t THEN pc'[q][u] = "work" ELSE pc'[q][u] = pc[q][u]
          BY <4>1, <5>2, Returns
        <5> QED
          BY <2>0, <5>1, <5>2, <5>3 DEF Guarded
      <4>5. Current(q)'
        <5>1. q = r /\ pc[r][t] = "inputs" => x.record >= begun[r][t].record \/ x.record = 0
          BY <2>0, <3>3, Numbers DEF UseCache, KeptServes, Guarded, Remembered
        <5>2. pc[r][t] \in {"sweep", "inputs"}
          BY <3>3 DEF UseCache, LoopInv, Guarded
        <5>3. pc[r][t] # "sweep"
          BY <3>3 DEF UseCache
        <5>4. watch' = watch /\ wake' = wake /\ begun' = begun
          BY <3>3 DEF UseCache
        <5> HIDE DEF x
        <5>5. x.record \in Nat
          BY <4>1, PassLoopAssumption DEF Version
        <5>6. \A u \in Thread : pc'[q][u] = "work"
                => in'[q][u].record >= begun'[q][u].record \/ in'[q][u].record = 0
          BY <2>0, <4>1, <5>1, <5>2, <5>4, Returns DEF Current
        <5>7. watch'[q].noticed > swept'[q] => wake'[q] \/ pc'[q]["loop"] = "sweep"
          BY <2>0, <4>1, <5>2, <5>3, <5>4, <5>5, Returns, Numbers DEF Current, Thread
        <5> QED
          BY <5>6, <5>7 DEF Current
      <4> QED
        BY <4>3, <4>4, <4>5
    <3>4. CASE ReadInputs(r, t)
      <4>0. PICK x \in Readable(r) :
              /\ cache' = [cache EXCEPT ![r] = [inputs |-> x, key |-> key[r], recent |-> TRUE]]
              /\ Return(r, t, x)
        BY <3>4 DEF ReadInputs
      <4>1. x \in Version /\ Return(r, t, x) /\ x.record \in {View(r).record, 0}
        BY <4>0, ViewType DEF Readable
      <4>2. View(q)' = View(q)
        BY <3>4 DEF ReadInputs, View
      <4>3. Remembered(q)'
        <5>1. mount' = mount /\ saved' = saved /\ watch' = watch /\ begun' = begun
          BY <3>4 DEF ReadInputs
        <5>2. key'[q].record = 0 \/ key'[q] = key[q]
          BY <4>1, Returns DEF TypeOK, Unread
        <5>3. \/ cache'[q] = cache[q]
              \/ q = r /\ cache'[q].inputs = x /\ cache'[q].key = key[r]
          BY <4>0 DEF TypeOK
        <5> QED
          BY <2>0, <4>1, <4>2, <5>1, <5>2, <5>3, Numbers DEF Remembered
      <4>4. Guarded(q)'
        <5>1. mutex' = [mutex EXCEPT ![r] = NoOne] /\ mutex \in [Runner -> Thread \cup {NoOne}]
          BY Zenon, <4>1, Returns DEF TypeOK
        <5>2. /\ begun' = begun /\ pc[r][t] \in {"sweep", "inputs"}
              /\ q # r => key'[q] = key[q]
          BY <3>4, <4>1, Returns DEF ReadInputs, LoopInv, Guarded, TypeOK
        <5>3. \A u \in Thread : IF q = r /\ u = t THEN pc'[q][u] \in {"lease", "work"}
                                ELSE pc'[q][u] = pc[q][u]
          BY <4>1, Returns
        <5>4. q = r => mutex[q] = t
          BY <3>4 DEF ReadInputs
        <5> QED
          BY <2>0, <5>1, <5>2, <5>3, <5>4 DEF Guarded
      <4>5. Current(q)'
        <5>1. q = r /\ pc[r][t] = "inputs" => x.record >= begun[r][t].record \/ x.record = 0
          BY <2>0, <4>1, Numbers DEF Remembered
        <5>2. pc[r][t] \in {"sweep", "inputs"}
          BY <3>4 DEF ReadInputs, LoopInv, Guarded
        <5>3. q = r /\ pc[r][t] = "sweep" => View(r).record >= watch[q].noticed
          BY <2>0, <3>4, Numbers DEF Remembered
        <5>4. watch' = watch /\ wake' = wake /\ begun' = begun
          BY <3>4 DEF ReadInputs
        <5>5. x.record \in Nat
          BY <4>1, PassLoopAssumption DEF Version
        <5>6. \A u \in Thread : pc'[q][u] = "work"
                => in'[q][u].record >= begun'[q][u].record \/ in'[q][u].record = 0
          BY <2>0, <4>1, <5>1, <5>2, <5>4, Returns DEF Current
        <5>7. watch'[q].noticed > swept'[q] => wake'[q] \/ pc'[q]["loop"] = "sweep"
          BY <2>0, <4>1, <5>2, <5>3, <5>4, <5>5, Returns, Numbers DEF Current, Thread
        <5> QED
          BY <5>6, <5>7 DEF Current
      <4> QED
        BY <4>3, <4>4, <4>5
    <3>5. CASE Finish(r, t)
      <4>1. \A p \in Runner, u \in Thread :
              begun'[p][u].record = IF p = r /\ u = t THEN 0 ELSE begun[p][u].record
        <5>1. begun \in [Runner -> [Thread -> Version]] /\ Unread \in Version
          BY ViewType DEF TypeOK
        <5>2. \A p \in Runner, u \in Thread : [begun EXCEPT ![r][t] = Unread][p][u]
                 = IF p = r /\ u = t THEN Unread ELSE begun[p][u]
          BY <5>1, PairExcept
        <5> QED
          BY <3>5, <5>2 DEF Finish, Unread
      <4>2. \A p \in Runner, u \in Thread :
              IF p = r /\ u = t THEN pc[p][u] = "work" /\ pc'[p][u] \in {"wait", "idle"}
                               ELSE pc'[p][u] = pc[p][u]
        BY <3>5, Goes DEF Finish, Place
      <4>3. \A p \in Runner, u \in Thread : p # r \/ u # t => in'[p][u] = in[p][u]
        <5>1. in \in [Runner -> [Thread -> Version]] /\ Unread \in Version
          BY ViewType DEF TypeOK
        <5>2. \A p \in Runner, u \in Thread : [in EXCEPT ![r][t] = Unread][p][u]
                 = IF p = r /\ u = t THEN Unread ELSE in[p][u]
          BY <5>1, PairExcept
        <5> QED
          BY <3>5, <5>2 DEF Finish
      <4>4. View(q)' = View(q)
        BY <3>5 DEF Finish, View
      <4>5. Remembered(q)'
        BY <2>0, <3>5, <4>1, <4>4, Numbers DEF Finish, Remembered
      <4>6. Guarded(q)'
        BY <2>0, <3>5, <4>1, <4>2, Numbers DEF Finish, Guarded
      <4>7. Current(q)'
        BY <2>0, <3>5, <4>1, <4>2, <4>3, Numbers DEF Finish, Current, Thread
      <4> QED
        BY <4>5, <4>6, <4>7
    <3> QED
      BY <2>11, <3>1, <3>2, <3>3, <3>4, <3>5 DEF ThreadStep
  <2>12. CASE UNCHANGED vars
    BY <2>0, <2>12 DEF vars, local, Remembered, Guarded, Current, View
  <2> QED
    BY <2>1, <2>2, <2>3, <2>4, <2>5, <2>6, <2>7, <2>8, <2>9, <2>10, <2>11, <2>12 DEF Next
<1> QED
  BY <1>1, <1>2, TypeCorrect, PTL DEF Spec

\* A tick works with every record its runner could see when the tick began, or
\* with none where they could not be read, for any number of runners, deaths
\* and failed reads (sharedInputs, inputKey, readInputs).
THEOREM TickSeesRecordsHolds == Spec => []TickSeesRecords
<1>1. LoopInv => TickSeesRecords
  BY DEF LoopInv, Current, TickSeesRecords
<1> QED
  BY <1>1, LoopInvHolds, PTL

\* No change the watch acted on is lost to a wake already waiting (Watch.Run).
THEOREM WakeKeptHolds == Spec => []WakeKept
<1>1. LoopInv => WakeKept
  BY DEF LoopInv, Current, WakeKept
<1> QED
  BY <1>1, LoopInvHolds, PTL

-----------------------------------------------------------------------------
(* The hub's schedule.                                                     *)

InPass(r) == stage[r] \in {"pass", "read"}

\* The longest that the reads before workspace k take in a pass, and what slips cost.
Slot(k) == (k - 1) * ReadTime
Early == Slot(N)
Cost(n) == n * SlipCost

\* A replica between its steps.
Fits(r) ==
  /\ stage[r] # "read" => spent[r] = 0 /\ ~mine[r]
  /\ passed[r] <= Slot(turn[r]) + spent[r]
  /\ ~InPass(r) => ~starting[r] /\ passed[r] = 0 /\ turn[r] = 1
  /\ stage[r] = "down" => timer[r] = RefreshInterval /\ ~due[r]

ScheduleFits == PassTypeOK /\ \A r \in Replicas : Fits(r)

\* A lease that was taken and not handed back is still there, or was taken long ago.
Spaced == \A w \in Workspaces : sinceTaken[w] + leases[w].left >= LeaseFor

-----------------------------------------------------------------------------
\* The durations.
LEMMA Durations ==
  /\ N \in Nat /\ N >= 1 /\ RefreshInterval \in Nat /\ RefreshInterval >= 1
  /\ ReadTime \in Nat /\ MaxSlips \in Nat
  /\ LeaseFor \in Nat /\ 1 <= LeaseFor /\ LeaseFor <= RefreshInterval
<1>1. RefreshInterval \div 4 \in Nat /\ RefreshInterval \div 4 < RefreshInterval
  BY RefresherAssumption
<1>. QED
  BY <1>1, RefresherAssumption DEF LeaseFor

\* The reads before a workspace's, one after the other.
LEMMA Slots ==
  /\ \A k \in Workspaces : Slot(k) \in Nat /\ Slot(k) <= Early
  /\ \A k \in Workspaces : Slot(k) + ReadTime = Slot(k + 1)
  /\ \A j, k \in Workspaces : j < k => Slot(j) + ReadTime <= Slot(k)
  /\ Slot(1) = 0 /\ Early \in Nat /\ PassTime = Early + ReadTime /\ PassTime \in Nat
<1>1. ASSUME NEW j \in Nat, NEW k \in Nat, j <= k PROVE j * ReadTime <= k * ReadTime
  <2>1. PICK d \in Nat : k = j + d
    BY <1>1
  <2>2. k * ReadTime = j * ReadTime + d * ReadTime /\ d * ReadTime \in Nat /\ j * ReadTime \in Nat
    BY <2>1, Durations
  <2>. QED
    BY <2>2
<1>2. ASSUME NEW k \in Nat PROVE k * ReadTime + ReadTime = (k + 1) * ReadTime
  BY Durations
<1>3. \A k \in Workspaces : Slot(k) \in Nat /\ Slot(k) <= Early
  BY <1>1, Durations DEF Workspaces, Slot, Early
<1>4. \A k \in Workspaces : Slot(k) + ReadTime = Slot(k + 1)
  BY <1>2, Durations DEF Workspaces, Slot
<1>5. ASSUME NEW j \in Workspaces, NEW k \in Workspaces, j < k PROVE Slot(j) + ReadTime <= Slot(k)
  <2>1. j * ReadTime <= (k - 1) * ReadTime
    BY <1>1, <1>5, Durations DEF Workspaces
  <2>2. (j - 1) * ReadTime + ReadTime = j * ReadTime
    BY <1>2, Durations DEF Workspaces
  <2>. QED
    BY <2>1, <2>2 DEF Slot
<1>6. Slot(1) = 0 /\ Early \in Nat /\ PassTime = Early + ReadTime /\ PassTime \in Nat
  BY Durations DEF Slot, Early, PassTime
<1>. QED
  BY <1>3, <1>4, <1>5, <1>6

\* Slips add up.
LEMMA Costs ==
  /\ SlipCost \in Nat /\ SlipCost = LeaseFor - 1 + RefreshInterval + Early
  /\ Cost(0) = 0
  /\ \A n \in Nat : Cost(n) \in Nat /\ Cost(n + 1) = Cost(n) + SlipCost
  /\ \A n \in 0 .. MaxSlips : Cost(n) <= MaxSlips * SlipCost
  /\ \A n \in Nat : n >= 1 => Cost(n) >= SlipCost
<1>1. SlipCost \in Nat /\ SlipCost = LeaseFor - 1 + RefreshInterval + Early
  BY Durations, Slots DEF SlipCost, Early, Slot
<1>2. ASSUME NEW n \in Nat PROVE n * SlipCost \in Nat /\ (n + 1) * SlipCost = n * SlipCost + SlipCost
  BY <1>1
<1>3. ASSUME NEW n \in 0 .. MaxSlips PROVE n * SlipCost <= MaxSlips * SlipCost
  <2>1. PICK d \in Nat : MaxSlips = n + d
    BY Durations
  <2>2. MaxSlips * SlipCost = n * SlipCost + d * SlipCost /\ d * SlipCost \in Nat /\ n * SlipCost \in Nat
    BY <1>1, <2>1
  <2>. QED
    BY <2>2
<1>4. ASSUME NEW n \in Nat, n >= 1 PROVE n * SlipCost >= SlipCost
  <2>1. PICK d \in Nat : n = d + 1
    BY <1>4
  <2>. QED
    BY <1>1, <1>2, <2>1
<1>. QED
  BY <1>1, <1>2, <1>3, <1>4 DEF Cost

-----------------------------------------------------------------------------
(* What each step does.                                                    *)

\* The other replicas stay as they are.
Only(r) ==
  \A q \in Replicas : q # r =>
    /\ stage'[q] = stage[q] /\ turn'[q] = turn[q] /\ starting'[q] = starting[q]
    /\ timer'[q] = timer[q] /\ due'[q] = due[q] /\ spent'[q] = spent[q]
    /\ passed'[q] = passed[q] /\ mine'[q] = mine[q]

\* A replica is done with a workspace: Onward, where it stands.
Past(r) ==
  /\ Only(r) /\ timer'[r] = timer[r] /\ due'[r] = due[r] /\ spent'[r] = 0 /\ ~mine'[r]
  /\ mine'[r] \in BOOLEAN /\ starting'[r] \in BOOLEAN
  /\ turn[r] = N => stage'[r] = "wait" /\ turn'[r] = 1 /\ ~starting'[r] /\ passed'[r] = 0
  /\ turn[r] # N => /\ stage'[r] = "pass" /\ turn'[r] = turn[r] + 1
                    /\ starting'[r] = starting[r] /\ passed'[r] = passed[r]

\* The types, one by one.
LEMMA ScheduleTypes ==
  PassTypeOK <=>
    /\ stage \in [Replicas -> {"down", "wait", "pass", "read"}] /\ turn \in [Replicas -> Workspaces]
    /\ timer \in [Replicas -> 1 .. RefreshInterval] /\ starting \in [Replicas -> BOOLEAN]
    /\ due \in [Replicas -> BOOLEAN] /\ mine \in [Replicas -> BOOLEAN]
    /\ spent \in [Replicas -> 0 .. ReadTime] /\ passed \in [Replicas -> 0 .. PassTime]
    /\ leases \in [Workspaces -> [by : Replicas \cup {"nobody", "lost"}, left : 0 .. LeaseFor]]
    /\ ages \in [Workspaces -> 0 .. Oldest + 1] /\ slips \in [Workspaces -> 0 .. MaxSlips]
    /\ sinceTaken \in [Workspaces -> 0 .. LeaseFor] /\ stopped \in [Workspaces -> BOOLEAN]
BY DEF PassTypeOK

\* Onward.
LEMMA OnwardDoes ==
  ASSUME PassTypeOK, NEW r \in Replicas, Onward(r), UNCHANGED <<timer, due>>
  PROVE  Past(r)
BY DEF PassTypeOK, Onward, Past, Only

\* Slip.
LEMMA SlipDoes ==
  ASSUME PassTypeOK, NEW ws \in SUBSET Workspaces, Slip(ws)
  PROVE  /\ slips' \in [Workspaces -> 0 .. MaxSlips]
         /\ \A w \in Workspaces : slips'[w] = IF w \in ws THEN slips[w] + 1 ELSE slips[w]
BY Durations DEF PassTypeOK, Slip

\* A process starts.
LEMMA StartDoes ==
  ASSUME PassTypeOK, NEW r \in Replicas, Start(r)
  PROVE  /\ Only(r) /\ stage[r] = "down" /\ stage'[r] = "pass" /\ turn'[r] = 1 /\ starting'[r]
         /\ UNCHANGED <<timer, due, spent, passed, mine, leases, ages, slips, sinceTaken, stopped>>
BY Durations DEF PassTypeOK, Start, Pass, Only, snapshotVars

\* A process ends.
LEMMA StopDoes ==
  ASSUME PassTypeOK, NEW r \in Replicas, Stop(r)
  PROVE  /\ Only(r) /\ stage[r] # "down" /\ stage'[r] = "down" /\ turn'[r] = 1 /\ ~starting'[r]
         /\ timer'[r] = RefreshInterval /\ ~due'[r] /\ spent'[r] = 0 /\ passed'[r] = 0 /\ ~mine'[r]
         /\ slips' \in [Workspaces -> 0 .. MaxSlips]
         /\ \A w \in Workspaces :
              slips'[w] = IF InPass(r) /\ turn[r] <= w THEN slips[w] + 1 ELSE slips[w]
         /\ \A w \in Workspaces : stopped'[w]
         /\ UNCHANGED <<leases, ages, sinceTaken>>
<1>1. /\ Only(r) /\ stage[r] # "down" /\ stage'[r] = "down" /\ turn'[r] = 1 /\ ~starting'[r]
      /\ timer'[r] = RefreshInterval /\ ~due'[r] /\ spent'[r] = 0 /\ passed'[r] = 0 /\ ~mine'[r]
      /\ \A w \in Workspaces : stopped'[w]
  BY DEF PassTypeOK, Stop, Only, snapshotVars
<1>2. CASE stage[r] # "wait"
  <2>0. InPass(r) /\ Slip(turn[r] .. N) /\ turn[r] \in 1 .. N
    BY <1>1, <1>2 DEF PassTypeOK, Stop, InPass, Workspaces, snapshotVars
  <2>1. turn[r] .. N \in SUBSET Workspaces
    BY <2>0, Durations DEF Workspaces
  <2>2. \A w \in Workspaces : w \in turn[r] .. N <=> turn[r] <= w
    BY Durations DEF PassTypeOK, Workspaces
  <2>. QED
    BY <1>1, <2>0, <2>1, <2>2, SlipDoes DEF Stop, snapshotVars
<1>3. CASE stage[r] = "wait"
  BY <1>1, <1>3 DEF PassTypeOK, Stop, InPass, snapshotVars
<1>. QED
  BY <1>2, <1>3

\* A tick is received.
LEMMA ReceivedDoes ==
  ASSUME PassTypeOK, NEW r \in Replicas, Received(r)
  PROVE  /\ Only(r) /\ stage[r] = "wait" /\ due[r] /\ stage'[r] = "pass" /\ turn'[r] = 1
         /\ ~starting'[r] /\ ~due'[r] /\ due'[r] \in BOOLEAN
         /\ UNCHANGED <<timer, spent, passed, mine, leases, ages, slips, sinceTaken, stopped>>
BY Durations DEF PassTypeOK, Received, Pass, Only, snapshotVars

\* The records cannot be listed.
LEMMA ListFailsDoes ==
  ASSUME PassTypeOK, NEW r \in Replicas, ListFails(r)
  PROVE  /\ Only(r) /\ stage[r] = "pass" /\ turn[r] = 1 /\ stage'[r] = "wait" /\ ~starting'[r]
         /\ slips' \in [Workspaces -> 0 .. MaxSlips]
         /\ \A w \in Workspaces : slips'[w] = slips[w] + 1
         /\ UNCHANGED <<turn, timer, due, spent, passed, mine, leases, ages, sinceTaken, stopped>>
<1>1. Slip(Workspaces)
  BY DEF ListFails, snapshotVars
<1>. QED
  BY <1>1, SlipDoes DEF PassTypeOK, ListFails, Only, snapshotVars

\* A pass at the start leaves a workspace alone.
LEMMA NotDueDoes ==
  ASSUME PassTypeOK, NEW r \in Replicas, NotDue(r)
  PROVE  /\ Past(r) /\ stage[r] = "pass" /\ starting[r] /\ turn[r] \in Workspaces
         /\ UNCHANGED <<timer, due, leases, ages, sinceTaken, stopped>>
         /\ slips' \in [Workspaces -> 0 .. MaxSlips]
         /\ \A w \in Workspaces : w # turn[r] => slips'[w] = slips[w]
         /\ \/ slips' = slips /\ ~DueAtStart(r, turn[r])
            \/ slips'[turn[r]] = slips[turn[r]] + 1
<1>1. turn[r] \in Workspaces /\ {turn[r]} \in SUBSET Workspaces
  BY DEF PassTypeOK
<1>2. Past(r)
  BY OnwardDoes DEF NotDue, snapshotVars
<1>3. CASE Slip({turn[r]})
  BY <1>1, <1>2, <1>3, SlipDoes DEF NotDue, snapshotVars
<1>4. CASE ~DueAtStart(r, turn[r]) /\ UNCHANGED slips
  BY <1>1, <1>2, <1>4 DEF NotDue, PassTypeOK, snapshotVars
<1>. QED
  BY <1>3, <1>4 DEF NotDue, snapshotVars

\* A replica is refused the lease.
LEMMA RefusedDoes ==
  ASSUME PassTypeOK, NEW r \in Replicas, Refused(r)
  PROVE  /\ Past(r) /\ Ready(r) /\ stage[r] = "pass" /\ turn[r] \in Workspaces
         /\ leases[turn[r]].left > 0
         /\ UNCHANGED <<timer, due, leases, ages, slips, sinceTaken, stopped>>
BY OnwardDoes DEF Refused, Ready, PassTypeOK, snapshotVars

\* A read begins.
Opens(r) ==
  /\ Only(r) /\ Ready(r) /\ stage[r] = "pass" /\ stage'[r] = "read" /\ turn[r] \in Workspaces
  /\ UNCHANGED <<turn, starting, timer, due, spent, passed, ages, slips, stopped>>
  /\ \A w \in Workspaces : w # turn[r] => leases'[w] = leases[w] /\ sinceTaken'[w] = sinceTaken[w]

\* A read begins under the lease.
LEMMA TakenDoes ==
  ASSUME PassTypeOK, NEW r \in Replicas, Taken(r)
  PROVE  /\ Opens(r) /\ mine'[r] /\ leases[turn[r]].left = 0
         /\ leases'[turn[r]] = [by |-> r, left |-> LeaseFor] /\ sinceTaken'[turn[r]] = 0
BY DEF PassTypeOK, Taken, Reading, Ready, Opens, Only, snapshotVars

\* A read begins without it.
LEMMA LockFailsDoes ==
  ASSUME PassTypeOK, NEW r \in Replicas, LockFails(r)
  PROVE  /\ Opens(r) /\ ~mine'[r] /\ mine'[r] \in BOOLEAN /\ UNCHANGED sinceTaken
         /\ \/ leases' = leases
            \/ /\ leases[turn[r]].left = 0
               /\ leases'[turn[r]] = [by |-> "lost", left |-> LeaseFor]
BY DEF PassTypeOK, LockFails, Reading, Ready, Opens, Only, snapshotVars

\* A read is done.
LEMMA ReadDoneDoes ==
  ASSUME PassTypeOK, NEW r \in Replicas, ReadDone(r)
  PROVE  /\ Past(r) /\ stage[r] = "read" /\ turn[r] \in Workspaces
         /\ ages'[turn[r]] = 0 /\ mine[r] \in BOOLEAN
         /\ mine[r] => slips'[turn[r]] = 0 /\ ~stopped'[turn[r]]
         /\ ~mine[r] => slips'[turn[r]] = slips[turn[r]] /\ stopped'[turn[r]] = stopped[turn[r]]
         /\ \A w \in Workspaces : w # turn[r] =>
              ages'[w] = ages[w] /\ slips'[w] = slips[w] /\ stopped'[w] = stopped[w]
         /\ UNCHANGED <<timer, due, leases, sinceTaken>>
<1>1. Past(r) /\ turn[r] \in Workspaces /\ mine[r] \in BOOLEAN /\ stopped[turn[r]] \in BOOLEAN
  BY OnwardDoes DEF ReadDone, PassTypeOK, snapshotVars, Stored
<1>2. \A w \in Workspaces : w # turn[r] =>
        ages'[w] = ages[w] /\ slips'[w] = slips[w] /\ stopped'[w] = stopped[w]
  BY DEF ReadDone, PassTypeOK, snapshotVars, Stored
<1>3. /\ ages'[turn[r]] = 0 /\ slips'[turn[r]] = IF mine[r] THEN 0 ELSE slips[turn[r]]
      /\ stopped'[turn[r]] = (~mine[r] /\ stopped[turn[r]])
  BY <1>1 DEF ReadDone, PassTypeOK, snapshotVars, Stored
<1>. QED
  BY <1>1, <1>2, <1>3 DEF ReadDone, snapshotVars, Stored

\* A read fails, and hands the lease back or not.
LEMMA ReadFailsDoes ==
  ASSUME PassTypeOK, NEW r \in Replicas, ReadFails(r)
  PROVE  /\ Past(r) /\ stage[r] = "read" /\ turn[r] \in Workspaces
         /\ slips' \in [Workspaces -> 0 .. MaxSlips] /\ slips'[turn[r]] = slips[turn[r]] + 1
         /\ \A w \in Workspaces : w # turn[r] =>
              slips'[w] = slips[w] /\ leases'[w] = leases[w] /\ sinceTaken'[w] = sinceTaken[w]
         /\ UNCHANGED <<timer, due, ages, stopped>>
         /\ \/ UNCHANGED <<leases, sinceTaken>>
            \/ /\ mine[r] /\ leases[turn[r]].by = r
               /\ leases'[turn[r]] = Free /\ sinceTaken'[turn[r]] = LeaseFor
<1>1. turn[r] \in Workspaces /\ {turn[r]} \in SUBSET Workspaces /\ Slip({turn[r]})
  BY DEF PassTypeOK, ReadFails, snapshotVars
<1>2. /\ slips' \in [Workspaces -> 0 .. MaxSlips]
      /\ \A w \in Workspaces : slips'[w] = IF w \in {turn[r]} THEN slips[w] + 1 ELSE slips[w]
  BY <1>1, SlipDoes
<1>3. /\ \/ UNCHANGED <<leases, sinceTaken>>
         \/ /\ mine[r] /\ leases[turn[r]].by = r
            /\ leases'[turn[r]] = Free /\ sinceTaken'[turn[r]] = LeaseFor
      /\ \A w \in Workspaces : w # turn[r] => leases'[w] = leases[w] /\ sinceTaken'[w] = sinceTaken[w]
  BY <1>1 DEF PassTypeOK, ReadFails, HandBack, snapshotVars
<1>4. Past(r)
  BY OnwardDoes DEF ReadFails, snapshotVars
<1>. QED
  BY <1>1, <1>2, <1>3, <1>4 DEF ReadFails, snapshotVars

-----------------------------------------------------------------------------
(* Types.                                                                  *)

\* A replica that goes on is well placed.
LEMMA PastFits ==
  ASSUME ScheduleFits, NEW r \in Replicas, Past(r), InPass(r)
  PROVE  \A q \in Replicas : Fits(q)'
<1>1. turn[r] \in Workspaces /\ spent[r] \in 0 .. ReadTime /\ passed[r] \in 0 .. PassTime
  BY DEF ScheduleFits, PassTypeOK
<1>2. passed[r] <= Slot(turn[r]) + spent[r] /\ stage[r] # "down"
  BY DEF ScheduleFits, Fits, InPass
<1>3. passed[r] <= Slot(turn[r] + 1) /\ Slot(1) = 0
  BY <1>1, <1>2, Slots, Durations
<1>4. Fits(r)'
  <2>1. CASE turn[r] = N
    BY <1>3, <2>1 DEF Past, Fits, InPass
  <2>2. CASE turn[r] # N
    <3>1. Slot(turn[r] + 1) \in Nat
      BY <1>1, <2>2, Durations, Slots DEF Workspaces
    <3>. QED
      BY <1>3, <2>2, <3>1 DEF Past, Fits, InPass
  <2>. QED
    BY <2>1, <2>2
<1>5. ASSUME NEW q \in Replicas, q # r PROVE Fits(q)'
  BY <1>5 DEF ScheduleFits, Fits, InPass, Past, Only
<1>. QED
  BY <1>4, <1>5

\* The same of one replica that moved otherwise.
LEMMA OnlyFits ==
  ASSUME ScheduleFits, NEW r \in Replicas, Only(r), Fits(r)'
  PROVE  \A q \in Replicas : Fits(q)'
<1>1. ASSUME NEW q \in Replicas, q # r PROVE Fits(q)'
  BY <1>1 DEF ScheduleFits, Fits, InPass, Only
<1>. QED
  BY <1>1

\* Onward keeps the types.
LEMMA OnwardTypes ==
  ASSUME ScheduleFits, NEW r \in Replicas, Onward(r)
  PROVE  /\ stage' \in [Replicas -> {"down", "wait", "pass", "read"}]
         /\ turn' \in [Replicas -> Workspaces] /\ starting' \in [Replicas -> BOOLEAN]
         /\ spent' \in [Replicas -> 0 .. ReadTime] /\ passed' \in [Replicas -> 0 .. PassTime]
         /\ mine' \in [Replicas -> BOOLEAN]
<1>1. turn[r] \in 1 .. N /\ N \in Nat /\ N >= 1 /\ ReadTime \in Nat /\ PassTime \in Nat
  BY Durations, Slots DEF ScheduleFits, PassTypeOK, Workspaces
<1>2. turn[r] # N => turn[r] + 1 \in 1 .. N
  BY <1>1
<1>3. turn' \in [Replicas -> Workspaces]
  BY <1>1, <1>2 DEF ScheduleFits, PassTypeOK, Onward, Workspaces
<1>. QED
  BY <1>1, <1>3 DEF ScheduleFits, PassTypeOK, Onward

\* Who starts, stops or receives a tick.
LEMMA RunType ==
  ASSUME ScheduleFits, NEW r \in Replicas, Start(r) \/ Stop(r) \/ Received(r) \/ ListFails(r)
  PROVE  ScheduleFits'
<1>0. 1 \in Workspaces /\ RefreshInterval \in 1 .. RefreshInterval
      /\ 0 \in 0 .. ReadTime /\ 0 \in 0 .. PassTime
  BY Durations, Slots DEF Workspaces
<1>1. CASE Start(r)
  <2>1. PassTypeOK'
    <3>1. /\ stage' \in [Replicas -> {"down", "wait", "pass", "read"}]
          /\ turn' \in [Replicas -> Workspaces] /\ starting' \in [Replicas -> BOOLEAN]
      BY <1>0, <1>1 DEF ScheduleFits, PassTypeOK, Start, Pass, snapshotVars
    <3>. QED
      BY <1>1, <3>1 DEF ScheduleFits, PassTypeOK, Start, snapshotVars
  <2>2. Fits(r)'
    BY <1>1, StartDoes, Slots DEF ScheduleFits, Fits, InPass
  <2>. QED
    BY <1>1, <2>1, <2>2, StartDoes, OnlyFits DEF ScheduleFits
<1>2. CASE Stop(r)
  <2>1. slips' \in [Workspaces -> 0 .. MaxSlips]
    BY <1>2, StopDoes DEF ScheduleFits
  <2>2. PassTypeOK'
    <3>1. /\ stage' \in [Replicas -> {"down", "wait", "pass", "read"}]
          /\ turn' \in [Replicas -> Workspaces] /\ starting' \in [Replicas -> BOOLEAN]
          /\ timer' \in [Replicas -> 1 .. RefreshInterval] /\ due' \in [Replicas -> BOOLEAN]
      BY <1>0, <1>2 DEF ScheduleFits, PassTypeOK, Stop, snapshotVars
    <3>2. /\ spent' \in [Replicas -> 0 .. ReadTime] /\ passed' \in [Replicas -> 0 .. PassTime]
          /\ mine' \in [Replicas -> BOOLEAN] /\ stopped' \in [Workspaces -> BOOLEAN]
      BY <1>0, <1>2 DEF ScheduleFits, PassTypeOK, Stop, snapshotVars
    <3>. QED
      BY <1>2, <2>1, <3>1, <3>2 DEF ScheduleFits, PassTypeOK, Stop, snapshotVars
  <2>3. Fits(r)'
    BY <1>2, StopDoes, Slots DEF ScheduleFits, Fits, InPass
  <2>. QED
    BY <1>2, <2>2, <2>3, StopDoes, OnlyFits DEF ScheduleFits
<1>3. CASE Received(r)
  <2>1. PassTypeOK'
    <3>1. /\ stage' \in [Replicas -> {"down", "wait", "pass", "read"}]
          /\ turn' \in [Replicas -> Workspaces] /\ starting' \in [Replicas -> BOOLEAN]
          /\ due' \in [Replicas -> BOOLEAN]
      BY <1>0, <1>3 DEF ScheduleFits, PassTypeOK, Received, Pass, snapshotVars
    <3>. QED
      BY <1>3, <3>1 DEF ScheduleFits, PassTypeOK, Received, snapshotVars
  <2>2. Fits(r)'
    BY <1>3, ReceivedDoes, Slots DEF ScheduleFits, Fits, InPass
  <2>. QED
    BY <1>3, <2>1, <2>2, ReceivedDoes, OnlyFits DEF ScheduleFits
<1>4. CASE ListFails(r)
  <2>1. slips' \in [Workspaces -> 0 .. MaxSlips]
    BY <1>4, ListFailsDoes DEF ScheduleFits
  <2>2. PassTypeOK'
    BY <1>4, <2>1, Durations DEF ScheduleFits, PassTypeOK, ListFails, snapshotVars
  <2>3. Fits(r)'
    <3>1. stage[r] = "pass" /\ turn[r] = 1 /\ passed[r] \in Nat /\ spent[r] = 0
      BY <1>4, ListFailsDoes DEF ScheduleFits, PassTypeOK, Fits
    <3>2. passed[r] = 0
      BY <3>1, Slots DEF ScheduleFits, Fits
    <3>. QED
      BY <1>4, <3>1, <3>2, ListFailsDoes, Slots DEF ScheduleFits, Fits, InPass
  <2>. QED
    BY <1>4, <2>2, <2>3, ListFailsDoes, OnlyFits DEF ScheduleFits
<1>. QED
  BY <1>1, <1>2, <1>3, <1>4

\* Who is done with a workspace.
LEMMA PastType ==
  ASSUME ScheduleFits, NEW r \in Replicas, NotDue(r) \/ Refused(r) \/ ReadDone(r) \/ ReadFails(r)
  PROVE  ScheduleFits'
<1>1. PassTypeOK /\ Onward(r) /\ InPass(r)
  BY DEF ScheduleFits, NotDue, Refused, Ready, ReadDone, ReadFails, InPass, snapshotVars, Stored
<1>2. Past(r)
  BY <1>1, NotDueDoes, RefusedDoes, ReadDoneDoes, ReadFailsDoes
<1>3. PassTypeOK'
  <2>1. CASE NotDue(r)
    BY <1>1, <2>1, OnwardTypes, NotDueDoes, ScheduleTypes DEF PassTypeOK
  <2>2. CASE Refused(r)
    BY <1>1, <2>2, OnwardTypes, RefusedDoes, ScheduleTypes DEF PassTypeOK
  <2>3. CASE ReadDone(r)
    <3>1. /\ ages' \in [Workspaces -> 0 .. Oldest + 1] /\ slips' \in [Workspaces -> 0 .. MaxSlips]
          /\ stopped' \in [Workspaces -> BOOLEAN]
      <4>1. 0 \in 0 .. MaxSlips /\ 0 \in 0 .. Oldest + 1
        BY Durations, Slots, Costs DEF Oldest
      <4>. QED
        BY <1>1, <2>3, <4>1 DEF ReadDone, PassTypeOK, snapshotVars, Stored
    <3>. QED
      BY <1>1, <2>3, <3>1, OnwardTypes DEF ReadDone, PassTypeOK, snapshotVars, Stored
  <2>4. CASE ReadFails(r)
    <3>1. /\ leases' \in [Workspaces -> [by : Replicas \cup {"nobody", "lost"}, left : 0 .. LeaseFor]]
          /\ sinceTaken' \in [Workspaces -> 0 .. LeaseFor]
      <4>1. Free \in [by : Replicas \cup {"nobody", "lost"}, left : 0 .. LeaseFor]
            /\ LeaseFor \in 0 .. LeaseFor
        BY Durations DEF Free
      <4>. QED
        BY <1>1, <2>4, <4>1 DEF ReadFails, HandBack, PassTypeOK, snapshotVars
    <3>. QED
      BY <1>1, <2>4, <3>1, OnwardTypes, ReadFailsDoes DEF ReadFails, PassTypeOK, snapshotVars
  <2>. QED
    BY <2>1, <2>2, <2>3, <2>4
<1>. QED
  BY <1>1, <1>2, <1>3, PastFits DEF ScheduleFits

\* Who begins a read.
LEMMA OpenReadType ==
  ASSUME ScheduleFits, NEW r \in Replicas, Taken(r) \/ LockFails(r)
  PROVE  ScheduleFits'
<1>1. PassTypeOK /\ turn[r] \in Workspaces
  BY DEF ScheduleFits, PassTypeOK
<1>2. Opens(r)
  BY <1>1, TakenDoes, LockFailsDoes
<1>3. /\ stage' \in [Replicas -> {"down", "wait", "pass", "read"}] /\ mine' \in [Replicas -> BOOLEAN]
      /\ leases' \in [Workspaces -> [by : Replicas \cup {"nobody", "lost"}, left : 0 .. LeaseFor]]
      /\ sinceTaken' \in [Workspaces -> 0 .. LeaseFor]
  <2>1. /\ 0 \in 0 .. LeaseFor
        /\ [by |-> r, left |-> LeaseFor] \in [by : Replicas \cup {"nobody", "lost"}, left : 0 .. LeaseFor]
        /\ [by |-> "lost", left |-> LeaseFor] \in [by : Replicas \cup {"nobody", "lost"}, left : 0 .. LeaseFor]
    BY Durations
  <2>2. CASE Taken(r)
    BY <1>1, <2>1, <2>2 DEF PassTypeOK, Taken, Reading, snapshotVars
  <2>3. CASE LockFails(r)
    <3>1. /\ stage' \in [Replicas -> {"down", "wait", "pass", "read"}]
          /\ mine' \in [Replicas -> BOOLEAN] /\ sinceTaken' \in [Workspaces -> 0 .. LeaseFor]
      BY <1>1, <2>3 DEF PassTypeOK, LockFails, Reading, snapshotVars
    <3>2. \/ leases' = leases
          \/ leases' = [leases EXCEPT ![turn[r]] = [by |-> "lost", left |-> LeaseFor]]
      BY <2>3 DEF LockFails, snapshotVars
    <3>3. leases' \in [Workspaces -> [by : Replicas \cup {"nobody", "lost"}, left : 0 .. LeaseFor]]
      BY <1>1, <2>1, <3>2 DEF PassTypeOK
    <3>. QED
      BY <3>1, <3>3
  <2>. QED
    BY <2>2, <2>3
<1>4. PassTypeOK'
  BY <1>1, <1>2, <1>3 DEF Opens, PassTypeOK
<1>5. Fits(r)'
  BY <1>2 DEF ScheduleFits, Fits, Opens, InPass
<1>. QED
  BY <1>2, <1>4, <1>5, OnlyFits DEF Opens, ScheduleFits

\* A unit of time, for one replica and for one workspace.
LEMMA UnitDoes ==
  ASSUME PassTypeOK, UnitPasses
  PROVE  /\ \E r \in Replicas : stage[r] # "down"
         /\ UNCHANGED <<stage, turn, starting, mine, slips, stopped>>
         /\ \A r \in Replicas :
              /\ stage[r] # "pass" /\ ~(stage[r] = "wait" /\ due[r])
              /\ stage[r] = "read" => spent[r] < ReadTime /\ spent'[r] = spent[r] + 1
              /\ stage[r] # "read" => spent'[r] = 0
              /\ timer'[r] = IF stage[r] = "down" \/ timer[r] = 1
                             THEN RefreshInterval ELSE timer[r] - 1
              /\ due'[r] = (stage[r] # "down" /\ (due[r] \/ timer[r] = 1))
              /\ passed'[r] = IF stage[r] = "read" /\ starting[r] THEN passed[r] + 1 ELSE passed[r]
         /\ \A w \in Workspaces :
              /\ leases[w].left > 1 =>
                   leases'[w].left = leases[w].left - 1 /\ leases'[w].by = leases[w].by
              /\ leases[w].left <= 1 => leases'[w] = Free
              /\ ages'[w] = IF ages[w] > Oldest THEN ages[w] ELSE ages[w] + 1
              /\ sinceTaken'[w] = IF sinceTaken[w] = LeaseFor THEN LeaseFor ELSE sinceTaken[w] + 1
<1>1. /\ \E r \in Replicas : stage[r] # "down"
      /\ UNCHANGED <<stage, turn, starting, mine, slips, stopped>>
      /\ \A r \in Replicas :
           /\ stage[r] # "pass" /\ ~(stage[r] = "wait" /\ due[r])
           /\ stage[r] = "read" => spent[r] < ReadTime
  BY DEF UnitPasses, snapshotVars
<1>2. ASSUME NEW r \in Replicas
      PROVE  /\ stage[r] = "read" => spent'[r] = spent[r] + 1
             /\ stage[r] # "read" => spent'[r] = 0
             /\ timer'[r] = IF stage[r] = "down" \/ timer[r] = 1
                            THEN RefreshInterval ELSE timer[r] - 1
             /\ due'[r] = (stage[r] # "down" /\ (due[r] \/ timer[r] = 1))
             /\ passed'[r] = IF stage[r] = "read" /\ starting[r] THEN passed[r] + 1 ELSE passed[r]
  BY DEF UnitPasses, snapshotVars
<1>3. ASSUME NEW w \in Workspaces
      PROVE  /\ leases[w].left > 1 =>
                  leases'[w].left = leases[w].left - 1 /\ leases'[w].by = leases[w].by
             /\ leases[w].left <= 1 => leases'[w] = Free
             /\ ages'[w] = IF ages[w] > Oldest THEN ages[w] ELSE ages[w] + 1
             /\ sinceTaken'[w] = IF sinceTaken[w] = LeaseFor THEN LeaseFor ELSE sinceTaken[w] + 1
  <2>1. leases'[w] = IF leases[w].left > 1 THEN [leases[w] EXCEPT !.left = @ - 1] ELSE Free
    BY DEF UnitPasses, snapshotVars
  <2>2. leases[w].left \in Nat /\ leases[w] \in [by : Replicas \cup {"nobody", "lost"}, left : 0 .. LeaseFor]
    BY Durations DEF PassTypeOK
  <2>. QED
    BY <2>1, <2>2 DEF UnitPasses, snapshotVars
<1>. QED
  BY <1>1, <1>2, <1>3

\* A unit of time keeps the types.
LEMMA UnitType ==
  ASSUME ScheduleFits, UnitPasses
  PROVE  ScheduleFits'
<1>1. PassTypeOK
  BY DEF ScheduleFits
<1>2. ASSUME NEW r \in Replicas
      PROVE  /\ timer'[r] \in 1 .. RefreshInterval /\ due'[r] \in BOOLEAN
             /\ spent'[r] \in 0 .. ReadTime /\ passed'[r] \in 0 .. PassTime /\ Fits(r)'
  <2>1. /\ timer[r] \in 1 .. RefreshInterval /\ due[r] \in BOOLEAN /\ spent[r] \in 0 .. ReadTime
        /\ passed[r] \in 0 .. PassTime /\ turn[r] \in Workspaces
    BY <1>1 DEF PassTypeOK
  <2>2. timer'[r] \in 1 .. RefreshInterval /\ due'[r] \in BOOLEAN /\ spent'[r] \in 0 .. ReadTime
    <3>1. timer'[r] \in 1 .. RefreshInterval
      BY <1>1, <2>1, UnitDoes, Durations
    <3>2. due'[r] \in BOOLEAN
      <4>1. due'[r] = (stage[r] # "down" /\ (due[r] \/ timer[r] = 1))
        BY <1>1, UnitDoes
      <4>. QED
        BY <4>1
    <3>3. spent'[r] \in 0 .. ReadTime
      BY <1>1, <2>1, UnitDoes, Durations
    <3>. QED
      BY <3>1, <3>2, <3>3
  <2>3. Slot(turn[r]) \in Nat /\ Slot(turn[r]) + ReadTime <= PassTime
    BY <2>1, Slots, Durations
  <2>4. passed[r] <= Slot(turn[r]) + spent[r]
    BY DEF ScheduleFits, Fits
  <2>5. passed'[r] <= Slot(turn[r]) + spent'[r] /\ passed'[r] \in Nat
    <3>1. CASE stage[r] = "read"
      BY <1>1, <2>1, <2>3, <2>4, <3>1, UnitDoes, Durations
    <3>2. CASE stage[r] # "read"
      <4>1. spent[r] = 0 /\ spent'[r] = 0 /\ passed'[r] = passed[r]
        BY <1>1, <3>2, UnitDoes DEF ScheduleFits, Fits
      <4>. QED
        BY <2>1, <2>4, <4>1
    <3>. QED
      BY <3>1, <3>2
  <2>6. passed'[r] \in 0 .. PassTime
    BY <2>2, <2>3, <2>5, Durations, Slots
  <2>7. Fits(r)'
    <3>1. Fits(r) /\ turn'[r] = turn[r] /\ stage'[r] = stage[r] /\ mine'[r] = mine[r] /\ starting'[r] = starting[r]
      BY <1>1, UnitDoes DEF ScheduleFits
    <3>2. stage[r] # "read" => spent'[r] = 0 /\ passed'[r] = passed[r]
      BY <1>1, UnitDoes
    <3>3. stage[r] = "down" => timer'[r] = RefreshInterval /\ ~due'[r]
      BY <1>1, UnitDoes
    <3>. QED
      BY <2>5, <3>1, <3>2, <3>3 DEF Fits, InPass
  <2>. QED
    BY <2>2, <2>6, <2>7
<1>3. ASSUME NEW w \in Workspaces
      PROVE  /\ leases'[w] \in [by : Replicas \cup {"nobody", "lost"}, left : 0 .. LeaseFor]
             /\ ages'[w] \in 0 .. Oldest + 1 /\ sinceTaken'[w] \in 0 .. LeaseFor
  <2>1. /\ leases[w] \in [by : Replicas \cup {"nobody", "lost"}, left : 0 .. LeaseFor]
        /\ ages[w] \in 0 .. Oldest + 1 /\ sinceTaken[w] \in 0 .. LeaseFor
    BY <1>1 DEF PassTypeOK
  <2>2. Oldest \in Nat
    BY Durations, Slots, Costs DEF Oldest
  <2>3. ages'[w] \in 0 .. Oldest + 1 /\ sinceTaken'[w] \in 0 .. LeaseFor
    BY <1>1, <2>1, <2>2, UnitDoes, Durations
  <2>4. leases'[w] = IF leases[w].left > 1 THEN [leases[w] EXCEPT !.left = @ - 1] ELSE Free
    BY DEF UnitPasses, snapshotVars
  <2>5. Free \in [by : Replicas \cup {"nobody", "lost"}, left : 0 .. LeaseFor]
    BY Durations DEF Free
  <2>6. CASE leases[w].left > 1
    <3>1. leases[w].left - 1 \in 0 .. LeaseFor
      BY <2>1, <2>6, Durations
    <3>. QED
      BY <2>1, <2>3, <2>4, <2>6, <3>1
  <2>7. CASE ~(leases[w].left > 1)
    BY <2>3, <2>4, <2>5, <2>7
  <2>. QED
    BY <2>6, <2>7
<1>4. /\ timer' \in [Replicas -> 1 .. RefreshInterval] /\ due' \in [Replicas -> BOOLEAN]
      /\ spent' \in [Replicas -> 0 .. ReadTime] /\ passed' \in [Replicas -> 0 .. PassTime]
  BY <1>2 DEF UnitPasses, snapshotVars
<1>5. /\ leases' \in [Workspaces -> [by : Replicas \cup {"nobody", "lost"}, left : 0 .. LeaseFor]]
      /\ ages' \in [Workspaces -> 0 .. Oldest + 1] /\ sinceTaken' \in [Workspaces -> 0 .. LeaseFor]
  BY <1>3 DEF UnitPasses, snapshotVars
<1>6. PassTypeOK'
  BY <1>1, <1>4, <1>5, UnitDoes DEF PassTypeOK
<1>. QED
  BY <1>2, <1>6 DEF ScheduleFits

\* The types hold at first.
LEMMA ScheduleFitsInit == ScheduleInit => ScheduleFits
<1>. SUFFICES ASSUME ScheduleInit PROVE ScheduleFits
  OBVIOUS
<1>1. 1 \in Workspaces /\ 0 \in 0 .. ReadTime /\ 0 \in 0 .. PassTime /\ 0 \in 0 .. Oldest + 1
      /\ 0 \in 0 .. MaxSlips /\ LeaseFor \in 0 .. LeaseFor
  BY Durations, Slots, Costs DEF Workspaces, Oldest
<1>2. Free \in [by : Replicas \cup {"nobody", "lost"}, left : 0 .. LeaseFor]
  BY Durations DEF Free
<1>3. PassTypeOK
  BY <1>1, <1>2 DEF ScheduleInit, PassTypeOK
<1>4. ASSUME NEW r \in Replicas PROVE Fits(r)
  BY Slots DEF ScheduleInit, Fits, InPass
<1>. QED
  BY <1>3, <1>4 DEF ScheduleFits

\* Nothing changes.
LEMMA ScheduleStutter == ASSUME UNCHANGED scheduleVars, ScheduleFits PROVE ScheduleFits'
BY DEF scheduleVars, ScheduleFits, PassTypeOK, Fits, InPass

\* An operator's refresh.
LEMMA DemandedType ==
  ASSUME ScheduleFits, NEW w \in Workspaces, Demanded(w)
  PROVE  ScheduleFits'
<1>1. 0 \in 0 .. Oldest + 1
  BY Durations, Slots, Costs DEF Oldest
<1>2. ages' \in [Workspaces -> 0 .. Oldest + 1]
  BY <1>1 DEF ScheduleFits, PassTypeOK, Demanded, snapshotVars, Stored
<1>. QED
  BY <1>2 DEF ScheduleFits, PassTypeOK, Demanded, Fits, InPass, snapshotVars, Stored

\* A lookup.
LEMMA LookupType ==
  ASSUME ScheduleFits, NEW w \in Workspaces, Lookup(w) \/ LookupDone(w)
  PROVE  ScheduleFits'
BY DEF ScheduleFits, PassTypeOK, Lookup, LookupDone, Fits, InPass

\* Every step keeps the types.
LEMMA ScheduleFitsStep == ScheduleFits /\ [ScheduleNext]_scheduleVars => ScheduleFits'
<1>. SUFFICES ASSUME ScheduleFits, [ScheduleNext]_scheduleVars PROVE ScheduleFits'
  OBVIOUS
<1>1. CASE UNCHANGED scheduleVars
  BY <1>1, ScheduleStutter
<1>2. CASE UnitPasses
  BY <1>2, UnitType
<1>3. ASSUME NEW w \in Workspaces, Demanded(w) PROVE ScheduleFits'
  BY <1>3, DemandedType
<1>5. ASSUME NEW w \in Workspaces, Lookup(w) \/ LookupDone(w) PROVE ScheduleFits'
  BY <1>5, LookupType
<1>4. ASSUME NEW r \in Replicas, Start(r) \/ Stop(r) \/ ListFails(r) \/ ReadFails(r) \/ Step(r)
      PROVE  ScheduleFits'
  BY <1>4, RunType, PastType, OpenReadType DEF Step
<1>. QED
  BY <1>1, <1>2, <1>3, <1>4, <1>5 DEF ScheduleNext

\* No snapshot, stored or in a lookup's hand, is younger than the last full read.
DatedAs(w, n) == n = Ancient \/ ages[w] <= n
Dated ==
  /\ SnapshotTypeOK
  /\ \A w \in Workspaces : DatedAs(w, old[w]) /\ \A h \in hands[w] : DatedAs(w, h)

\* The snapshots are dated at first.
LEMMA DatedInit == ScheduleInit => Dated
<1>1. 0 \in 0 .. Ancient
  BY Durations, Slots DEF Ancient
<1>. QED
  BY <1>1 DEF ScheduleInit, Dated, DatedAs, SnapshotTypeOK

\* Reads make them younger, lookups write back what is older, and time is the same for all.
LEMMA DatedStep ==
  ASSUME ScheduleFits, Dated, [ScheduleNext]_scheduleVars
  PROVE  Dated'
<1>0. /\ Ancient \in Nat /\ ages \in [Workspaces -> 0 .. Oldest + 1] /\ Oldest \in Nat
      /\ old \in [Workspaces -> 0 .. Ancient] /\ hands \in [Workspaces -> SUBSET (0 .. Ancient)]
  BY Durations, Slots, Costs DEF Ancient, Oldest, ScheduleFits, PassTypeOK, Dated, SnapshotTypeOK
<1>1. CASE UNCHANGED snapshotVars
  BY <1>1 DEF snapshotVars, Dated, DatedAs, SnapshotTypeOK
<1>2. ASSUME NEW w \in Workspaces, Stored(w) PROVE Dated'
  <2>1. SnapshotTypeOK'
    BY <1>0, <1>2 DEF Stored, SnapshotTypeOK
  <2>2. ASSUME NEW u \in Workspaces, NEW n \in 0 .. Ancient, DatedAs(u, n) PROVE DatedAs(u, n)'
    BY <1>0, <1>2, <2>2 DEF Stored, DatedAs
  <2>3. ASSUME NEW u \in Workspaces PROVE DatedAs(u, old[u])'
    BY <1>0, <1>2 DEF Stored, DatedAs, Dated
  <2>4. ASSUME NEW u \in Workspaces, NEW h \in hands'[u] PROVE DatedAs(u, h)'
    BY <1>0, <1>2, <2>2 DEF Stored, Dated
  <2>. QED
    BY <2>1, <2>3, <2>4 DEF Dated
<1>3. ASSUME NEW w \in Workspaces, Lookup(w) PROVE Dated'
  BY <1>0, <1>3 DEF Lookup, Dated, DatedAs, SnapshotTypeOK
<1>4. ASSUME NEW w \in Workspaces, LookupDone(w) PROVE Dated'
  <2>1. PICK h \in hands[w] : /\ old' \in {old, [old EXCEPT ![w] = h]}
                             /\ hands' \in {hands, [hands EXCEPT ![w] = @ \ {h}]}
    BY <1>4 DEF LookupDone
  <2>2. ages' = ages /\ h \in 0 .. Ancient
    BY <1>0, <1>4, <2>1 DEF LookupDone
  <2>3. SnapshotTypeOK'
    BY <1>0, <2>1, <2>2 DEF SnapshotTypeOK
  <2>4. ASSUME NEW u \in Workspaces PROVE DatedAs(u, old[u])'
    BY <1>0, <2>1, <2>2 DEF Dated, DatedAs
  <2>5. ASSUME NEW u \in Workspaces, NEW g \in hands'[u] PROVE DatedAs(u, g)'
    BY <1>0, <2>1, <2>2 DEF Dated, DatedAs
  <2>. QED
    BY <2>3, <2>4, <2>5 DEF Dated
<1>5. CASE UnitPasses
  <2>1. ASSUME NEW n \in 0 .. Ancient PROVE Aged(n) \in 0 .. Ancient
    BY <1>0 DEF Aged
  <2>2. ASSUME NEW u \in Workspaces, NEW n \in 0 .. Ancient, DatedAs(u, n)
        PROVE  Aged(n) = Ancient \/ ages'[u] <= Aged(n)
    <3>1. ages'[u] <= ages[u] + 1 /\ ages[u] \in Nat
      BY <1>0, <1>5 DEF UnitPasses
    <3>2. ages'[u] \in Nat
      BY <1>0, <1>5 DEF UnitPasses
    <3>. QED
      BY <1>0, <2>2, <3>1, <3>2 DEF DatedAs, Aged
  <2>3. /\ \A u \in Workspaces : old'[u] = Aged(old[u]) /\ hands'[u] = {Aged(h) : h \in hands[u]}
        /\ old' = [u \in Workspaces |-> Aged(old[u])]
        /\ hands' = [u \in Workspaces |-> {Aged(h) : h \in hands[u]}]
    BY <1>5 DEF UnitPasses
  <2>4. SnapshotTypeOK'
    <3>1. old' \in [Workspaces -> 0 .. Ancient]
      BY <1>0, <2>1, <2>3
    <3>2. ASSUME NEW u \in Workspaces PROVE {Aged(h) : h \in hands[u]} \in SUBSET (0 .. Ancient)
      BY <1>0, <2>1
    <3>3. hands' \in [Workspaces -> SUBSET (0 .. Ancient)]
      BY <2>3, <3>2
    <3>4. Ancient' = Ancient
      BY DEF Ancient, PassTime
    <3>. QED
      BY <3>1, <3>3, <3>4 DEF SnapshotTypeOK
  <2>5. ASSUME NEW u \in Workspaces PROVE DatedAs(u, old[u])'
    BY <1>0, <2>2, <2>3 DEF Dated, DatedAs
  <2>6. ASSUME NEW u \in Workspaces, NEW g \in hands'[u] PROVE DatedAs(u, g)'
    <3>1. PICK h \in hands[u] : g = Aged(h)
      BY <2>3
    <3>2. h \in 0 .. Ancient /\ DatedAs(u, h)
      BY <1>0 DEF Dated
    <3>. QED
      BY <2>2, <3>1, <3>2 DEF DatedAs
  <2>. QED
    BY <2>4, <2>5, <2>6 DEF Dated
<1>6. ASSUME NEW r \in Replicas, Start(r) \/ Stop(r) \/ ListFails(r) \/ ReadFails(r) \/ Step(r)
      PROVE  UNCHANGED snapshotVars \/ Stored(turn[r])
  BY <1>6 DEF Start, Stop, ListFails, ReadFails, Step, Received, NotDue, Refused, Taken, LockFails, ReadDone
<1>7. ASSUME NEW r \in Replicas PROVE turn[r] \in Workspaces
  BY DEF ScheduleFits, PassTypeOK
<1>8. CASE UNCHANGED scheduleVars
  BY <1>1, <1>8 DEF scheduleVars, snapshotVars
<1>9. ASSUME NEW w \in Workspaces, Demanded(w) PROVE Stored(w)
  BY <1>9 DEF Demanded
<1>. QED
  BY <1>1, <1>2, <1>3, <1>4, <1>5, <1>6, <1>7, <1>8, <1>9 DEF ScheduleNext

\* Every variable of the schedule holds a value of its type.
THEOREM ScheduleTypeCorrect == ScheduleSpec => []ScheduleTypeOK
<1>1. ScheduleFits /\ Dated => ScheduleTypeOK
  BY DEF ScheduleFits, Dated, ScheduleTypeOK
<1>. QED
  BY <1>1, ScheduleFitsInit, ScheduleFitsStep, DatedInit, DatedStep, PTL DEF ScheduleSpec

-----------------------------------------------------------------------------
(* One read in a lease's time.                                             *)

\* Taking the lease sets both, handing it back sets one, and time moves them apart.
LEMMA SpacedStep ==
  ASSUME ScheduleFits, ScheduleFits', Spaced, [ScheduleNext]_scheduleVars
  PROVE  Spaced'
<1>1. SUFFICES ASSUME NEW w \in Workspaces PROVE sinceTaken'[w] + leases'[w].left >= LeaseFor
  BY DEF Spaced
<1>2. /\ PassTypeOK /\ sinceTaken[w] + leases[w].left >= LeaseFor
      /\ sinceTaken[w] \in 0 .. LeaseFor /\ leases[w].left \in 0 .. LeaseFor
      /\ sinceTaken'[w] \in 0 .. LeaseFor /\ leases'[w].left \in 0 .. LeaseFor
  BY DEF ScheduleFits, PassTypeOK, Spaced
<1>3. CASE leases'[w] = leases[w] /\ sinceTaken'[w] = sinceTaken[w]
  BY <1>2, <1>3
<1>4. CASE leases'[w].left = LeaseFor \/ sinceTaken'[w] = LeaseFor
  BY <1>2, <1>4, Durations
<1>5. CASE UnitPasses
  <2>1. /\ sinceTaken'[w] = IF sinceTaken[w] = LeaseFor THEN LeaseFor ELSE sinceTaken[w] + 1
        /\ leases[w].left > 1 => leases'[w].left = leases[w].left - 1
        /\ leases[w].left <= 1 => leases'[w].left = 0
    BY <1>2, <1>5, UnitDoes DEF Free
  <2>. QED
    BY <1>2, <2>1, Durations
<1>6. ASSUME NEW r \in Replicas, Start(r) \/ Stop(r) \/ ListFails(r) \/ ReadFails(r) \/ Step(r)
      PROVE  \/ leases'[w] = leases[w] /\ sinceTaken'[w] = sinceTaken[w]
             \/ leases'[w].left = LeaseFor \/ sinceTaken'[w] = LeaseFor
  <2>1. CASE Start(r) \/ Stop(r) \/ ListFails(r) \/ Received(r) \/ NotDue(r) \/ Refused(r) \/ ReadDone(r)
    BY <2>1 DEF Start, Stop, ListFails, Received, NotDue, Refused, ReadDone, snapshotVars, Stored
  <2>2. CASE ReadFails(r)
    BY <1>2, <2>2, ReadFailsDoes
  <2>3. CASE Taken(r)
    <3>0. leases'[turn[r]] = [by |-> r, left |-> LeaseFor]
      BY <1>2, <2>3, TakenDoes
    <3>1. leases'[turn[r]].left = LeaseFor
      BY <3>0
    <3>2. w # turn[r] => leases'[w] = leases[w] /\ sinceTaken'[w] = sinceTaken[w]
      BY <1>2, <2>3, TakenDoes DEF Opens
    <3>. QED
      BY <3>1, <3>2
  <2>4. CASE LockFails(r)
    BY <1>2, <2>4, LockFailsDoes DEF Opens
  <2>. QED
    BY <1>6, <2>1, <2>2, <2>3, <2>4 DEF Step
<1>7. CASE (\E u \in Workspaces : Demanded(u) \/ Lookup(u) \/ LookupDone(u)) \/ UNCHANGED scheduleVars
  BY <1>3, <1>7 DEF Demanded, Lookup, LookupDone, scheduleVars, snapshotVars, Stored
<1>. QED
  BY <1>3, <1>4, <1>5, <1>6, <1>7 DEF ScheduleNext

\* However many replicas tick, no two read a workspace under the lease within its time,
\* unless the read between failed and handed it back (refreshOne).
THEOREM ReadsAreSpaced == ScheduleSpec => ReadsSpaced
<1>1. ScheduleInit => Spaced
  <2>1. ASSUME ScheduleInit, NEW w \in Workspaces PROVE sinceTaken[w] + leases[w].left >= LeaseFor
    BY <2>1, Durations DEF ScheduleInit, Free
  <2>. QED
    BY <2>1 DEF Spaced
<1>2. ScheduleFits /\ Spaced /\ [ScheduleNext]_scheduleVars => (ScheduleFits /\ Spaced)'
  BY ScheduleFitsStep, SpacedStep
<1>3. ScheduleFits /\ Spaced /\ [ScheduleNext]_scheduleVars =>
        [\A r \in Replicas :
           stage[r] # "read" /\ stage'[r] = "read" /\ mine'[r] => sinceTaken[turn[r]] = LeaseFor]_scheduleVars
  <2>. SUFFICES ASSUME ScheduleFits, Spaced, ScheduleNext, NEW r \in Replicas,
                       stage[r] # "read", stage'[r] = "read", mine'[r]
                PROVE  sinceTaken[turn[r]] = LeaseFor
    OBVIOUS
  <2>1. PassTypeOK /\ turn[r] \in Workspaces
    BY DEF ScheduleFits, PassTypeOK
  <2>2. Taken(r)
    <3>1. ~UnitPasses /\ ~(\E w \in Workspaces : Demanded(w) \/ Lookup(w) \/ LookupDone(w))
      BY DEF UnitPasses, Demanded, Lookup, LookupDone, snapshotVars, Stored
    <3>2. PICK q \in Replicas : Start(q) \/ Stop(q) \/ ListFails(q) \/ ReadFails(q) \/ Step(q)
      BY <3>1 DEF ScheduleNext
    <3>3. Only(q)
      BY <2>1, <3>2, StartDoes, StopDoes, ListFailsDoes, ReadFailsDoes, ReceivedDoes, NotDueDoes,
         RefusedDoes, TakenDoes, LockFailsDoes, ReadDoneDoes DEF Step, Past, Opens
    <3>4. q = r
      BY <3>3 DEF Only
    <3>5. ~Start(r) /\ ~Stop(r) /\ ~ListFails(r) /\ ~Received(r)
      BY <2>1, StartDoes, StopDoes, ListFailsDoes, ReceivedDoes
    <3>6. ~ReadFails(r) /\ ~NotDue(r) /\ ~Refused(r) /\ ~ReadDone(r)
      BY <2>1, ReadFailsDoes, NotDueDoes, RefusedDoes, ReadDoneDoes DEF Past
    <3>7. ~LockFails(r)
      BY <2>1, LockFailsDoes
    <3>. QED
      BY <3>2, <3>4, <3>5, <3>6, <3>7 DEF Step
  <2>3. leases[turn[r]].left = 0
    BY <2>1, <2>2, TakenDoes
  <2>4. sinceTaken[turn[r]] \in 0 .. LeaseFor /\ sinceTaken[turn[r]] + leases[turn[r]].left >= LeaseFor
    BY <2>1 DEF PassTypeOK, Spaced
  <2>. QED
    BY <2>3, <2>4, Durations
<1>. QED
  BY <1>1, <1>2, <1>3, ScheduleFitsInit, PTL DEF ScheduleSpec, ReadsSpaced

-----------------------------------------------------------------------------
(* How old a snapshot gets.                                                *)

Elapsed(r) == RefreshInterval - timer[r]

\* A replica between its steps, when no pass outlasts an interval.
Places(r) ==
  /\ InPass(r) => /\ ~due[r] /\ spent[r] <= Elapsed(r) /\ Elapsed(r) <= Slot(turn[r]) + spent[r]
                  /\ starting[r] => passed[r] = Elapsed(r)
  /\ stage[r] = "wait" /\ due[r] => timer[r] = RefreshInterval

\* A read under the lease holds it.
Holds(r) ==
  mine[r] => leases[turn[r]].by = r /\ leases[turn[r]].left = LeaseFor - spent[r]

Placed == ScheduleFits /\ \A r \in Replicas : Places(r) /\ Holds(r)

\* Reads that are as quick as ReadsQuick says.
LEMMA Quick ==
  ASSUME ReadsQuick
  PROVE  Early <= RefreshInterval - LeaseFor /\ Early + ReadTime < LeaseFor
BY Slots DEF ReadsQuick, Early, Slot

\* The values of a replica, by themselves.
LEMMA ReplicaValues ==
  ASSUME PassTypeOK, NEW r \in Replicas
  PROVE  /\ stage[r] \in {"down", "wait", "pass", "read"} /\ turn[r] \in Workspaces
         /\ starting[r] \in BOOLEAN /\ due[r] \in BOOLEAN /\ mine[r] \in BOOLEAN
         /\ timer[r] \in 1 .. RefreshInterval /\ spent[r] \in 0 .. ReadTime /\ passed[r] \in 0 .. PassTime
BY DEF PassTypeOK

\* The values of a workspace, by themselves.
LEMMA WorkspaceValues ==
  ASSUME PassTypeOK, NEW w \in Workspaces
  PROVE  /\ leases[w].left \in 0 .. LeaseFor /\ ages[w] \in 0 .. Oldest + 1
         /\ slips[w] \in 0 .. MaxSlips /\ stopped[w] \in BOOLEAN
BY DEF PassTypeOK

\* Going on leaves a replica well placed.
LEMMA PastPlaces ==
  ASSUME Placed, NEW r \in Replicas, Past(r), InPass(r)
  PROVE  Places(r)' /\ Holds(r)'
<1>1. /\ turn[r] \in Workspaces /\ timer[r] \in 1 .. RefreshInterval /\ spent[r] \in 0 .. ReadTime
      /\ Elapsed(r) <= Slot(turn[r]) + spent[r] /\ (starting[r] => passed[r] = Elapsed(r)) /\ ~due[r]
  BY ReplicaValues DEF Placed, ScheduleFits, Places
<1>2. Elapsed(r) <= Slot(turn[r] + 1) /\ 0 <= Elapsed(r)
  BY <1>1, Slots, Durations DEF Elapsed
<1>3. Elapsed(r)' = Elapsed(r) /\ ~mine'[r] /\ ~due'[r] /\ spent'[r] = 0
  BY <1>1 DEF Past, Elapsed
<1>4. CASE turn[r] = N
  BY <1>3, <1>4 DEF Past, Places, Holds, InPass
<1>5. CASE turn[r] # N
  <2>1. Slot(turn[r] + 1) \in Nat
    BY <1>1, <1>5, Durations, Slots DEF Workspaces
  <2>2. turn'[r] = turn[r] + 1 /\ stage'[r] = "pass" /\ starting'[r] = starting[r] /\ passed'[r] = passed[r]
    BY <1>5 DEF Past
  <2>. QED
    BY <1>1, <1>2, <1>3, <2>1, <2>2 DEF Places, Holds
<1>. QED
  BY <1>4, <1>5

\* The others stay well placed while nobody touches the leases they hold.
LEMMA OnlyPlaces ==
  ASSUME Placed, NEW r \in Replicas, Only(r), Places(r)' /\ Holds(r)',
         \A q \in Replicas : q # r /\ mine[q] => leases'[turn[q]] = leases[turn[q]]
  PROVE  \A q \in Replicas : (Places(q) /\ Holds(q))'
<1>1. ASSUME NEW q \in Replicas, q # r PROVE Places(q)' /\ Holds(q)'
  <2>1. Places(q)'
    BY <1>1 DEF Placed, Places, Only, InPass, Elapsed
  <2>2. Holds(q)'
    BY <1>1 DEF Placed, Holds, Only
  <2>. QED
    BY <2>1, <2>2
<1>. QED
  BY <1>1

\* Who reads under the lease finds it held.
LEMMA HeldLeft ==
  ASSUME ReadsQuick, Placed, NEW q \in Replicas, mine[q]
  PROVE  leases[turn[q]].by = q /\ leases[turn[q]].left > 0 /\ turn[q] \in Workspaces
<1>1. spent[q] \in 0 .. ReadTime /\ turn[q] \in Workspaces
  BY ReplicaValues DEF Placed, ScheduleFits
<1>2. leases[turn[q]].by = q /\ leases[turn[q]].left = LeaseFor - spent[q]
  BY DEF Placed, Holds
<1>. QED
  BY <1>1, <1>2, Quick, Durations, Slots

\* The steps of a replica.
LEMMA PlacedActs ==
  ASSUME ReadsQuick, Placed, NEW r \in Replicas,
         Start(r) \/ Stop(r) \/ ListFails(r) \/ ReadFails(r) \/ Step(r)
  PROVE  \A q \in Replicas : (Places(q) /\ Holds(q))'
<1>0. PassTypeOK /\ Fits(r) /\ Places(r) /\ Slot(1) = 0
  BY Slots DEF Placed, ScheduleFits
<1>1. CASE Start(r)
  <2>1. Only(r) /\ leases' = leases
    BY <1>0, <1>1, StartDoes
  <2>2. ~mine[r] /\ timer[r] = RefreshInterval /\ ~due[r] /\ spent[r] = 0 /\ passed[r] = 0
    BY <1>0, <1>1, StartDoes DEF Fits, InPass
  <2>3. stage'[r] = "pass" /\ turn'[r] = 1 /\ UNCHANGED <<timer, due, spent, passed, mine>>
    BY <1>0, <1>1, StartDoes
  <2>4. Elapsed(r)' = 0
    BY <2>2, <2>3, Durations DEF Elapsed
  <2>5. Places(r)' /\ Holds(r)'
    BY <1>0, <2>2, <2>3, <2>4 DEF Places, Holds
  <2>. QED
    BY <2>1, <2>5, OnlyPlaces
<1>2. CASE Stop(r)
  <2>1. Only(r) /\ leases' = leases /\ stage'[r] = "down" /\ ~mine'[r]
    BY <1>0, <1>2, StopDoes
  <2>2. Places(r)' /\ Holds(r)'
    BY <2>1 DEF Places, Holds, InPass
  <2>. QED
    BY <2>1, <2>2, OnlyPlaces
<1>3. CASE ListFails(r)
  <2>1. Only(r) /\ stage[r] = "pass" /\ stage'[r] = "wait" /\ UNCHANGED <<leases, due, mine>>
    BY <1>0, <1>3, ListFailsDoes
  <2>2. ~due[r] /\ ~mine[r]
    BY <1>0, <2>1 DEF Places, Fits, InPass
  <2>3. Places(r)' /\ Holds(r)'
    BY <2>1, <2>2 DEF Places, Holds, InPass
  <2>. QED
    BY <2>1, <2>3, OnlyPlaces
<1>4. CASE Received(r)
  <2>1. Only(r) /\ leases' = leases /\ stage[r] = "wait" /\ due[r] /\ ~due'[r] /\ stage'[r] = "pass"
        /\ turn'[r] = 1 /\ ~starting'[r] /\ UNCHANGED <<timer, spent, mine>>
    BY <1>0, <1>4, ReceivedDoes
  <2>2. ~mine[r] /\ spent[r] = 0 /\ timer[r] = RefreshInterval
    BY <1>0, <2>1 DEF Places, Fits, InPass
  <2>3. Elapsed(r)' = 0
    BY <2>1, <2>2, Durations DEF Elapsed
  <2>4. Places(r)' /\ Holds(r)'
    BY <1>0, <2>1, <2>2, <2>3 DEF Places, Holds
  <2>. QED
    BY <2>1, <2>4, OnlyPlaces
<1>5. CASE NotDue(r) \/ Refused(r) \/ ReadDone(r)
  <2>1. Past(r) /\ InPass(r) /\ leases' = leases
    BY <1>0, <1>5, NotDueDoes, RefusedDoes, ReadDoneDoes DEF InPass
  <2>. QED
    BY <2>1, PastPlaces, OnlyPlaces DEF Past
<1>6. CASE ReadFails(r)
  <2>1. Past(r) /\ InPass(r)
    BY <1>0, <1>6, ReadFailsDoes DEF InPass
  <2>2. ASSUME NEW q \in Replicas, q # r, mine[q] PROVE leases'[turn[q]] = leases[turn[q]]
    BY <1>0, <1>6, <2>2, HeldLeft, ReadFailsDoes
  <2>. QED
    BY <2>1, <2>2, PastPlaces, OnlyPlaces DEF Past
<1>7. CASE Taken(r) \/ LockFails(r)
  <2>1. Opens(r)
    BY <1>0, <1>7, TakenDoes, LockFailsDoes
  <2>2. ASSUME NEW q \in Replicas, mine[q] PROVE leases'[turn[q]] = leases[turn[q]]
    <3>1. turn[q] \in Workspaces /\ leases[turn[q]].left > 0
      BY <2>2, HeldLeft
    <3>2. leases[turn[r]].left = 0 \/ leases' = leases
      BY <1>0, <1>7, TakenDoes, LockFailsDoes
    <3>. QED
      BY <2>1, <3>1, <3>2, Durations DEF Opens
  <2>3. Places(r)'
    BY <1>0, <2>1 DEF Opens, Places, InPass, Elapsed
  <2>4. Holds(r)'
    <3>1. CASE Taken(r)
      <4>1. leases'[turn[r]] = [by |-> r, left |-> LeaseFor] /\ turn' = turn /\ spent' = spent
        BY <1>0, <3>1, TakenDoes DEF Opens
      <4>2. spent[r] = 0
        BY <1>0, <2>1 DEF Opens, Fits
      <4>3. leases'[turn[r]].by = r /\ leases'[turn[r]].left = LeaseFor
        BY <4>1
      <4>. QED
        BY <4>1, <4>2, <4>3, Durations DEF Holds
    <3>2. CASE LockFails(r)
      BY <1>0, <3>2, LockFailsDoes DEF Holds
    <3>. QED
      BY <1>7, <3>1, <3>2
  <2>. QED
    BY <2>1, <2>2, <2>3, <2>4, OnlyPlaces DEF Opens
<1>. QED
  BY <1>1, <1>2, <1>3, <1>4, <1>5, <1>6, <1>7 DEF Step

\* A unit of time, of which no pass lasts an interval.
LEMMA PlacedUnit ==
  ASSUME ReadsQuick, Placed, UnitPasses, NEW r \in Replicas
  PROVE  /\ Places(r)' /\ Holds(r)'
         /\ InPass(r) => timer'[r] = timer[r] - 1 /\ ~due'[r] /\ stage[r] = "read"
<1>0. /\ PassTypeOK /\ Fits(r) /\ Places(r) /\ Holds(r)
      /\ turn[r] \in Workspaces /\ timer[r] \in 1 .. RefreshInterval /\ spent[r] \in 0 .. ReadTime
      /\ passed[r] \in 0 .. PassTime /\ starting[r] \in BOOLEAN /\ Slot(turn[r]) \in Nat /\ Slot(turn[r]) <= Early
  BY ReplicaValues, Slots DEF Placed, ScheduleFits
<1>1. /\ stage'[r] = stage[r] /\ turn'[r] = turn[r] /\ starting'[r] = starting[r] /\ mine'[r] = mine[r]
      /\ stage[r] # "pass" /\ ~(stage[r] = "wait" /\ due[r])
      /\ stage[r] = "read" => spent[r] < ReadTime /\ spent'[r] = spent[r] + 1
      /\ timer'[r] = IF stage[r] = "down" \/ timer[r] = 1 THEN RefreshInterval ELSE timer[r] - 1
      /\ due'[r] = (stage[r] # "down" /\ (due[r] \/ timer[r] = 1))
      /\ passed'[r] = IF stage[r] = "read" /\ starting[r] THEN passed[r] + 1 ELSE passed[r]
  BY <1>0, UnitDoes
<1>2. CASE InPass(r)
  <2>1. stage[r] = "read" /\ ~due[r]
    BY <1>0, <1>1, <1>2 DEF InPass, Places
  <2>2. spent[r] <= Elapsed(r) /\ Elapsed(r) <= Slot(turn[r]) + spent[r] /\ (starting[r] => passed[r] = Elapsed(r))
    BY <1>0, <1>2 DEF Places
  <2>3. spent[r] < ReadTime /\ spent'[r] = spent[r] + 1
    BY <1>1, <2>1
  <2>4. timer[r] > 1
    BY <1>0, <2>2, <2>3, Quick, Durations, Slots DEF Elapsed
  <2>5. timer'[r] = timer[r] - 1 /\ ~due'[r]
    <3>1. timer'[r] = timer[r] - 1 /\ timer[r] # 1
      BY <1>0, <1>1, <2>1, <2>4
    <3>2. ~due'[r]
      BY <1>1, <2>1, <3>1
    <3>. QED
      BY <3>1, <3>2
  <2>6. Elapsed(r)' = Elapsed(r) + 1 /\ Elapsed(r) \in Int
    BY <1>0, <2>5, Durations DEF Elapsed
  <2>7. starting[r] => passed'[r] = passed[r] + 1
    BY <1>1, <2>1
  <2>8. spent'[r] <= Elapsed(r)' /\ Elapsed(r)' <= Slot(turn[r]) + spent'[r]
    BY <1>0, <2>2, <2>3, <2>6
  <2>9. starting[r] => passed'[r] = Elapsed(r)'
    BY <1>0, <2>2, <2>6, <2>7
  <2>10. Places(r)'
    BY <1>1, <2>1, <2>5, <2>8, <2>9 DEF Places
  <2>11. Holds(r)'
    <3>1. SUFFICES ASSUME mine[r] PROVE leases'[turn[r]].by = r /\ leases'[turn[r]].left = LeaseFor - spent'[r]
      BY <1>1 DEF Holds
    <3>2. leases[turn[r]].by = r /\ leases[turn[r]].left = LeaseFor - spent[r]
      BY <1>0, <3>1 DEF Holds
    <3>3. leases[turn[r]].left > 1
      BY <1>0, <2>3, <3>2, Quick, Durations, Slots
    <3>4. leases'[turn[r]].left = leases[turn[r]].left - 1 /\ leases'[turn[r]].by = leases[turn[r]].by
      BY <1>0, <3>3, UnitDoes
    <3>. QED
      BY <1>0, <2>3, <3>2, <3>4, Durations
  <2>. QED
    BY <2>1, <2>5, <2>10, <2>11
<1>3. CASE ~InPass(r)
  <2>1. ~mine[r] /\ ~mine'[r]
    BY <1>0, <1>1, <1>3 DEF Fits, InPass
  <2>2. stage[r] = "wait" /\ due'[r] => timer'[r] = RefreshInterval
    BY <1>1
  <2>3. ~InPass(r)'
    BY <1>1, <1>3 DEF InPass
  <2>. QED
    BY <1>1, <1>3, <2>1, <2>2, <2>3 DEF Places, Holds
<1>. QED
  BY <1>2, <1>3

\* Every step leaves the replicas well placed.
LEMMA PlacedStep ==
  ASSUME ReadsQuick, Placed, [ScheduleNext]_scheduleVars
  PROVE  Placed'
<1>1. ScheduleFits'
  BY ScheduleFitsStep DEF Placed
<1>2. \A q \in Replicas : (Places(q) /\ Holds(q))'
  <2>1. CASE UNCHANGED scheduleVars
    BY <2>1 DEF scheduleVars, Placed, Places, Holds, InPass, Elapsed
  <2>2. CASE UnitPasses
    BY <2>2, PlacedUnit
  <2>3. CASE \E w \in Workspaces : Demanded(w) \/ Lookup(w) \/ LookupDone(w)
    BY <2>3 DEF Demanded, Lookup, LookupDone, Placed, Places, Holds, InPass, Elapsed, snapshotVars, Stored
  <2>4. ASSUME NEW r \in Replicas, Start(r) \/ Stop(r) \/ ListFails(r) \/ ReadFails(r) \/ Step(r)
        PROVE  \A q \in Replicas : (Places(q) /\ Holds(q))'
    BY <2>4, PlacedActs
  <2>. QED
    BY <2>1, <2>2, <2>3, <2>4 DEF ScheduleNext
<1>. QED
  BY <1>1, <1>2 DEF Placed

\* A replica's pass has yet to come to the workspace, or to leave it.
Ahead(r, w) == InPass(r) /\ turn[r] <= w

\* How long until its pass next begins that comes to the workspace, or since it has.
To(r, w) ==
  IF Ahead(r, w) THEN timer[r] - RefreshInterval ELSE IF due[r] THEN 0 ELSE timer[r]

Reads(r, w) == stage[r] = "read" /\ turn[r] = w

\* A full read was due when its process started.
Overdue(r, w) == ages[w] - passed[r] >= RefreshInterval

\* Its pass will not leave the workspace alone.
Keen(r, w) == Ahead(r, w) /\ ~Reads(r, w) /\ (starting[r] => Overdue(r, w))

\* It runs, and its pass does not depend on the snapshot's age.
Steady(r, w) == stage[r] # "down" /\ ~(starting[r] /\ turn[r] <= w)

\* When the pass begins, or the read did, the snapshot is no older than an interval,
\* what slipped and a allow.
Waits(r, w, a) == ages[w] + To(r, w) <= RefreshInterval + a + Cost(slips[w])
ReadsIn(r, w, a) ==
  Reads(r, w) /\ ages[w] - spent[r] <= RefreshInterval + Early + a + Cost(slips[w])

\* A replica that is about to read, or does.
Engaged(r, w) ==
  \/ ReadsIn(r, w, RefreshInterval - 1)
  \/ Keen(r, w) /\ Waits(r, w, RefreshInterval - 1)

\* Every replica comes in time, or one is there.
Attended(w) ==
  \/ \E q \in Replicas : Engaged(q, w)
  \/ \A r \in Replicas : stage[r] # "down" => Waits(r, w, RefreshInterval - 1)

\* So it is if all of them stop and one starts again.
Settled(w) ==
  \/ \E q \in Replicas : Engaged(q, w)
  \/ ages[w] <= RefreshInterval + (RefreshInterval - 1) + Cost(slips[w])

\* As long as none has stopped, one of them comes an interval after the last read.
OnSchedule(r, w) == (Steady(r, w) /\ Waits(r, w, 0)) \/ ReadsIn(r, w, 0)
Tight(w) == ~stopped[w] => \E r \in Replicas : OnSchedule(r, w)

\* A lease that is taken: its read is under way,
LeaseRead(q, w) == Reads(q, w) /\ spent[q] <= LeaseFor - leases[w].left

\* or was done, and whoever made it comes again when the lease has expired,
LeaseOutlived(q, w) == Steady(q, w) /\ To(q, w) >= leases[w].left /\ Waits(q, w, 0)
LeaseDone(w) ==
  /\ ages[w] <= LeaseFor - leases[w].left
  /\ ~stopped[w] => \E q \in Replicas : LeaseOutlived(q, w)

\* or failed, and the slip pays for what the lease keeps others from,
Allowed(w) == IF stopped[w] THEN RefreshInterval - 1 ELSE 0
LeaseLost(w) ==
  /\ slips[w] >= 1
  /\ ages[w] <= LeaseFor - leases[w].left + RefreshInterval + Early + Allowed(w)
                + Cost(slips[w]) - SlipCost

\* or another reads without it.
LeaseBypassed(q, w) ==
  /\ slips[w] >= 1 /\ Reads(q, w)
  /\ ages[w] - spent[q] <= RefreshInterval + Early + Allowed(w) + Cost(slips[w]) - SlipCost

LeaseTold(w) ==
  leases[w].left > 0 =>
    \/ \E q \in Replicas : LeaseRead(q, w)
    \/ LeaseDone(w) \/ LeaseLost(w)
    \/ \E q \in Replicas : LeaseBypassed(q, w)

OnTime(w) == Attended(w) /\ Settled(w) /\ Tight(w) /\ LeaseTold(w)

-----------------------------------------------------------------------------
\* Where a replica stands towards a workspace.
LEMMA Distances ==
  ASSUME ReadsQuick, Placed, NEW r \in Replicas, NEW w \in Workspaces
  PROVE  /\ To(r, w) \in Int /\ To(r, w) <= RefreshInterval /\ spent[r] \in Nat /\ spent[r] < LeaseFor
         /\ spent[r] <= ReadTime
         /\ Ahead(r, w) => To(r, w) <= 0
         /\ stage[r] # "down" /\ ~Ahead(r, w) => To(r, w) >= 0
         /\ Ahead(r, w) /\ ~Reads(r, w) => To(r, w) >= 0 - Early
         /\ Reads(r, w) => Ahead(r, w) /\ To(r, w) <= 0 - spent[r] /\ To(r, w) >= 0 - Early - spent[r]
<1>0. /\ PassTypeOK /\ Fits(r) /\ Places(r)
      /\ turn[r] \in Workspaces /\ timer[r] \in 1 .. RefreshInterval /\ spent[r] \in 0 .. ReadTime
      /\ stage[r] \in {"down", "wait", "pass", "read"}
      /\ due[r] \in BOOLEAN /\ turn[r] \in Int /\ w \in Int /\ N \in Nat
  BY ReplicaValues, Durations DEF Placed, ScheduleFits, Workspaces
<1>1. /\ Slot(turn[r]) \in Nat /\ Slot(turn[r]) <= Early /\ Slot(w) <= Early /\ Slot(w) \in Nat
      /\ turn[r] < w => Slot(turn[r]) + ReadTime <= Slot(w)
  BY <1>0, Slots
<1>2. spent[r] \in Nat /\ spent[r] < LeaseFor /\ spent[r] <= ReadTime
  BY <1>0, Quick, Durations, Slots
<1>3. Reads(r, w) => Ahead(r, w)
  BY <1>0 DEF Reads, Ahead, InPass
<1>4. CASE Ahead(r, w)
  <2>1. To(r, w) = timer[r] - RefreshInterval
    BY <1>4 DEF To
  <2>2. spent[r] <= RefreshInterval - timer[r] /\ RefreshInterval - timer[r] <= Slot(turn[r]) + spent[r]
    BY <1>0, <1>4 DEF Ahead, Places, Elapsed
  <2>3. ~Reads(r, w) => spent[r] = 0 \/ turn[r] < w
    BY <1>0, <1>4 DEF Ahead, Reads, Fits
  <2>4. To(r, w) \in Int /\ To(r, w) <= 0 /\ To(r, w) <= RefreshInterval
    BY <1>0, <2>1, Durations
  <2>5. ~Reads(r, w) => To(r, w) >= 0 - Early
    BY <1>0, <1>1, <2>1, <2>2, <2>3, Durations, Slots
  <2>6. Reads(r, w) => To(r, w) <= 0 - spent[r] /\ To(r, w) >= 0 - Early - spent[r]
    BY <1>0, <1>1, <2>1, <2>2, Durations, Slots
  <2>. QED
    BY <1>2, <1>3, <1>4, <2>4, <2>5, <2>6
<1>5. CASE ~Ahead(r, w)
  <2>1. To(r, w) = IF due[r] THEN 0 ELSE timer[r]
    BY <1>5 DEF To
  <2>2. To(r, w) \in Int /\ To(r, w) >= 0 /\ To(r, w) <= RefreshInterval
    BY <1>0, <2>1, Durations
  <2>. QED
    BY <1>2, <1>3, <1>5, <2>2
<1>. QED
  BY <1>4, <1>5

\* The numbers of a workspace.
NumbersOf(w) ==
  /\ ages[w] \in Nat /\ slips[w] \in Nat /\ Cost(slips[w]) \in Nat
  /\ slips[w] >= 1 => Cost(slips[w]) >= SlipCost
  /\ leases[w].left \in Nat /\ leases[w].left <= LeaseFor /\ stopped[w] \in BOOLEAN
  /\ Allowed(w) \in Nat /\ Allowed(w) <= RefreshInterval - 1
  /\ ~stopped[w] => Allowed(w) = 0
  /\ stopped[w] => Allowed(w) = RefreshInterval - 1

\* They are numbers.
LEMMA WorkspaceNumbers == ScheduleFits => \A w \in Workspaces : NumbersOf(w)
<1>. SUFFICES ASSUME ScheduleFits, NEW w \in Workspaces PROVE NumbersOf(w)
  OBVIOUS
<1>1. /\ leases[w].left \in 0 .. LeaseFor /\ ages[w] \in 0 .. Oldest + 1
      /\ slips[w] \in 0 .. MaxSlips /\ stopped[w] \in BOOLEAN
  BY WorkspaceValues DEF ScheduleFits
<1>2. ages[w] \in Nat /\ slips[w] \in Nat /\ leases[w].left \in Nat /\ leases[w].left <= LeaseFor
  BY <1>1, Durations
<1>3. Cost(slips[w]) \in Nat /\ (slips[w] >= 1 => Cost(slips[w]) >= SlipCost)
  BY <1>2, Costs
<1>. QED
  BY <1>1, <1>2, <1>3, Durations DEF Allowed, NumbersOf

\* And they are after a step.
LEMMA NumbersNext == ScheduleFits' => \A w \in Workspaces : NumbersOf(w)'
<1>1. ScheduleFits' => (\A w \in Workspaces : NumbersOf(w))'
  BY WorkspaceNumbers, PTL
<1>. QED
  BY <1>1

\* A replica stands towards a workspace as before.
Keeps(q, w) ==
  /\ To(q, w)' = To(q, w) /\ (Steady(q, w) => Steady(q, w)')
  /\ Reads(q, w) => Reads(q, w)' /\ spent'[q] = spent[q]
  /\ Keen(q, w) => Keen(q, w)'

\* Nothing of the workspace changes but that, perhaps, something more went wrong.
Grows(w) ==
  /\ ages'[w] = ages[w] /\ leases'[w].left = leases[w].left
  /\ slips'[w] >= slips[w] /\ Cost(slips'[w]) >= Cost(slips[w]) /\ (stopped[w] => stopped'[w])

\* Who does not move.
LEMMA OthersKeep ==
  ASSUME NEW r \in Replicas, Only(r), NEW w \in Workspaces, ages'[w] = ages[w],
         NEW q \in Replicas, q # r
  PROVE  Keeps(q, w) /\ stage'[q] = stage[q]
<1>1. /\ stage'[q] = stage[q] /\ turn'[q] = turn[q] /\ starting'[q] = starting[q]
      /\ timer'[q] = timer[q] /\ due'[q] = due[q] /\ spent'[q] = spent[q] /\ passed'[q] = passed[q]
  BY DEF Only
<1>2. Ahead(q, w)' = Ahead(q, w) /\ Reads(q, w)' = Reads(q, w)
  BY <1>1 DEF Ahead, Reads, InPass
<1>3. To(q, w)' = To(q, w)
  BY <1>1, <1>2 DEF To
<1>4. Overdue(q, w)' = Overdue(q, w)
  BY <1>1 DEF Overdue
<1>. QED
  BY <1>1, <1>2, <1>3, <1>4 DEF Keeps, Keen, Steady

\* Who goes on from another workspace.
LEMMA PastAway ==
  ASSUME Placed, NEW r \in Replicas, Past(r), InPass(r), NEW w \in Workspaces, turn[r] # w,
         ages'[w] = ages[w]
  PROVE  Keeps(r, w)
<1>1. turn[r] \in 1 .. N /\ w \in 1 .. N /\ N \in Nat /\ starting[r] \in BOOLEAN
  BY ReplicaValues, Durations DEF Placed, ScheduleFits, Workspaces
<1>2. ~Reads(r, w) /\ ~Reads(r, w)'
  BY DEF Reads, Past
<1>3. timer'[r] = timer[r] /\ due'[r] = due[r] /\ stage'[r] # "down"
  BY DEF Past
<1>4. CASE turn[r] < w
  <2>1. turn[r] # N /\ turn[r] + 1 <= w /\ turn[r] <= w
    BY <1>1, <1>4
  <2>2. stage'[r] = "pass" /\ turn'[r] = turn[r] + 1 /\ starting'[r] = starting[r] /\ passed'[r] = passed[r]
    BY <2>1 DEF Past
  <2>3. Ahead(r, w) /\ Ahead(r, w)'
    BY <2>1, <2>2 DEF Ahead, InPass
  <2>4. Overdue(r, w)' = Overdue(r, w)
    BY <2>2 DEF Overdue
  <2>. QED
    BY <1>2, <1>3, <2>1, <2>2, <2>3, <2>4 DEF Keeps, Keen, Steady, To
<1>5. CASE ~(turn[r] < w)
  <2>1. ~(turn[r] <= w) /\ ~(turn[r] + 1 <= w)
    BY <1>1, <1>5
  <2>2. ~Ahead(r, w) /\ ~Ahead(r, w)'
    BY <2>1 DEF Ahead, InPass, Past
  <2>3. Steady(r, w)'
    BY <1>3, <2>1 DEF Steady, Past
  <2>. QED
    BY <1>2, <1>3, <2>2, <2>3 DEF Keeps, Keen, To
<1>. QED
  BY <1>4, <1>5

\* Who goes on from the workspace comes again with the next tick.
LEMMA PastHere ==
  ASSUME Placed, NEW r \in Replicas, Past(r), InPass(r), NEW w \in Workspaces, turn[r] = w
  PROVE  /\ Ahead(r, w) /\ To(r, w)' = To(r, w) + RefreshInterval /\ Steady(r, w)'
         /\ stage'[r] # "down"
<1>1. w \in 1 .. N /\ N \in Nat /\ timer[r] \in 1 .. RefreshInterval /\ ~due[r]
  BY ReplicaValues, Durations DEF Placed, ScheduleFits, Workspaces, Places
<1>2. Ahead(r, w) /\ w <= w /\ ~(w + 1 <= w)
  BY <1>1 DEF Ahead
<1>3. ~Ahead(r, w)' /\ Steady(r, w)' /\ stage'[r] # "down"
  BY <1>2 DEF Ahead, InPass, Past, Steady
<1>4. timer'[r] = timer[r] /\ due'[r] = due[r]
  BY DEF Past
<1>. QED
  BY <1>1, <1>2, <1>3, <1>4, Durations DEF To

\* Who begins a read elsewhere.
LEMMA OpensAway ==
  ASSUME Placed, NEW r \in Replicas, Opens(r), NEW w \in Workspaces, turn[r] # w
  PROVE  Keeps(r, w)
<1>1. /\ stage[r] = "pass" /\ stage'[r] = "read"
      /\ UNCHANGED <<turn, starting, timer, due, spent, passed, ages>>
  BY DEF Opens
<1>2. Ahead(r, w)' = Ahead(r, w) /\ ~Reads(r, w) /\ ~Reads(r, w)'
  BY <1>1 DEF Ahead, InPass, Reads
<1>3. Overdue(r, w)' = Overdue(r, w)
  BY <1>1 DEF Overdue
<1>. QED
  BY <1>1, <1>2, <1>3 DEF Keeps, Keen, To, Steady

\* What is said of a replica that keeps its place stays true.
LEMMA KeptOne ==
  ASSUME ReadsQuick, Placed, Placed', NEW q \in Replicas, NEW w \in Workspaces, Keeps(q, w), Grows(w)
  PROVE  /\ Engaged(q, w) => Engaged(q, w)'
         /\ Waits(q, w, RefreshInterval - 1) => Waits(q, w, RefreshInterval - 1)'
         /\ OnSchedule(q, w) => OnSchedule(q, w)'
         /\ LeaseRead(q, w) => LeaseRead(q, w)'
         /\ LeaseOutlived(q, w) => LeaseOutlived(q, w)'
         /\ LeaseBypassed(q, w) => LeaseBypassed(q, w)'
<1>0. /\ NumbersOf(w) /\ NumbersOf(w)' /\ To(q, w) \in Int /\ spent[q] \in Nat
      /\ RefreshInterval \in Nat /\ Early \in Nat /\ SlipCost \in Nat /\ LeaseFor \in Nat
  BY WorkspaceNumbers, NumbersNext, Distances, Durations, Slots, Costs DEF Placed
<1>1. ASSUME NEW a \in Int PROVE /\ Waits(q, w, a) => Waits(q, w, a)'
                                 /\ ReadsIn(q, w, a) => ReadsIn(q, w, a)'
  <2>1. Waits(q, w, a) => Waits(q, w, a)'
    BY <1>0 DEF Waits, Keeps, Grows, NumbersOf
  <2>2. ReadsIn(q, w, a) => ReadsIn(q, w, a)'
    BY <1>0 DEF ReadsIn, Keeps, Grows, NumbersOf
  <2>. QED
    BY <2>1, <2>2
<1>2. Engaged(q, w) => Engaged(q, w)'
  BY <1>0, <1>1 DEF Engaged, Keeps
<1>3. OnSchedule(q, w) => OnSchedule(q, w)'
  BY <1>1 DEF OnSchedule, Keeps
<1>4. LeaseRead(q, w) => LeaseRead(q, w)'
  BY <1>0 DEF LeaseRead, Keeps, Grows
<1>5. LeaseOutlived(q, w) => LeaseOutlived(q, w)'
  BY <1>0, <1>1 DEF LeaseOutlived, Keeps, Grows
<1>6. LeaseBypassed(q, w) => LeaseBypassed(q, w)'
  <2>1. Allowed(w)' >= Allowed(w)
    BY <1>0 DEF NumbersOf, Grows
  <2>. QED
    BY <1>0, <2>1 DEF LeaseBypassed, Keeps, Grows, NumbersOf
<1>. QED
  BY <1>0, <1>1, <1>2, <1>3, <1>4, <1>5, <1>6

\* What is said of a lease that no read holds stays true.
LEMMA KeptLost ==
  ASSUME ScheduleFits, ScheduleFits', NEW w \in Workspaces, Grows(w), LeaseLost(w)
  PROVE  LeaseLost(w)'
<1>0. /\ NumbersOf(w) /\ NumbersOf(w)'
      /\ RefreshInterval \in Nat /\ Early \in Nat /\ SlipCost \in Nat /\ LeaseFor \in Nat
  BY WorkspaceNumbers, NumbersNext, Durations, Slots, Costs
<1>1. Allowed(w)' >= Allowed(w)
  BY <1>0 DEF NumbersOf, Grows
<1>. QED
  BY <1>0, <1>1 DEF LeaseLost, Grows, NumbersOf

\* Nothing happens at the workspace.
LEMMA KeptOnTime ==
  ASSUME ReadsQuick, Placed, Placed', NEW w \in Workspaces, OnTime(w), Grows(w),
         stopped'[w] = stopped[w],
         \A q \in Replicas : Keeps(q, w) /\ (stage'[q] # "down" => stage[q] # "down")
  PROVE  OnTime(w)'
<1>0. NumbersOf(w) /\ NumbersOf(w)' /\ RefreshInterval \in Nat
  BY WorkspaceNumbers, NumbersNext, Durations DEF Placed
<1>1. Attended(w)'
  BY KeptOne DEF OnTime, Attended
<1>2. Settled(w)'
  BY <1>0, KeptOne DEF OnTime, Settled, Grows, NumbersOf
<1>3. Tight(w)'
  BY KeptOne DEF OnTime, Tight
<1>4. LeaseTold(w)'
  <2>1. LeaseDone(w) => LeaseDone(w)'
    BY KeptOne DEF LeaseDone, Grows
  <2>. QED
    BY <2>1, KeptOne, KeptLost DEF OnTime, LeaseTold, Placed, Grows
<1>. QED
  BY <1>1, <1>2, <1>3, <1>4 DEF OnTime

\* A snapshot is never older than whoever is there allows.
LEMMA Loose ==
  ASSUME ReadsQuick, Placed, NEW w \in Workspaces, OnTime(w)
  PROVE  ages[w] <= RefreshInterval - 1 + Cost(slips[w]) + SlipCost
<1>0. /\ NumbersOf(w) /\ RefreshInterval \in Nat /\ Early \in Nat /\ LeaseFor \in Nat /\ LeaseFor >= 1
      /\ SlipCost = LeaseFor - 1 + RefreshInterval + Early
  BY WorkspaceNumbers, Durations, Slots, Costs DEF Placed
<1>1. CASE ages[w] <= RefreshInterval + (RefreshInterval - 1) + Cost(slips[w])
  BY <1>0, <1>1 DEF NumbersOf
<1>2. ASSUME NEW q \in Replicas, Engaged(q, w) PROVE ages[w] <= RefreshInterval - 1 + Cost(slips[w]) + SlipCost
  <2>0. /\ To(q, w) \in Int /\ spent[q] \in Nat /\ spent[q] < LeaseFor
        /\ Ahead(q, w) /\ ~Reads(q, w) => To(q, w) >= 0 - Early
    BY Distances
  <2>1. CASE ReadsIn(q, w, RefreshInterval - 1)
    BY <1>0, <2>0, <2>1 DEF ReadsIn, NumbersOf
  <2>2. CASE Keen(q, w) /\ Waits(q, w, RefreshInterval - 1)
    BY <1>0, <2>0, <2>2 DEF Keen, Waits, NumbersOf
  <2>. QED
    BY <1>2, <2>1, <2>2 DEF Engaged
<1>. QED
  BY <1>1, <1>2 DEF OnTime, Settled

\* Who is on schedule finds the snapshot no older than that and the reads before.
LEMMA Punctual ==
  ASSUME ReadsQuick, Placed, NEW w \in Workspaces, NEW q \in Replicas, NEW a \in Nat,
         (stage[q] # "down" /\ Waits(q, w, a)) \/ ReadsIn(q, w, a)
  PROVE  /\ ~Reads(q, w) => ages[w] <= RefreshInterval + Early + a + Cost(slips[w])
         /\ Reads(q, w) => ages[w] - spent[q] <= RefreshInterval + Early + a + Cost(slips[w])
<1>0. /\ NumbersOf(w) /\ RefreshInterval \in Nat /\ Early \in Nat
      /\ To(q, w) \in Int /\ spent[q] \in Nat
      /\ Ahead(q, w) /\ ~Reads(q, w) => To(q, w) >= 0 - Early
      /\ stage[q] # "down" /\ ~Ahead(q, w) => To(q, w) >= 0
      /\ Reads(q, w) => To(q, w) >= 0 - Early - spent[q]
  BY WorkspaceNumbers, Durations, Slots, Distances DEF Placed
<1>1. CASE ReadsIn(q, w, a)
  BY <1>1 DEF ReadsIn
<1>2. CASE stage[q] # "down" /\ Waits(q, w, a)
  BY <1>0, <1>2 DEF Waits, NumbersOf
<1>. QED
  BY <1>1, <1>2

\* Somebody is engaged, or the snapshot is not that old.
LEMMA EngagedIs ==
  ASSUME ReadsQuick, Placed, NEW w \in Workspaces, NEW q \in Replicas, Engaged(q, w)
  PROVE  Ahead(q, w) /\ stage[q] # "down"
         /\ (Waits(q, w, RefreshInterval - 1) \/ ReadsIn(q, w, RefreshInterval - 1))
<1>1. Ahead(q, w)
  BY Distances DEF Engaged, Keen, ReadsIn
<1>. QED
  BY <1>1 DEF Engaged, Ahead, InPass

\* A pass leaves a workspace because something went wrong, or ends with its process.
LEMMA SlipOnTime ==
  ASSUME ReadsQuick, Placed, Placed', NEW w \in Workspaces, OnTime(w),
         NEW r \in Replicas, Ahead(r, w),
         ages'[w] = ages[w], slips'[w] = slips[w] + 1, stopped[w] => stopped'[w],
         leases'[w].left = leases[w].left \/ leases'[w].left = 0,
         \A q \in Replicas : q # r => Keeps(q, w) /\ stage'[q] = stage[q],
         \/ stage'[r] = "down" /\ stopped'[w]
         \/ To(r, w)' = To(r, w) + RefreshInterval /\ Steady(r, w)' /\ stopped'[w] = stopped[w]
  PROVE  OnTime(w)'
<1>0. /\ NumbersOf(w) /\ NumbersOf(w)' /\ RefreshInterval \in Nat /\ RefreshInterval >= 1
      /\ Early \in Nat /\ LeaseFor \in Nat /\ LeaseFor >= 1
      /\ SlipCost = LeaseFor - 1 + RefreshInterval + Early /\ SlipCost \in Nat
      /\ Cost(slips'[w]) = Cost(slips[w]) + SlipCost
  <2>1. NumbersOf(w) /\ NumbersOf(w)'
    BY WorkspaceNumbers, NumbersNext DEF Placed
  <2>2. Cost(slips[w] + 1) = Cost(slips[w]) + SlipCost
    BY <2>1, Costs DEF NumbersOf
  <2>. QED
    BY <2>1, <2>2, Durations, Slots, Costs
<1>1. ages'[w] <= RefreshInterval - 1 + Cost(slips'[w])
  BY <1>0, Loose DEF NumbersOf
<1>2. To(r, w) \in Int /\ To(r, w) <= 0
  BY Distances
<1>3. ASSUME NEW q \in Replicas, stage'[q] # "down" PROVE Waits(q, w, RefreshInterval - 1)'
  <2>1. To(q, w)' \in Int /\ To(q, w)' <= RefreshInterval
    <3>1. CASE q = r
      BY <1>0, <1>2, <1>3, <3>1
    <3>2. CASE q # r
      BY <3>2, Distances DEF Keeps
    <3>. QED
      BY <3>1, <3>2
  <2>. QED
    BY <1>0, <1>1, <2>1 DEF Waits, NumbersOf
<1>4. Attended(w)'
  BY <1>3 DEF Attended
<1>5. Settled(w)'
  BY <1>0, <1>1 DEF Settled, NumbersOf
<1>6. ASSUME leases'[w].left = leases[w].left PROVE Grows(w)
  BY <1>0, <1>6 DEF Grows, NumbersOf
<1>7. ASSUME NEW q \in Replicas, q # r, OnSchedule(q, w) PROVE OnSchedule(q, w)'
  <2>1. Keeps(q, w) /\ To(q, w) \in Int /\ spent[q] \in Nat
    BY <1>7, Distances
  <2>2. ASSUME NEW a \in {0} PROVE /\ Waits(q, w, a) => Waits(q, w, a)'
                                   /\ ReadsIn(q, w, a) => ReadsIn(q, w, a)'
    <3>1. Waits(q, w, a) => Waits(q, w, a)'
      BY <1>0, <2>1 DEF Waits, Keeps, NumbersOf
    <3>2. ReadsIn(q, w, a) => ReadsIn(q, w, a)'
      BY <1>0, <2>1 DEF ReadsIn, Keeps, NumbersOf
    <3>. QED
      BY <3>1, <3>2
  <2>. QED
    BY <1>7, <2>1, <2>2 DEF OnSchedule, Keeps
<1>8. Tight(w)'
  <2>1. SUFFICES ASSUME ~stopped'[w] PROVE \E q \in Replicas : OnSchedule(q, w)'
    BY DEF Tight
  <2>2. To(r, w)' = To(r, w) + RefreshInterval /\ Steady(r, w)' /\ ~stopped[w]
    BY <2>1
  <2>3. PICK q \in Replicas : OnSchedule(q, w)
    BY <2>2 DEF OnTime, Tight
  <2>4. CASE q = r
    <3>1. ages[w] + To(r, w) <= RefreshInterval + Early + Cost(slips[w])
      <4>1. CASE Waits(r, w, 0)
        BY <1>0, <1>2, <4>1 DEF Waits, NumbersOf
      <4>2. CASE ReadsIn(r, w, 0)
        <5>1. Reads(r, w) /\ To(r, w) <= 0 - spent[r] /\ spent[r] \in Nat
          BY <4>2, Distances DEF ReadsIn
        <5>. QED
          BY <1>0, <1>2, <4>2, <5>1 DEF ReadsIn, NumbersOf
      <4>. QED
        BY <2>3, <2>4, <4>1, <4>2 DEF OnSchedule
    <3>2. Waits(r, w, 0)'
      BY <1>0, <1>2, <2>2, <3>1 DEF Waits, NumbersOf
    <3>. QED
      BY <2>2, <3>2 DEF OnSchedule
  <2>. QED
    BY <1>7, <2>3, <2>4
<1>9. LeaseTold(w)'
  <2>1. SUFFICES ASSUME leases'[w].left > 0
                 PROVE  LeaseLost(w)' \/ \E q \in Replicas : LeaseRead(q, w)' \/ LeaseBypassed(q, w)'
    BY DEF LeaseTold
  <2>2. Grows(w) /\ leases[w].left > 0 /\ leases'[w].left = leases[w].left
    BY <1>0, <1>6, <2>1 DEF NumbersOf
  <2>3. slips'[w] >= 1 /\ Allowed(w)' >= Allowed(w)
    BY <1>0, <2>2 DEF NumbersOf, Grows
  <2>4. CASE LeaseDone(w)
    <3>1. LeaseLost(w)'
      BY <1>0, <2>2, <2>3, <2>4 DEF LeaseDone, LeaseLost, NumbersOf
    <3>. QED
      BY <3>1
  <2>5. CASE LeaseLost(w)
    BY <2>2, <2>5, KeptLost DEF Placed
  <2>6. ASSUME NEW q \in Replicas, LeaseBypassed(q, w)
        PROVE  LeaseLost(w)' \/ LeaseBypassed(q, w)'
    <3>1. CASE q # r
      BY <2>2, <2>6, <3>1, KeptOne
    <3>2. spent[q] \in Nat /\ spent[q] < LeaseFor
      BY Distances
    <3>3. LeaseLost(w)'
      BY <1>0, <2>2, <2>3, <2>6, <3>2 DEF LeaseBypassed, LeaseLost, NumbersOf
    <3>. QED
      BY <3>3
  <2>7. ASSUME NEW q \in Replicas, LeaseRead(q, w)
        PROVE  LeaseLost(w)' \/ \E x \in Replicas : LeaseRead(x, w)' \/ LeaseBypassed(x, w)'
    <3>1. CASE q # r
      BY <2>2, <2>7, <3>1, KeptOne
    <3>2. CASE q = r
      <4>1. /\ Reads(r, w) /\ spent[r] <= LeaseFor - leases[w].left /\ spent[r] \in Nat
        BY <2>7, <3>2, Distances DEF LeaseRead
      <4>2. CASE ages[w] <= RefreshInterval + Early + Allowed(w)' + Cost(slips[w])
        <5>1. LeaseLost(w)'
          BY <1>0, <2>2, <2>3, <4>2 DEF LeaseLost, NumbersOf
        <5>. QED
          BY <5>1
      <4>3. ASSUME NEW x \in Replicas, NEW a \in Nat, a <= Allowed(w)',
                   (stage[x] # "down" /\ Waits(x, w, a)) \/ ReadsIn(x, w, a)
            PROVE  LeaseLost(w)' \/ LeaseBypassed(x, w)'
        <5>0. /\ ~Reads(x, w) => ages[w] <= RefreshInterval + Early + a + Cost(slips[w])
              /\ Reads(x, w) => ages[w] - spent[x] <= RefreshInterval + Early + a + Cost(slips[w])
          BY <4>3, Punctual
        <5>1. CASE ~Reads(x, w)
          <6>1. ages[w] <= RefreshInterval + Early + Allowed(w)' + Cost(slips[w])
            BY <1>0, <4>3, <5>0, <5>1 DEF NumbersOf
          <6>2. LeaseLost(w)'
            BY <1>0, <2>2, <2>3, <6>1 DEF LeaseLost, NumbersOf
          <6>. QED
            BY <6>2
        <5>2. CASE Reads(x, w) /\ x = r
          <6>1. LeaseLost(w)'
            BY <1>0, <2>2, <2>3, <4>1, <4>3, <5>0, <5>2 DEF LeaseLost, NumbersOf
          <6>. QED
            BY <6>1
        <5>3. CASE Reads(x, w) /\ x # r
          <6>1. Reads(x, w)' /\ spent'[x] = spent[x] /\ spent[x] \in Nat
            BY <5>3, Distances DEF Keeps
          <6>2. LeaseBypassed(x, w)'
            BY <1>0, <2>2, <2>3, <4>3, <5>0, <5>3, <6>1 DEF LeaseBypassed, NumbersOf
          <6>. QED
            BY <6>2
        <5>. QED
          BY <5>1, <5>2, <5>3
      <4>4. CASE stopped'[w]
        <5>1. Allowed(w)' = RefreshInterval - 1 /\ RefreshInterval - 1 \in Nat
          BY <1>0, <4>4 DEF NumbersOf
        <5>2. CASE ages[w] <= RefreshInterval + (RefreshInterval - 1) + Cost(slips[w])
          BY <1>0, <4>2, <5>1, <5>2 DEF NumbersOf
        <5>3. ASSUME NEW x \in Replicas, Engaged(x, w) PROVE LeaseLost(w)' \/ LeaseBypassed(x, w)'
          BY <1>0, <4>3, <5>1, <5>3, EngagedIs
        <5>. QED
          BY <5>2, <5>3 DEF OnTime, Settled
      <4>5. CASE ~stopped'[w]
        <5>1. PICK x \in Replicas : OnSchedule(x, w)
          BY <2>2, <4>5 DEF OnTime, Tight, Grows
        <5>2. LeaseLost(w)' \/ LeaseBypassed(x, w)'
          BY <1>0, <4>3, <5>1 DEF OnSchedule, Steady, NumbersOf
        <5>. QED
          BY <5>2
      <4>. QED
        BY <4>4, <4>5
    <3>. QED
      BY <3>1, <3>2
  <2>. QED
    BY <2>2, <2>4, <2>5, <2>6, <2>7 DEF OnTime, LeaseTold
<1>. QED
  BY <1>4, <1>5, <1>8, <1>9 DEF OnTime

\* A pass leaves a workspace that was not due when it began.
LEMMA NotDueOnTime ==
  ASSUME ReadsQuick, Placed, Placed', NEW w \in Workspaces, OnTime(w), Grows(w), stopped'[w] = stopped[w],
         NEW r \in Replicas, Ahead(r, w), stage[r] = "pass", starting[r], ~Overdue(r, w), turn[r] = w,
         To(r, w)' = To(r, w) + RefreshInterval,
         \A q \in Replicas : q # r => Keeps(q, w) /\ stage'[q] = stage[q]
  PROVE  OnTime(w)'
<1>0. /\ NumbersOf(w) /\ NumbersOf(w)' /\ RefreshInterval \in Nat /\ To(r, w) \in Int
      /\ passed[r] \in Nat /\ w <= w
  BY WorkspaceNumbers, NumbersNext, Durations, Distances, ReplicaValues, Slots DEF Placed, ScheduleFits, Workspaces
<1>1. passed[r] = 0 - To(r, w) /\ ages[w] - passed[r] < RefreshInterval
  <2>1. passed[r] = RefreshInterval - timer[r] /\ To(r, w) = timer[r] - RefreshInterval
    BY DEF Placed, Places, Ahead, Elapsed, To
  <2>2. timer[r] \in 1 .. RefreshInterval
    BY ReplicaValues DEF Placed, ScheduleFits
  <2>. QED
    BY <1>0, <2>1, <2>2 DEF Overdue, NumbersOf
<1>2. Waits(r, w, RefreshInterval - 1)'
  BY <1>0, <1>1 DEF Waits, Grows, NumbersOf
<1>3. ~Engaged(r, w) /\ ~Reads(r, w) /\ ~Steady(r, w)
  BY <1>0 DEF Engaged, ReadsIn, Reads, Keen, Steady
<1>4. Attended(w)'
  BY <1>2, <1>3, KeptOne DEF OnTime, Attended
<1>5. Settled(w)'
  BY <1>0, <1>3, KeptOne DEF OnTime, Settled, Grows, NumbersOf
<1>6. Tight(w)'
  <2>1. ~OnSchedule(r, w)
    BY <1>3 DEF OnSchedule, ReadsIn
  <2>. QED
    BY <2>1, KeptOne DEF OnTime, Tight
<1>7. LeaseTold(w)'
  <2>1. ~LeaseOutlived(r, w) /\ ~LeaseRead(r, w) /\ ~LeaseBypassed(r, w)
    BY <1>3 DEF LeaseOutlived, LeaseRead, LeaseBypassed
  <2>2. LeaseDone(w) => LeaseDone(w)'
    BY <2>1, KeptOne DEF LeaseDone, Grows
  <2>. QED
    BY <2>1, <2>2, KeptOne, KeptLost DEF OnTime, LeaseTold, Placed, Grows
<1>. QED
  BY <1>4, <1>5, <1>6, <1>7 DEF OnTime

\* Who is keen has somebody engaged: itself, if nobody else.
LEMMA KeenEngaged ==
  ASSUME NEW w \in Workspaces, Attended(w), NEW r \in Replicas, Keen(r, w)
  PROVE  \E q \in Replicas : Engaged(q, w)
<1>1. stage[r] # "down"
  BY DEF Keen, Ahead, InPass
<1>. QED
  BY <1>1 DEF Attended, Engaged

\* A replica is refused, by a lease that still is somebody's.
LEMMA RefusedOnTime ==
  ASSUME ReadsQuick, Placed, Placed', NEW w \in Workspaces, OnTime(w), Grows(w),
         slips'[w] = slips[w], stopped'[w] = stopped[w],
         NEW r \in Replicas, Keen(r, w), leases[w].left > 0,
         To(r, w)' = To(r, w) + RefreshInterval, Steady(r, w)',
         \A q \in Replicas : q # r => Keeps(q, w) /\ stage'[q] = stage[q]
  PROVE  OnTime(w)'
<1>0. /\ NumbersOf(w) /\ NumbersOf(w)' /\ RefreshInterval \in Nat /\ RefreshInterval >= 1 /\ Early \in Nat
      /\ LeaseFor \in Nat /\ LeaseFor <= RefreshInterval
      /\ SlipCost = LeaseFor - 1 + RefreshInterval + Early /\ SlipCost \in Nat
      /\ To(r, w) \in Int /\ To(r, w) <= 0 /\ To(r, w) >= 0 - Early
  BY WorkspaceNumbers, NumbersNext, Durations, Slots, Costs, Distances DEF Placed, Keen
<1>1. ~Reads(r, w) /\ ~LeaseOutlived(r, w)
  BY <1>0 DEF Keen, LeaseOutlived, NumbersOf
<1>2. ASSUME NEW q \in Replicas, stage'[q] # "down" PROVE To(q, w)' \in Int /\ To(q, w)' <= RefreshInterval
  <2>1. CASE q = r
    BY <1>0, <2>1
  <2>2. CASE q # r
    BY <2>2, Distances DEF Keeps
  <2>. QED
    BY <2>1, <2>2
<1>3. LeaseTold(w)'
  <2>1. ~LeaseRead(r, w) /\ ~LeaseBypassed(r, w)
    BY <1>1 DEF LeaseRead, LeaseBypassed
  <2>2. LeaseDone(w) => LeaseDone(w)'
    BY <1>1, KeptOne DEF LeaseDone, Grows
  <2>. QED
    BY <2>1, <2>2, KeptOne, KeptLost DEF OnTime, LeaseTold, Placed, Grows
<1>4. ASSUME NEW q \in Replicas, Reads(q, w) PROVE Attended(w)' /\ Settled(w)' /\ Tight(w)'
  <2>0. q # r /\ Reads(q, w)' /\ spent'[q] = spent[q] /\ spent[q] \in Nat
    BY <1>1, <1>4, Distances DEF Keeps
  <2>1. ASSUME NEW a \in Nat, Waits(r, w, a) PROVE ReadsIn(q, w, a)'
    BY <1>0, <2>0, <2>1 DEF Waits, ReadsIn, Grows, NumbersOf
  <2>2. \E x \in Replicas : Engaged(x, w)'
    <3>1. PICK x \in Replicas : Engaged(x, w)
      BY KeenEngaged DEF OnTime
    <3>2. CASE x # r
      BY <3>1, <3>2, KeptOne
    <3>3. CASE x = r
      <4>1. RefreshInterval - 1 \in Nat
        BY <1>0
      <4>2. Waits(r, w, RefreshInterval - 1)
        BY <1>1, <3>1, <3>3 DEF Engaged, ReadsIn
      <4>. QED
        BY <2>1, <4>1, <4>2 DEF Engaged
    <3>. QED
      BY <3>2, <3>3
  <2>3. Tight(w)'
    <3>1. OnSchedule(r, w) => OnSchedule(q, w)'
      BY <1>1, <2>1 DEF OnSchedule, ReadsIn
    <3>. QED
      BY <3>1, KeptOne DEF OnTime, Tight
  <2>. QED
    BY <2>2, <2>3 DEF Attended, Settled
<1>5. CASE LeaseDone(w)
  <2>1. ages'[w] <= RefreshInterval - 1
    BY <1>0, <1>5 DEF LeaseDone, Grows, NumbersOf
  <2>2. ASSUME NEW q \in Replicas, stage'[q] # "down" PROVE Waits(q, w, RefreshInterval - 1)'
    BY <1>0, <1>2, <2>1, <2>2 DEF Waits, NumbersOf
  <2>3. Settled(w)'
    BY <1>0, <2>1 DEF Settled, NumbersOf
  <2>4. Tight(w)'
    <3>1. SUFFICES ASSUME ~stopped[w] PROVE \E q \in Replicas : OnSchedule(q, w)'
      BY DEF Tight
    <3>2. PICK q \in Replicas : LeaseOutlived(q, w)
      BY <1>5, <3>1 DEF LeaseDone
    <3>3. q # r /\ OnSchedule(q, w)
      BY <1>1, <3>2 DEF LeaseOutlived, OnSchedule
    <3>. QED
      BY <3>3, KeptOne
  <2>. QED
    BY <1>3, <2>2, <2>3, <2>4 DEF OnTime, Attended
<1>6. CASE LeaseLost(w)
  <2>1. ages'[w] <= Allowed(w) + Cost(slips'[w])
    BY <1>0, <1>6 DEF LeaseLost, Grows, NumbersOf
  <2>2. ASSUME NEW q \in Replicas, stage'[q] # "down" PROVE Waits(q, w, RefreshInterval - 1)'
    BY <1>0, <1>2, <2>1, <2>2 DEF Waits, NumbersOf
  <2>3. Settled(w)'
    BY <1>0, <2>1 DEF Settled, NumbersOf
  <2>4. ~stopped[w] => Waits(r, w, 0)'
    BY <1>0, <2>1 DEF Waits, NumbersOf
  <2>. QED
    BY <1>3, <2>2, <2>3, <2>4 DEF OnTime, Attended, Tight, OnSchedule
<1>7. CASE \E q \in Replicas : Reads(q, w)
  BY <1>3, <1>4, <1>7 DEF OnTime
<1>. QED
  BY <1>5, <1>6, <1>7 DEF OnTime, LeaseTold, LeaseRead, LeaseBypassed

\* A read begins, under the lease or without it.
LEMMA OpensOnTime ==
  ASSUME ReadsQuick, Placed, Placed', NEW w \in Workspaces, OnTime(w),
         ages'[w] = ages[w], slips'[w] = slips[w], stopped'[w] = stopped[w],
         NEW r \in Replicas, Keen(r, w), Reads(r, w)', spent'[r] = 0, Steady(r, w) => Steady(r, w)',
         leases'[w] = leases[w] \/ (leases[w].left = 0 /\ leases'[w].left = LeaseFor),
         \A q \in Replicas : q # r => Keeps(q, w) /\ stage'[q] = stage[q]
  PROVE  OnTime(w)'
<1>0. /\ NumbersOf(w) /\ NumbersOf(w)' /\ RefreshInterval \in Nat /\ RefreshInterval >= 1 /\ Early \in Nat
      /\ LeaseFor \in Nat /\ SlipCost \in Nat /\ RefreshInterval - 1 \in Nat
      /\ To(r, w) \in Int /\ To(r, w) <= 0 /\ To(r, w) >= 0 - Early
  BY WorkspaceNumbers, NumbersNext, Durations, Slots, Costs, Distances DEF Placed, Keen
<1>1. ~Reads(r, w)
  BY DEF Keen
<1>2. ASSUME NEW a \in Nat, Waits(r, w, a) PROVE ReadsIn(r, w, a)'
  BY <1>0, <1>2 DEF Waits, ReadsIn, NumbersOf
<1>3. ASSUME NEW q \in Replicas, q # r, NEW a \in Nat
      PROVE  /\ Waits(q, w, a) => Waits(q, w, a)'
             /\ ReadsIn(q, w, a) => ReadsIn(q, w, a)'
  <2>1. Keeps(q, w)
    BY <1>3
  <2>. QED
    BY <2>1 DEF Waits, ReadsIn, Keeps
<1>4. \E q \in Replicas : Engaged(q, w)'
  <2>1. PICK q \in Replicas : Engaged(q, w)
    BY KeenEngaged DEF OnTime
  <2>2. CASE q = r
    BY <1>0, <1>1, <1>2, <2>1, <2>2 DEF Engaged, ReadsIn
  <2>3. CASE q # r
    <3>1. Keeps(q, w)
      BY <2>3
    <3>. QED
      BY <1>0, <1>3, <2>1, <2>3, <3>1 DEF Engaged, Keeps
  <2>. QED
    BY <2>2, <2>3
<1>5. Tight(w)'
  <2>1. OnSchedule(r, w) => OnSchedule(r, w)'
    BY <1>0, <1>1, <1>2 DEF OnSchedule, ReadsIn
  <2>2. ASSUME NEW q \in Replicas, q # r, OnSchedule(q, w) PROVE OnSchedule(q, w)'
    <3>1. Keeps(q, w) /\ 0 \in Nat
      BY <2>2
    <3>. QED
      BY <1>3, <2>2, <3>1 DEF OnSchedule, Keeps
  <2>. QED
    BY <2>1, <2>2 DEF OnTime, Tight
<1>6. LeaseTold(w)'
  <2>1. CASE leases'[w] = leases[w]
    <3>1. Grows(w)
      BY <1>0, <2>1 DEF Grows, NumbersOf
    <3>2. SUFFICES ASSUME leases[w].left > 0
                   PROVE  \/ \E q \in Replicas : LeaseRead(q, w)'
                          \/ LeaseDone(w)' \/ LeaseLost(w)'
                          \/ \E q \in Replicas : LeaseBypassed(q, w)'
      BY <2>1 DEF LeaseTold
    <3>3. ~LeaseOutlived(r, w) /\ ~LeaseRead(r, w) /\ ~LeaseBypassed(r, w)
      BY <1>0, <1>1, <3>2 DEF LeaseOutlived, LeaseRead, LeaseBypassed, NumbersOf
    <3>4. LeaseDone(w) => LeaseDone(w)'
      BY <3>1, <3>3, KeptOne DEF LeaseDone, Grows
    <3>. QED
      BY <3>1, <3>2, <3>3, <3>4, KeptOne, KeptLost DEF OnTime, LeaseTold, Placed
  <2>2. CASE leases'[w].left = LeaseFor
    <3>1. LeaseRead(r, w)'
      BY <1>0, <2>2 DEF LeaseRead
    <3>. QED
      BY <3>1 DEF LeaseTold
  <2>. QED
    BY <2>1, <2>2
<1>. QED
  BY <1>4, <1>5, <1>6 DEF OnTime, Attended, Settled

\* A new snapshot is as young as any schedule allows.
LEMMA YoungOnTime ==
  ASSUME ReadsQuick, Placed, Placed', NEW w \in Workspaces, ages'[w] = 0,
         \A q \in Replicas : stage'[q] # "down" => To(q, w)' \in Int /\ To(q, w)' <= RefreshInterval
  PROVE  /\ Attended(w)' /\ Settled(w)'
         /\ \A q \in Replicas : Steady(q, w)' => Waits(q, w, 0)'
<1>0. NumbersOf(w)' /\ RefreshInterval \in Nat /\ RefreshInterval >= 1
  BY NumbersNext, Durations DEF Placed
<1>1. ASSUME NEW q \in Replicas, stage'[q] # "down"
      PROVE  Waits(q, w, RefreshInterval - 1)' /\ Waits(q, w, 0)'
  BY <1>0, <1>1 DEF Waits, NumbersOf
<1>2. Settled(w)'
  BY <1>0 DEF Settled, NumbersOf
<1>. QED
  BY <1>1, <1>2 DEF Attended, Steady

\* A read is done.
LEMMA DoneOnTime ==
  ASSUME ReadsQuick, Placed, Placed', NEW w \in Workspaces, OnTime(w),
         ages'[w] = 0, leases'[w] = leases[w],
         NEW r \in Replicas, Reads(r, w), Holds(r),
         mine[r] \/ (slips'[w] = slips[w] /\ stopped'[w] = stopped[w]),
         To(r, w)' = To(r, w) + RefreshInterval, Steady(r, w)',
         \A q \in Replicas : q # r => /\ To(q, w)' = To(q, w) /\ stage'[q] = stage[q]
                                      /\ Steady(q, w) => Steady(q, w)'
                                      /\ Reads(q, w) => Reads(q, w)' /\ spent'[q] = spent[q]
  PROVE  OnTime(w)'
<1>0. /\ NumbersOf(w) /\ NumbersOf(w)' /\ RefreshInterval \in Nat /\ RefreshInterval >= 1 /\ Early \in Nat
      /\ LeaseFor \in Nat /\ SlipCost \in Nat /\ Early <= RefreshInterval - LeaseFor
      /\ To(r, w) \in Int /\ To(r, w) <= 0 /\ To(r, w) >= 0 - Early - spent[r] /\ spent[r] \in Nat
  BY WorkspaceNumbers, NumbersNext, Durations, Slots, Costs, Distances, Quick DEF Placed
<1>1. ASSUME NEW q \in Replicas PROVE To(q, w)' \in Int /\ To(q, w)' <= RefreshInterval
  <2>1. CASE q = r
    BY <1>0, <2>1
  <2>2. CASE q # r
    BY <2>2, Distances
  <2>. QED
    BY <2>1, <2>2
<1>2. Attended(w)' /\ Settled(w)' /\ (\A q \in Replicas : Steady(q, w)' => Waits(q, w, 0)')
  BY <1>1, YoungOnTime
<1>3. Tight(w)'
  BY <1>2 DEF Tight, OnSchedule
<1>4. CASE leases[w].left <= LeaseFor - spent[r]
  <2>1. LeaseOutlived(r, w)'
    BY <1>0, <1>2, <1>4 DEF LeaseOutlived, NumbersOf
  <2>2. LeaseDone(w)'
    BY <1>0, <2>1 DEF LeaseDone, NumbersOf
  <2>. QED
    BY <1>2, <1>3, <2>2 DEF OnTime, LeaseTold
<1>5. CASE ~(leases[w].left <= LeaseFor - spent[r])
  <2>1. slips'[w] = slips[w] /\ stopped'[w] = stopped[w]
    BY <1>0, <1>5 DEF Holds, Reads, NumbersOf
  <2>2. SUFFICES ASSUME leases[w].left > 0
                 PROVE  LeaseDone(w)' \/ LeaseLost(w)' \/ \E q \in Replicas : LeaseRead(q, w)'
    BY <1>2, <1>3 DEF OnTime, LeaseTold
  <2>3. ASSUME NEW q \in Replicas, LeaseRead(q, w) PROVE LeaseRead(q, w)'
    <3>1. q # r
      BY <1>0, <1>5, <2>3 DEF LeaseRead, NumbersOf
    <3>. QED
      BY <2>3, <3>1 DEF LeaseRead
  <2>4. CASE LeaseDone(w)
    <3>1. ASSUME NEW q \in Replicas, LeaseOutlived(q, w) PROVE LeaseOutlived(q, w)'
      <4>1. q # r
        BY <1>0, <2>2, <3>1 DEF LeaseOutlived, NumbersOf
      <4>. QED
        BY <1>2, <3>1, <4>1 DEF LeaseOutlived
    <3>2. LeaseDone(w)'
      BY <1>0, <2>1, <2>4, <3>1 DEF LeaseDone, NumbersOf
    <3>. QED
      BY <3>2
  <2>5. CASE slips[w] >= 1
    <3>1. LeaseLost(w)'
      BY <1>0, <2>1, <2>5 DEF LeaseLost, NumbersOf
    <3>. QED
      BY <3>1
  <2>. QED
    BY <2>2, <2>3, <2>4, <2>5 DEF OnTime, LeaseTold, LeaseLost, LeaseBypassed
<1>. QED
  BY <1>4, <1>5

\* A read without the lease is done, on demand.
LEMMA DemandedOnTime ==
  ASSUME ReadsQuick, Placed, Placed', NEW w \in Workspaces, OnTime(w), Demanded(w)
  PROVE  OnTime(w)'
<1>0. /\ NumbersOf(w) /\ NumbersOf(w)' /\ RefreshInterval \in Nat /\ RefreshInterval >= 1 /\ Early \in Nat
      /\ LeaseFor \in Nat /\ SlipCost \in Nat
  BY WorkspaceNumbers, NumbersNext, Durations, Slots, Costs DEF Placed
<1>1. /\ ages'[w] = 0 /\ leases'[w] = leases[w] /\ slips'[w] = slips[w] /\ stopped'[w] = stopped[w]
      /\ stage' = stage
  BY DEF Demanded, Placed, ScheduleFits, PassTypeOK, snapshotVars, Stored
<1>2. ASSUME NEW q \in Replicas
      PROVE  /\ To(q, w)' = To(q, w) /\ Steady(q, w)' = Steady(q, w) /\ Reads(q, w)' = Reads(q, w)
             /\ spent'[q] = spent[q]
  BY DEF Demanded, To, Ahead, InPass, Steady, Reads, snapshotVars, Stored
<1>3. \A q \in Replicas : To(q, w)' \in Int /\ To(q, w)' <= RefreshInterval
  BY <1>2, Distances
<1>4. Attended(w)' /\ Settled(w)' /\ (\A q \in Replicas : Steady(q, w)' => Waits(q, w, 0)')
  BY <1>1, <1>3, YoungOnTime
<1>5. Tight(w)'
  <2>1. ASSUME NEW q \in Replicas, OnSchedule(q, w) PROVE OnSchedule(q, w)'
    <3>1. CASE Steady(q, w)
      BY <1>2, <1>4, <3>1 DEF OnSchedule
    <3>2. CASE Reads(q, w)
      <4>1. spent[q] \in Nat
        BY Distances
      <4>2. ReadsIn(q, w, 0)'
        BY <1>0, <1>1, <1>2, <3>2, <4>1 DEF ReadsIn, NumbersOf
      <4>. QED
        BY <4>2 DEF OnSchedule
    <3>. QED
      BY <2>1, <3>1, <3>2 DEF OnSchedule, ReadsIn
  <2>. QED
    BY <1>1, <2>1 DEF OnTime, Tight
<1>6. LeaseTold(w)'
  <2>1. SUFFICES ASSUME leases[w].left > 0
                 PROVE  LeaseDone(w)' \/ LeaseLost(w)' \/ \E q \in Replicas : LeaseRead(q, w)'
    BY <1>1 DEF LeaseTold
  <2>2. ASSUME NEW q \in Replicas, LeaseRead(q, w) PROVE LeaseRead(q, w)'
    BY <1>1, <1>2, <2>2 DEF LeaseRead
  <2>3. CASE LeaseDone(w)
    <3>1. ASSUME NEW q \in Replicas, LeaseOutlived(q, w) PROVE LeaseOutlived(q, w)'
      BY <1>1, <1>2, <1>4, <3>1 DEF LeaseOutlived
    <3>2. LeaseDone(w)'
      BY <1>0, <1>1, <2>3, <3>1 DEF LeaseDone, NumbersOf
    <3>. QED
      BY <3>2
  <2>4. CASE slips[w] >= 1
    <3>1. LeaseLost(w)'
      BY <1>0, <1>1, <2>4 DEF LeaseLost, NumbersOf
    <3>. QED
      BY <3>1
  <2>. QED
    BY <2>1, <2>2, <2>3, <2>4 DEF OnTime, LeaseTold, LeaseLost, LeaseBypassed
<1>. QED
  BY <1>4, <1>5, <1>6 DEF OnTime

\* A process ends that was not in a pass, or past the workspace.
LEMMA StoppedOnTime ==
  ASSUME ReadsQuick, Placed, Placed', NEW w \in Workspaces, OnTime(w), Grows(w), stopped'[w],
         NEW r \in Replicas, ~Ahead(r, w), stage'[r] = "down",
         \A q \in Replicas : q # r => Keeps(q, w) /\ stage'[q] = stage[q]
  PROVE  OnTime(w)'
<1>0. /\ NumbersOf(w) /\ NumbersOf(w)' /\ RefreshInterval \in Nat
  BY WorkspaceNumbers, NumbersNext, Durations DEF Placed
<1>1. ~Engaged(r, w) /\ ~LeaseRead(r, w) /\ ~LeaseBypassed(r, w)
  <2>1. ~Reads(r, w)
    BY Distances
  <2>. QED
    BY <2>1 DEF Engaged, ReadsIn, Keen, LeaseRead, LeaseBypassed
<1>2. Attended(w)'
  BY <1>1, KeptOne DEF OnTime, Attended
<1>3. Settled(w)'
  BY <1>0, <1>1, KeptOne DEF OnTime, Settled, Grows, NumbersOf
<1>4. LeaseTold(w)'
  <2>1. LeaseDone(w) => LeaseDone(w)'
    BY DEF LeaseDone, Grows
  <2>. QED
    BY <1>1, <2>1, KeptOne, KeptLost DEF OnTime, LeaseTold, Placed, Grows
<1>. QED
  BY <1>2, <1>3, <1>4 DEF OnTime, Tight

\* A process starts: it comes at once.
LEMMA StartOnTime ==
  ASSUME ReadsQuick, Placed, Placed', NEW w \in Workspaces, OnTime(w), Grows(w), stopped'[w] = stopped[w],
         NEW r \in Replicas, stage[r] = "down", To(r, w)' = 0,
         \A q \in Replicas : q # r => Keeps(q, w) /\ stage'[q] = stage[q]
  PROVE  OnTime(w)'
<1>0. /\ NumbersOf(w) /\ NumbersOf(w)' /\ RefreshInterval \in Nat
  BY WorkspaceNumbers, NumbersNext, Durations DEF Placed
<1>1. ~Engaged(r, w) /\ ~OnSchedule(r, w) /\ ~LeaseRead(r, w) /\ ~LeaseBypassed(r, w) /\ ~LeaseOutlived(r, w)
  BY DEF Engaged, ReadsIn, Reads, Keen, Ahead, InPass, LeaseRead, LeaseBypassed, OnSchedule, Steady, LeaseOutlived
<1>2. ages[w] <= RefreshInterval + (RefreshInterval - 1) + Cost(slips[w]) => Waits(r, w, RefreshInterval - 1)'
  BY <1>0 DEF Waits, Grows, NumbersOf
<1>3. Settled(w)'
  BY <1>0, <1>1, KeptOne DEF OnTime, Settled, Grows, NumbersOf
<1>4. Attended(w)'
  BY <1>1, <1>2, KeptOne DEF OnTime, Attended, Settled
<1>5. Tight(w)'
  BY <1>1, KeptOne DEF OnTime, Tight
<1>6. LeaseTold(w)'
  <2>1. LeaseDone(w) => LeaseDone(w)'
    BY <1>1, KeptOne DEF LeaseDone, Grows
  <2>. QED
    BY <1>1, <2>1, KeptOne, KeptLost DEF OnTime, LeaseTold, Placed, Grows
<1>. QED
  BY <1>3, <1>4, <1>5, <1>6 DEF OnTime

\* What is on time is fresh.
LEMMA OnTimeFresh ==
  ASSUME ReadsQuick, Placed, NEW w \in Workspaces, OnTime(w)
  PROVE  ages[w] <= RefreshInterval + PassTime
                    + (IF stopped[w] THEN RefreshInterval - 1 ELSE 0) + slips[w] * SlipCost
<1>0. /\ NumbersOf(w) /\ RefreshInterval \in Nat /\ RefreshInterval >= 1 /\ Early \in Nat /\ ReadTime \in Nat
      /\ PassTime = Early + ReadTime /\ PassTime \in Nat
  BY WorkspaceNumbers, Durations, Slots DEF Placed
<1>1. ASSUME NEW q \in Replicas, NEW a \in Nat, (stage[q] # "down" /\ Waits(q, w, a)) \/ ReadsIn(q, w, a)
      PROVE  ages[w] <= RefreshInterval + PassTime + a + Cost(slips[w])
  <2>1. spent[q] \in Nat /\ spent[q] <= ReadTime
    BY Distances
  <2>. QED
    BY <1>0, <1>1, <2>1, Punctual DEF NumbersOf
<1>2. ages[w] <= RefreshInterval + PassTime + Allowed(w) + Cost(slips[w])
  <2>1. CASE stopped[w]
    <3>1. Allowed(w) = RefreshInterval - 1 /\ RefreshInterval - 1 \in Nat
      BY <1>0, <2>1 DEF NumbersOf
    <3>2. CASE ages[w] <= RefreshInterval + (RefreshInterval - 1) + Cost(slips[w])
      BY <1>0, <3>1, <3>2 DEF NumbersOf
    <3>3. ASSUME NEW q \in Replicas, Engaged(q, w)
          PROVE  ages[w] <= RefreshInterval + PassTime + (RefreshInterval - 1) + Cost(slips[w])
      BY <1>1, <3>1, <3>3, EngagedIs
    <3>. QED
      BY <3>1, <3>2, <3>3 DEF OnTime, Settled
  <2>2. CASE ~stopped[w]
    <3>1. PICK q \in Replicas : OnSchedule(q, w)
      BY <2>2 DEF OnTime, Tight
    <3>2. ages[w] <= RefreshInterval + PassTime + 0 + Cost(slips[w])
      BY <1>1, <3>1 DEF OnSchedule, Steady
    <3>. QED
      BY <1>0, <2>2, <3>2 DEF NumbersOf
  <2>. QED
    BY <2>1, <2>2
<1>. QED
  BY <1>2 DEF Allowed, Cost

\* The ages the model counts to are never passed.
LEMMA AgeCounts ==
  ASSUME ReadsQuick, Placed, NEW w \in Workspaces, OnTime(w)
  PROVE  ages[w] <= Oldest
<1>1. /\ slips[w] \in 0 .. MaxSlips /\ ages[w] \in Nat /\ stopped[w] \in BOOLEAN
  BY WorkspaceNumbers, WorkspaceValues DEF Placed, ScheduleFits, NumbersOf
<1>2. /\ slips[w] * SlipCost <= MaxSlips * SlipCost /\ slips[w] * SlipCost \in Nat
      /\ MaxSlips * SlipCost \in Nat
  <2>1. slips[w] \in Nat /\ MaxSlips \in Nat
    BY <1>1, Durations
  <2>2. Cost(slips[w]) \in Nat /\ Cost(MaxSlips) \in Nat /\ Cost(slips[w]) <= MaxSlips * SlipCost
    BY <1>1, <2>1, Costs
  <2>. QED
    BY <2>2 DEF Cost
<1>. QED
  BY <1>1, <1>2, OnTimeFresh, Durations, Slots DEF Oldest

\* A unit of time brings a replica nearer, and a read on.
LEMMA UnitApart ==
  ASSUME ReadsQuick, Placed, UnitPasses, NEW q \in Replicas, NEW w \in Workspaces
  PROVE  /\ stage[q] # "down" => To(q, w)' = To(q, w) - 1
         /\ Ahead(q, w) \/ stage[q] = "down" \/ To(q, w) >= 1
         /\ Steady(q, w) => Steady(q, w)'
         /\ Reads(q, w) => Reads(q, w)' /\ spent'[q] = spent[q] + 1
<1>0. /\ PassTypeOK /\ Places(q) /\ Fits(q)
      /\ stage[q] \in {"down", "wait", "pass", "read"} /\ starting[q] \in BOOLEAN
      /\ timer[q] \in 1 .. RefreshInterval
      /\ RefreshInterval \in Nat /\ RefreshInterval >= 1 /\ due[q] \in BOOLEAN
  BY ReplicaValues, Durations DEF Placed, ScheduleFits
<1>1. /\ stage'[q] = stage[q] /\ turn'[q] = turn[q] /\ starting'[q] = starting[q]
      /\ stage[q] # "pass" /\ ~(stage[q] = "wait" /\ due[q])
      /\ stage[q] = "read" => spent'[q] = spent[q] + 1
      /\ timer'[q] = IF stage[q] = "down" \/ timer[q] = 1 THEN RefreshInterval ELSE timer[q] - 1
      /\ due'[q] = (stage[q] # "down" /\ (due[q] \/ timer[q] = 1))
  BY <1>0, UnitDoes
<1>2. Ahead(q, w)' = Ahead(q, w) /\ Reads(q, w)' = Reads(q, w) /\ Steady(q, w)' = Steady(q, w)
  BY <1>1 DEF Ahead, InPass, Reads, Steady
<1>3. InPass(q) => stage[q] = "read" /\ timer'[q] = timer[q] - 1 /\ ~due'[q] /\ ~due[q]
  BY <1>0, PlacedUnit DEF Places
<1>4. Reads(q, w) => spent'[q] = spent[q] + 1
  BY <1>1 DEF Reads
<1>5. CASE InPass(q)
  <2>1. CASE Ahead(q, w)
    BY <1>0, <1>2, <1>3, <1>4, <1>5, <2>1 DEF To
  <2>2. CASE ~Ahead(q, w)
    <3>1. To(q, w) = timer[q] /\ To(q, w)' = timer[q] - 1
      BY <1>2, <1>3, <1>5, <2>2 DEF To
    <3>. QED
      BY <1>0, <1>2, <1>4, <3>1
  <2>. QED
    BY <2>1, <2>2
<1>6. CASE ~InPass(q) /\ stage[q] # "down"
  <2>1. stage[q] = "wait" /\ ~due[q] /\ ~Ahead(q, w)
    BY <1>0, <1>1, <1>6 DEF InPass, Ahead
  <2>2. To(q, w) = timer[q] /\ To(q, w)' = IF due'[q] THEN 0 ELSE timer'[q]
    BY <1>2, <2>1 DEF To
  <2>3. To(q, w)' = timer[q] - 1
    <3>1. CASE timer[q] = 1
      <4>1. due'[q]
        BY <1>1, <2>1, <3>1
      <4>. QED
        BY <2>2, <3>1, <4>1
    <3>2. CASE timer[q] # 1
      <4>1. ~due'[q]
        BY <1>1, <2>1, <3>2
      <4>2. timer'[q] = timer[q] - 1
        BY <1>1, <2>1, <3>2
      <4>. QED
        BY <2>2, <4>1, <4>2
    <3>. QED
      BY <3>1, <3>2
  <2>. QED
    BY <1>0, <1>2, <1>4, <2>2, <2>3
<1>7. CASE stage[q] = "down"
  BY <1>2, <1>4, <1>7
<1>. QED
  BY <1>5, <1>6, <1>7

\* And it stays keen.
LEMMA UnitNearer ==
  ASSUME ReadsQuick, Placed, UnitPasses, NEW q \in Replicas, NEW w \in Workspaces, ages'[w] = ages[w] + 1,
         Keen(q, w)
  PROVE  Keen(q, w)'
<1>0. PassTypeOK /\ passed[q] \in Nat /\ ages[w] \in Nat /\ RefreshInterval \in Nat
  BY ReplicaValues, WorkspaceNumbers, Durations, Slots DEF Placed, ScheduleFits, NumbersOf
<1>1. /\ stage'[q] = stage[q] /\ turn'[q] = turn[q] /\ starting'[q] = starting[q]
      /\ passed'[q] = IF stage[q] = "read" /\ starting[q] THEN passed[q] + 1 ELSE passed[q]
  BY <1>0, UnitDoes
<1>2. Ahead(q, w)' = Ahead(q, w) /\ Reads(q, w)' = Reads(q, w)
  BY <1>1 DEF Ahead, InPass, Reads
<1>3. starting[q] => Overdue(q, w)'
  <2>1. SUFFICES ASSUME starting[q] PROVE Overdue(q, w)'
    OBVIOUS
  <2>2. stage[q] = "read" /\ Overdue(q, w)
    BY <2>1, PlacedUnit DEF Keen, Ahead
  <2>3. passed'[q] = passed[q] + 1
    BY <1>1, <2>1, <2>2
  <2>. QED
    BY <1>0, <2>2, <2>3 DEF Overdue
<1>. QED
  BY <1>1, <1>2, <1>3 DEF Keen

\* A unit of time.
LEMMA UnitOnTime ==
  ASSUME ReadsQuick, Placed, Placed', UnitPasses, NEW w \in Workspaces, OnTime(w)
  PROVE  OnTime(w)'
<1>0. /\ NumbersOf(w) /\ NumbersOf(w)' /\ RefreshInterval \in Nat /\ RefreshInterval >= 1 /\ Early \in Nat
      /\ LeaseFor \in Nat /\ LeaseFor >= 1 /\ SlipCost \in Nat /\ Early <= RefreshInterval - LeaseFor
      /\ PassTypeOK
  BY WorkspaceNumbers, NumbersNext, Durations, Slots, Costs, Quick DEF Placed, ScheduleFits
<1>1. ages'[w] = ages[w] + 1 /\ slips'[w] = slips[w] /\ stopped'[w] = stopped[w] /\ stage' = stage
  <2>1. ages[w] <= Oldest /\ ages[w] \in Nat /\ Oldest \in Nat
    BY <1>0, AgeCounts, Durations, Slots, Costs DEF NumbersOf, Oldest
  <2>. QED
    BY <1>0, <2>1, UnitDoes
<1>2. ASSUME NEW q \in Replicas
      PROVE  /\ stage[q] # "down" => To(q, w)' = To(q, w) - 1
             /\ Ahead(q, w) \/ stage[q] = "down" \/ To(q, w) >= 1
             /\ Steady(q, w) => Steady(q, w)'
             /\ Reads(q, w) => Reads(q, w)' /\ spent'[q] = spent[q] + 1
             /\ Keen(q, w) => Keen(q, w)'
             /\ To(q, w) \in Int /\ spent[q] \in Nat
  BY <1>1, UnitApart, UnitNearer, Distances
<1>3. ASSUME NEW q \in Replicas, NEW a \in Nat
      PROVE  /\ stage[q] # "down" /\ Waits(q, w, a) => Waits(q, w, a)'
             /\ ReadsIn(q, w, a) => ReadsIn(q, w, a)'
  <2>1. stage[q] # "down" /\ Waits(q, w, a) => Waits(q, w, a)'
    BY <1>0, <1>1, <1>2 DEF Waits, NumbersOf
  <2>2. ReadsIn(q, w, a) => ReadsIn(q, w, a)'
    BY <1>0, <1>1, <1>2 DEF ReadsIn, NumbersOf
  <2>. QED
    BY <2>1, <2>2
<1>4. ASSUME NEW q \in Replicas, Engaged(q, w) PROVE Engaged(q, w)'
  <2>1. stage[q] # "down" /\ RefreshInterval - 1 \in Nat
    BY <1>0, <1>4, EngagedIs
  <2>. QED
    BY <1>2, <1>3, <1>4, <2>1 DEF Engaged
<1>5. Attended(w)'
  <2>1. RefreshInterval - 1 \in Nat
    BY <1>0
  <2>. QED
    BY <1>1, <1>3, <1>4, <2>1 DEF OnTime, Attended
<1>6. Settled(w)'
  <2>1. CASE \E q \in Replicas : Engaged(q, w)
    BY <1>4, <2>1 DEF Settled
  <2>2. CASE ages[w] < RefreshInterval + (RefreshInterval - 1) + Cost(slips[w])
    BY <1>0, <1>1, <2>2 DEF Settled, NumbersOf
  <2>3. CASE /\ ~\E q \in Replicas : Engaged(q, w)
             /\ ~(ages[w] < RefreshInterval + (RefreshInterval - 1) + Cost(slips[w]))
    <3>1. PICK q \in Replicas : stage[q] # "down"
      BY <1>0, UnitDoes
    <3>2. Waits(q, w, RefreshInterval - 1)
      BY <2>3, <3>1 DEF OnTime, Attended
    <3>3. To(q, w) <= 0 /\ To(q, w) \in Int
      BY <1>0, <1>2, <2>3, <3>2 DEF Waits, NumbersOf
    <3>4. Ahead(q, w)
      BY <1>2, <3>1, <3>3
    <3>5. /\ spent[q] \in Nat /\ (~Reads(q, w) => To(q, w) >= 0 - Early)
          /\ Reads(q, w) => To(q, w) >= 0 - Early - spent[q]
      BY <3>4, Distances
    <3>6. Engaged(q, w)
      <4>1. CASE Reads(q, w)
        <5>1. ReadsIn(q, w, RefreshInterval - 1)
          BY <1>0, <3>2, <3>3, <3>5, <4>1 DEF Waits, ReadsIn, NumbersOf
        <5>. QED
          BY <5>1 DEF Engaged
      <4>2. CASE ~Reads(q, w)
        <5>1. ASSUME starting[q] PROVE Overdue(q, w)
          <6>1. passed[q] = RefreshInterval - timer[q] /\ To(q, w) = timer[q] - RefreshInterval
            BY <3>4, <5>1 DEF Placed, Places, Ahead, Elapsed, To
          <6>2. timer[q] \in 1 .. RefreshInterval
            BY <1>0, ReplicaValues
          <6>3. RefreshInterval - timer[q] <= Early
            BY <1>0, <3>5, <4>2, <6>1, <6>2
          <6>. QED
            BY <1>0, <2>3, <6>1, <6>2, <6>3 DEF Overdue, NumbersOf
        <5>. QED
          BY <3>2, <3>4, <4>2, <5>1 DEF Engaged, Keen
      <4>. QED
        BY <4>1, <4>2
    <3>. QED
      BY <2>3, <3>6
  <2>. QED
    BY <2>1, <2>2, <2>3
<1>7. Tight(w)'
  <2>1. ASSUME NEW q \in Replicas, OnSchedule(q, w) PROVE OnSchedule(q, w)'
    <3>1. 0 \in Nat
      OBVIOUS
    <3>. QED
      BY <1>2, <1>3, <2>1, <3>1 DEF OnSchedule, Steady
  <2>. QED
    BY <1>1, <2>1 DEF OnTime, Tight
<1>8. LeaseTold(w)'
  <2>1. SUFFICES ASSUME leases'[w].left > 0
                 PROVE  \/ \E q \in Replicas : LeaseRead(q, w)'
                        \/ LeaseDone(w)' \/ LeaseLost(w)'
                        \/ \E q \in Replicas : LeaseBypassed(q, w)'
    BY DEF LeaseTold
  <2>2. leases'[w].left = leases[w].left - 1 /\ leases[w].left > 0
    <3>1. leases[w].left <= 1 => leases'[w].left = 0
      BY <1>0, UnitDoes DEF Free
    <3>. QED
      BY <1>0, <2>1, <3>1, UnitDoes DEF NumbersOf
  <2>3. Allowed(w)' = Allowed(w)
    BY <1>1 DEF Allowed
  <2>4. ASSUME NEW q \in Replicas, LeaseRead(q, w) PROVE LeaseRead(q, w)'
    BY <1>0, <1>2, <2>2, <2>4 DEF LeaseRead, NumbersOf
  <2>5. CASE LeaseDone(w)
    <3>1. ASSUME NEW q \in Replicas, LeaseOutlived(q, w) PROVE LeaseOutlived(q, w)'
      <4>1. stage[q] # "down" /\ Steady(q, w)' /\ Waits(q, w, 0)'
        BY <1>2, <1>3, <3>1 DEF LeaseOutlived, Steady
      <4>2. To(q, w)' >= leases'[w].left
        BY <1>0, <1>2, <2>2, <3>1, <4>1 DEF LeaseOutlived, NumbersOf
      <4>. QED
        BY <4>1, <4>2 DEF LeaseOutlived
    <3>2. LeaseDone(w)'
      BY <1>0, <1>1, <2>2, <2>5, <3>1 DEF LeaseDone, NumbersOf
    <3>. QED
      BY <3>2
  <2>6. CASE LeaseLost(w)
    <3>1. LeaseLost(w)'
      BY <1>0, <1>1, <2>2, <2>3, <2>6 DEF LeaseLost, NumbersOf
    <3>. QED
      BY <3>1
  <2>7. ASSUME NEW q \in Replicas, LeaseBypassed(q, w) PROVE LeaseBypassed(q, w)'
    BY <1>0, <1>1, <1>2, <2>3, <2>7 DEF LeaseBypassed, NumbersOf
  <2>. QED
    BY <2>2, <2>4, <2>5, <2>6, <2>7 DEF OnTime, LeaseTold
<1>. QED
  BY <1>5, <1>6, <1>7, <1>8 DEF OnTime

\* A replica that leaves a workspace, for every other.
LEMMA ElsewhereOnTime ==
  ASSUME ReadsQuick, Placed, Placed', NEW r \in Replicas, (Past(r) /\ InPass(r)) \/ Opens(r),
         NEW w \in Workspaces, turn[r] # w, OnTime(w),
         ages'[w] = ages[w], leases'[w] = leases[w], slips'[w] = slips[w], stopped'[w] = stopped[w]
  PROVE  OnTime(w)'
<1>1. Only(r) /\ stage[r] # "down"
  BY DEF Past, Opens, InPass
<1>2. Keeps(r, w)
  BY PastAway, OpensAway
<1>3. Grows(w)
  <2>1. NumbersOf(w)
    BY WorkspaceNumbers DEF Placed
  <2>. QED
    BY <2>1 DEF Grows, NumbersOf
<1>4. \A q \in Replicas : Keeps(q, w) /\ (stage'[q] # "down" => stage[q] # "down")
  BY <1>1, <1>2, OthersKeep
<1>. QED
  BY <1>3, <1>4, KeptOnTime

\* Who starts, stops, receives a tick or cannot list.
LEMMA RunOnTime ==
  ASSUME ReadsQuick, Placed, Placed', NEW w \in Workspaces, OnTime(w), NEW r \in Replicas,
         Start(r) \/ Stop(r) \/ Received(r) \/ ListFails(r)
  PROVE  OnTime(w)'
<1>0. /\ PassTypeOK /\ Fits(r) /\ Places(r) /\ NumbersOf(w) /\ w \in 1 .. N /\ N \in Nat
      /\ timer[r] \in 1 .. RefreshInterval /\ RefreshInterval \in Nat /\ due[r] \in BOOLEAN
  BY WorkspaceNumbers, ReplicaValues, Durations DEF Placed, ScheduleFits, Workspaces
<1>1. 1 <= w
  BY <1>0
<1>2. CASE Start(r)
  <2>1. /\ Only(r) /\ stage[r] = "down" /\ stage'[r] = "pass" /\ turn'[r] = 1 /\ timer' = timer
        /\ UNCHANGED <<leases, ages, slips, stopped>>
    BY <1>0, <1>2, StartDoes
  <2>2. timer[r] = RefreshInterval
    BY <1>0, <2>1 DEF Fits
  <2>3. Ahead(r, w)'
    BY <1>1, <2>1 DEF Ahead, InPass
  <2>4. To(r, w)' = 0
    BY <1>0, <2>1, <2>2, <2>3 DEF To
  <2>5. Grows(w)
    BY <1>0, <2>1 DEF Grows, NumbersOf
  <2>. QED
    BY <2>1, <2>4, <2>5, OthersKeep, StartOnTime
<1>3. CASE Stop(r)
  <2>1. /\ Only(r) /\ stage'[r] = "down" /\ stopped'[w] /\ UNCHANGED <<leases, ages>>
        /\ slips'[w] = IF InPass(r) /\ turn[r] <= w THEN slips[w] + 1 ELSE slips[w]
    BY <1>0, <1>3, StopDoes
  <2>2. \A q \in Replicas : q # r => Keeps(q, w) /\ stage'[q] = stage[q]
    BY <2>1, OthersKeep
  <2>3. CASE Ahead(r, w)
    <3>1. slips'[w] = slips[w] + 1
      BY <2>1, <2>3 DEF Ahead
    <3>. QED
      BY <2>1, <2>2, <2>3, <3>1, SlipOnTime
  <2>4. CASE ~Ahead(r, w)
    <3>1. slips'[w] = slips[w]
      BY <2>1, <2>4 DEF Ahead
    <3>2. Grows(w)
      BY <1>0, <2>1, <3>1 DEF Grows, NumbersOf
    <3>. QED
      BY <2>1, <2>2, <2>4, <3>2, StoppedOnTime
  <2>. QED
    BY <2>3, <2>4
<1>4. CASE Received(r)
  <2>1. /\ Only(r) /\ stage[r] = "wait" /\ due[r] /\ stage'[r] = "pass" /\ turn'[r] = 1
        /\ ~starting'[r] /\ ~due'[r] /\ timer' = timer /\ UNCHANGED <<leases, ages, slips, stopped>>
    BY <1>0, <1>4, ReceivedDoes
  <2>2. timer[r] = RefreshInterval
    BY <1>0, <2>1 DEF Places
  <2>3. Ahead(r, w)' /\ ~Ahead(r, w) /\ ~Reads(r, w) /\ Steady(r, w)'
    BY <1>1, <2>1 DEF Ahead, InPass, Reads, Steady
  <2>4. To(r, w)' = 0 /\ To(r, w) = 0
    BY <1>0, <2>1, <2>2, <2>3 DEF To
  <2>5. Keeps(r, w)
    BY <2>3, <2>4 DEF Keeps, Keen
  <2>6. Grows(w)
    BY <1>0, <2>1 DEF Grows, NumbersOf
  <2>7. \A q \in Replicas : Keeps(q, w) /\ (stage'[q] # "down" => stage[q] # "down")
    BY <2>1, <2>5, OthersKeep
  <2>. QED
    BY <2>1, <2>6, <2>7, KeptOnTime
<1>5. CASE ListFails(r)
  <2>1. /\ Only(r) /\ stage[r] = "pass" /\ turn[r] = 1 /\ stage'[r] = "wait" /\ ~starting'[r]
        /\ slips'[w] = slips[w] + 1 /\ UNCHANGED <<timer, due, leases, ages, stopped>>
    BY <1>0, <1>5, ListFailsDoes
  <2>2. Ahead(r, w) /\ ~Ahead(r, w)' /\ Steady(r, w)' /\ ~due[r]
    BY <1>0, <1>1, <2>1 DEF Ahead, InPass, Steady, Places
  <2>3. To(r, w)' = To(r, w) + RefreshInterval
    BY <1>0, <2>1, <2>2 DEF To
  <2>4. \A q \in Replicas : q # r => Keeps(q, w) /\ stage'[q] = stage[q]
    BY <2>1, OthersKeep
  <2>. QED
    BY <2>1, <2>2, <2>3, <2>4, SlipOnTime
<1>. QED
  BY <1>2, <1>3, <1>4, <1>5

\* What a pass at the start finds not due, was read in full an interval before it.
LEMMA NotOverdue ==
  ASSUME Placed, Dated, NEW w \in Workspaces, NEW r \in Replicas, ~DueAtStart(r, w)
  PROVE  ~Overdue(r, w)
<1>1. /\ passed[r] \in 0 .. PassTime /\ PassTime \in Nat /\ RefreshInterval \in Nat
      /\ old[w] \in Nat /\ ages[w] \in Nat
  BY Durations, Slots, Costs DEF Placed, ScheduleFits, PassTypeOK, Dated, SnapshotTypeOK, Ancient, Oldest
<1>2. old[w] = Ancient \/ ages[w] <= old[w]
  BY DEF Dated, DatedAs
<1>. QED
  BY <1>1, <1>2 DEF DueAtStart, Overdue, Ancient

\* Who is ready for the workspace is keen on it, or reads it early: what a lookup wrote
\* back is older than the last full read.
LEMMA ReadyKeen ==
  ASSUME Placed, NEW w \in Workspaces, NEW r \in Replicas, Ready(r), turn[r] = w
  PROVE  /\ Ahead(r, w) /\ stage[r] = "pass"
         /\ Keen(r, w) \/ (starting[r] /\ ~Overdue(r, w))
<1>1. w <= w /\ stage[r] = "pass"
  BY Durations DEF Ready, Workspaces
<1>. QED
  BY <1>1 DEF Keen, Ahead, InPass, Reads

\* A read begins early.
LEMMA EarlyOnTime ==
  ASSUME ReadsQuick, Placed, Placed', NEW w \in Workspaces, OnTime(w),
         ages'[w] = ages[w], slips'[w] = slips[w], stopped'[w] = stopped[w],
         NEW r \in Replicas, Reads(r, w)', spent'[r] = 0,
         leases'[w] = leases[w] \/ (leases[w].left = 0 /\ leases'[w].left = LeaseFor),
         \A q \in Replicas : Keeps(q, w) /\ (stage'[q] # "down" => stage[q] # "down")
  PROVE  OnTime(w)'
<1>0. NumbersOf(w) /\ NumbersOf(w)' /\ RefreshInterval \in Nat /\ RefreshInterval - 1 \in Int /\ LeaseFor \in Nat
  BY WorkspaceNumbers, NumbersNext, Durations DEF Placed
<1>1. CASE leases'[w] = leases[w]
  <2>1. Grows(w)
    BY <1>0, <1>1 DEF Grows, NumbersOf
  <2>. QED
    BY <2>1, KeptOnTime
<1>2. CASE leases'[w].left = LeaseFor
  <2>1. ASSUME NEW q \in Replicas, NEW a \in Int
        PROVE  /\ Waits(q, w, a) => Waits(q, w, a)'
               /\ ReadsIn(q, w, a) => ReadsIn(q, w, a)'
    BY DEF Waits, ReadsIn, Keeps
  <2>2. ASSUME NEW q \in Replicas
        PROVE  (Engaged(q, w) => Engaged(q, w)') /\ (OnSchedule(q, w) => OnSchedule(q, w)')
    BY <1>0, <2>1 DEF Engaged, OnSchedule, Keeps
  <2>3. Attended(w)'
    BY <1>0, <2>1, <2>2 DEF OnTime, Attended
  <2>4. Settled(w)'
    BY <2>2 DEF OnTime, Settled
  <2>5. Tight(w)'
    BY <2>2 DEF OnTime, Tight
  <2>6. LeaseRead(r, w)'
    BY <1>0, <1>2 DEF LeaseRead
  <2>. QED
    BY <2>3, <2>4, <2>5, <2>6 DEF OnTime, LeaseTold
<1>. QED
  BY <1>1, <1>2

\* Who passes over a workspace, or is done with it.
LEMMA PastOnTime ==
  ASSUME ReadsQuick, Placed, Placed', Dated, NEW w \in Workspaces, OnTime(w), NEW r \in Replicas,
         NotDue(r) \/ Refused(r) \/ ReadDone(r) \/ ReadFails(r)
  PROVE  OnTime(w)'
<1>0. PassTypeOK /\ NumbersOf(w) /\ Holds(r)
  BY WorkspaceNumbers DEF Placed, ScheduleFits
<1>1. Past(r) /\ InPass(r) /\ Only(r)
  BY <1>0, NotDueDoes, RefusedDoes, ReadDoneDoes, ReadFailsDoes DEF InPass, Past
<1>2. CASE turn[r] # w
  <2>1. ages'[w] = ages[w] /\ leases'[w] = leases[w] /\ slips'[w] = slips[w] /\ stopped'[w] = stopped[w]
    BY <1>0, <1>2, NotDueDoes, RefusedDoes, ReadDoneDoes, ReadFailsDoes
  <2>. QED
    BY <1>1, <1>2, <2>1, ElsewhereOnTime
<1>3. CASE turn[r] = w
  <2>1. Ahead(r, w) /\ To(r, w)' = To(r, w) + RefreshInterval /\ Steady(r, w)'
    BY <1>1, <1>3, PastHere
  <2>2. ages'[w] = ages[w] => \A q \in Replicas : q # r => Keeps(q, w) /\ stage'[q] = stage[q]
    BY <1>1, OthersKeep
  <2>3. CASE NotDue(r)
    <3>1. /\ stage[r] = "pass" /\ starting[r] /\ UNCHANGED <<leases, ages, stopped>>
          /\ (slips' = slips /\ ~Overdue(r, w)) \/ slips'[w] = slips[w] + 1
      BY <1>0, <1>3, <2>3, NotDueDoes, NotOverdue
    <3>2. CASE slips'[w] = slips[w] + 1
      BY <2>1, <2>2, <3>1, <3>2, SlipOnTime
    <3>3. CASE slips' = slips /\ ~Overdue(r, w)
      <4>1. Grows(w)
        BY <1>0, <3>1, <3>3 DEF Grows, NumbersOf
      <4>. QED
        BY <1>3, <2>1, <2>2, <3>1, <3>3, <4>1, NotDueOnTime
    <3>. QED
      BY <3>1, <3>2, <3>3
  <2>4. CASE Refused(r)
    <3>1. Ready(r) /\ leases[w].left > 0 /\ UNCHANGED <<leases, ages, slips, stopped>>
      BY <1>0, <1>3, <2>4, RefusedDoes
    <3>2. Grows(w)
      BY <1>0, <3>1 DEF Grows, NumbersOf
    <3>3. stage[r] = "pass" /\ (Keen(r, w) \/ (starting[r] /\ ~Overdue(r, w)))
      BY <1>3, <3>1, ReadyKeen
    <3>4. CASE Keen(r, w)
      BY <2>1, <2>2, <3>1, <3>2, <3>4, RefusedOnTime
    <3>5. CASE starting[r] /\ ~Overdue(r, w)
      BY <1>3, <2>1, <2>2, <3>1, <3>2, <3>3, <3>5, NotDueOnTime
    <3>. QED
      BY <3>3, <3>4, <3>5
  <2>5. CASE ReadDone(r)
    <3>1. /\ stage[r] = "read" /\ ages'[w] = 0 /\ leases' = leases
          /\ mine[r] \/ (slips'[w] = slips[w] /\ stopped'[w] = stopped[w])
      BY <1>0, <1>3, <2>5, ReadDoneDoes
    <3>2. Reads(r, w)
      BY <1>3, <3>1 DEF Reads
    <3>3. ASSUME NEW q \in Replicas, q # r
          PROVE  /\ To(q, w)' = To(q, w) /\ stage'[q] = stage[q]
                 /\ Steady(q, w) => Steady(q, w)'
                 /\ Reads(q, w) => Reads(q, w)' /\ spent'[q] = spent[q]
      BY <1>1, <3>3 DEF Only, To, Ahead, InPass, Steady, Reads
    <3>. QED
      BY <1>0, <2>1, <3>1, <3>2, <3>3, DoneOnTime
  <2>6. CASE ReadFails(r)
    <3>1. /\ slips'[w] = slips[w] + 1 /\ UNCHANGED <<ages, stopped>>
          /\ leases' = leases \/ leases'[w] = Free
      BY <1>0, <1>3, <2>6, ReadFailsDoes
    <3>2. leases'[w].left = leases[w].left \/ leases'[w].left = 0
      BY <3>1 DEF Free
    <3>. QED
      BY <2>1, <2>2, <3>1, <3>2, SlipOnTime
  <2>. QED
    BY <2>3, <2>4, <2>5, <2>6
<1>. QED
  BY <1>2, <1>3

\* Who begins a read.
LEMMA OpenOnTime ==
  ASSUME ReadsQuick, Placed, Placed', NEW w \in Workspaces, OnTime(w), NEW r \in Replicas,
         Taken(r) \/ LockFails(r)
  PROVE  OnTime(w)'
<1>0. PassTypeOK /\ Fits(r)
  BY DEF Placed, ScheduleFits
<1>1. Opens(r)
  BY <1>0, TakenDoes, LockFailsDoes
<1>2. /\ Only(r) /\ Ready(r) /\ stage[r] = "pass" /\ stage'[r] = "read"
      /\ UNCHANGED <<turn, starting, spent, ages, slips, stopped>>
      /\ w # turn[r] => leases'[w] = leases[w]
  BY <1>1 DEF Opens
<1>3. CASE turn[r] # w
  BY <1>1, <1>2, <1>3, ElsewhereOnTime
<1>4. CASE turn[r] = w
  <2>1. Reads(r, w)' /\ spent'[r] = 0 /\ (Steady(r, w) => Steady(r, w)')
    BY <1>0, <1>2, <1>4 DEF Reads, Steady, Fits
  <2>2. leases'[w] = leases[w] \/ (leases[w].left = 0 /\ leases'[w].left = LeaseFor)
    <3>1. \/ leases'[w] = leases[w]
          \/ leases[w].left = 0 /\ (leases'[w] = [by |-> r, left |-> LeaseFor]
                                    \/ leases'[w] = [by |-> "lost", left |-> LeaseFor])
      BY <1>0, <1>4, TakenDoes, LockFailsDoes
    <3>. QED
      BY <3>1
  <2>3. \A q \in Replicas : q # r => Keeps(q, w) /\ stage'[q] = stage[q]
    BY <1>2, OthersKeep
  <2>4. Ahead(r, w) /\ (Keen(r, w) \/ (starting[r] /\ ~Overdue(r, w)))
    BY <1>2, <1>4, ReadyKeen
  <2>5. CASE Keen(r, w)
    BY <1>2, <2>1, <2>2, <2>3, <2>5, OpensOnTime
  <2>6. CASE starting[r] /\ ~Overdue(r, w)
    <3>1. ~Reads(r, w) /\ ~Keen(r, w)
      BY <1>2, <2>6 DEF Reads, Keen
    <3>2. To(r, w)' = To(r, w)
      BY <1>1 DEF Opens, To, Ahead, InPass
    <3>3. Keeps(r, w)
      BY <2>1, <3>1, <3>2 DEF Keeps
    <3>. QED
      BY <1>2, <2>1, <2>2, <2>3, <3>3, EarlyOnTime
  <2>. QED
    BY <2>4, <2>5, <2>6
<1>. QED
  BY <1>3, <1>4

\* The schedule, as every step leaves it.
AllOnTime == Placed /\ Dated /\ \A w \in Workspaces : OnTime(w)

\* Replicas at any phase of their interval are on time.
LEMMA AllOnTimeInit == ScheduleInit => AllOnTime
<1>. SUFFICES ASSUME ScheduleInit PROVE AllOnTime
  OBVIOUS
<1>0. RefreshInterval \in Nat /\ RefreshInterval >= 1 /\ Replicas # {} /\ Cost(0) = 0
  BY Durations, Costs, RefresherAssumption
<1>1. ASSUME NEW r \in Replicas
      PROVE  /\ stage[r] = "wait" /\ ~starting[r] /\ ~due[r] /\ ~mine[r]
             /\ timer[r] \in 1 .. RefreshInterval
  BY DEF ScheduleInit
<1>2. Placed
  <2>1. ASSUME NEW r \in Replicas PROVE Places(r) /\ Holds(r)
    BY <1>1 DEF Places, Holds, InPass
  <2>. QED
    BY <2>1, ScheduleFitsInit DEF Placed
<1>3. ASSUME NEW w \in Workspaces PROVE OnTime(w)
  <2>0. ages[w] = 0 /\ slips[w] = 0 /\ leases[w].left = 0
    BY DEF ScheduleInit, Free
  <2>1. ASSUME NEW r \in Replicas
        PROVE  Waits(r, w, 0) /\ Waits(r, w, RefreshInterval - 1) /\ Steady(r, w)
    <3>1. To(r, w) = timer[r]
      BY <1>1 DEF To, Ahead, InPass
    <3>2. Waits(r, w, 0) /\ Waits(r, w, RefreshInterval - 1)
      BY <1>0, <1>1, <2>0, <3>1 DEF Waits
    <3>. QED
      BY <1>1, <3>2 DEF Steady
  <2>2. Attended(w) /\ Settled(w)
    BY <1>0, <2>0, <2>1 DEF Attended, Settled
  <2>3. Tight(w)
    BY <1>0, <2>1 DEF Tight, OnSchedule
  <2>4. LeaseTold(w)
    BY <2>0 DEF LeaseTold
  <2>. QED
    BY <2>2, <2>3, <2>4 DEF OnTime
<1>. QED
  BY <1>2, <1>3, DatedInit DEF AllOnTime

\* A step that changes nothing.
LEMMA OnTimeStutter ==
  ASSUME ReadsQuick, Placed, Placed', NEW w \in Workspaces, OnTime(w),
         UNCHANGED <<stage, turn, starting, timer, due, spent, passed, mine>>,
         ages'[w] = ages[w], leases'[w] = leases[w], slips'[w] = slips[w], stopped'[w] = stopped[w]
  PROVE  OnTime(w)'
<1>1. Grows(w)
  <2>1. NumbersOf(w)
    BY WorkspaceNumbers DEF Placed
  <2>. QED
    BY <2>1 DEF Grows, NumbersOf
<1>2. ASSUME NEW q \in Replicas PROVE Keeps(q, w)
  BY DEF Keeps, To, Ahead, InPass, Steady, Reads, Keen, Overdue
<1>. QED
  BY <1>1, <1>2, KeptOnTime

\* Every step leaves every workspace on time.
LEMMA AllOnTimeStep ==
  ASSUME ReadsQuick, AllOnTime, [ScheduleNext]_scheduleVars
  PROVE  AllOnTime'
<1>1. Placed /\ Placed' /\ Dated /\ Dated'
  BY PlacedStep, DatedStep DEF AllOnTime, Placed
<1>2. ASSUME NEW w \in Workspaces PROVE OnTime(w)'
  <2>0. OnTime(w)
    BY DEF AllOnTime
  <2>1. CASE UNCHANGED scheduleVars
    BY <1>1, <2>0, <2>1, OnTimeStutter DEF scheduleVars
  <2>2. CASE UnitPasses
    BY <1>1, <2>0, <2>2, UnitOnTime
  <2>3. ASSUME NEW u \in Workspaces, Demanded(u) PROVE OnTime(w)'
    <3>1. CASE u = w
      BY <1>1, <2>0, <2>3, <3>1, DemandedOnTime
    <3>2. CASE u # w
      <4>1. /\ UNCHANGED <<stage, turn, starting, timer, due, spent, passed, mine, leases, slips, stopped>>
            /\ ages'[w] = ages[w]
        BY <1>1, <2>3, <3>2 DEF Demanded, Placed, ScheduleFits, PassTypeOK, snapshotVars, Stored
      <4>. QED
        BY <1>1, <2>0, <4>1, OnTimeStutter
    <3>. QED
      BY <3>1, <3>2
  <2>4. ASSUME NEW r \in Replicas, Start(r) \/ Stop(r) \/ ListFails(r) \/ ReadFails(r) \/ Step(r)
        PROVE  OnTime(w)'
    BY <1>1, <2>0, <2>4, RunOnTime, PastOnTime, OpenOnTime DEF Step
  <2>5. ASSUME NEW u \in Workspaces, Lookup(u) \/ LookupDone(u) PROVE OnTime(w)'
    <3>1. UNCHANGED <<stage, turn, starting, timer, due, spent, passed, mine, leases, ages, slips, stopped>>
      BY <2>5 DEF Lookup, LookupDone
    <3>. QED
      BY <1>1, <2>0, <3>1, OnTimeStutter
  <2>. QED
    BY <2>1, <2>2, <2>3, <2>4, <2>5 DEF ScheduleNext
<1>. QED
  BY <1>1, <1>2 DEF AllOnTime

\* Every workspace is read in full, and the read stored, within an interval and a pass of
\* the last, whichever replica reads it and whatever lookups write back, as long as reads
\* are as quick as ReadsQuick says, which nothing in the code enforces.  Processes that end add no more than an interval, each pass that fails or ends with its
\* process no more than the lease, an interval and the reads before (catchUp, refreshAll,
\* refreshOne), however many replicas, workspaces and failures there are.
THEOREM StaysFresh == ASSUME ReadsQuick PROVE ScheduleSpec => []FreshBound
<1>1. AllOnTime /\ [ScheduleNext]_scheduleVars => AllOnTime'
  BY AllOnTimeStep
<1>2. AllOnTime => FreshBound
  BY OnTimeFresh DEF AllOnTime, FreshBound
<1>. QED
  BY <1>1, <1>2, AllOnTimeInit, PTL DEF ScheduleSpec

-----------------------------------------------------------------------------
(* A replica's own lease.                                                  *)

\* A lease that a replica took, and where its process is since: it has ended, the read
\* is under way, it has started anew, or it comes again when the lease has expired.
OwnLease(r, w) ==
  leases[w].by = r =>
    /\ leases[w].left > 0
    /\ \/ stage[r] = "down"
       \/ mine[r] /\ turn[r] = w
       \/ starting[r] /\ Ahead(r, w) /\ (Reads(r, w) => leases[w].left <= LeaseFor - spent[r])
       \/ ~Ahead(r, w) /\ leases[w].left <= To(r, w)

OwnLeases == Placed /\ \A r \in Replicas, w \in Workspaces : OwnLease(r, w)

\* A replica that stands as before, towards a lease that is as before or another's.
LEMMA OwnKept ==
  ASSUME NEW r \in Replicas, NEW w \in Workspaces, OwnLease(r, w),
         leases'[w] = leases[w] \/ leases'[w].by # r,
         stage[r] = "down" => stage'[r] = "down",
         mine[r] /\ turn[r] = w => mine'[r] /\ turn'[r] = w,
         Ahead(r, w)' = Ahead(r, w), To(r, w)' = To(r, w),
         starting[r] /\ Ahead(r, w) => starting'[r] /\ (Reads(r, w)' => Reads(r, w) /\ spent'[r] = spent[r])
  PROVE  OwnLease(r, w)'
BY DEF OwnLease

\* Another replica moves.
LEMMA OwnOthers ==
  ASSUME NEW q \in Replicas, Only(q), NEW r \in Replicas, r # q, NEW w \in Workspaces, OwnLease(r, w),
         leases'[w] = leases[w] \/ leases'[w].by # r
  PROVE  OwnLease(r, w)'
<1>1. /\ stage'[r] = stage[r] /\ turn'[r] = turn[r] /\ starting'[r] = starting[r] /\ mine'[r] = mine[r]
      /\ timer'[r] = timer[r] /\ due'[r] = due[r] /\ spent'[r] = spent[r]
  BY DEF Only
<1>2. Ahead(r, w)' = Ahead(r, w) /\ Reads(r, w)' = Reads(r, w)
  BY <1>1 DEF Ahead, Reads, InPass
<1>3. To(r, w)' = To(r, w)
  BY <1>1, <1>2 DEF To
<1>. QED
  BY <1>1, <1>2, <1>3, OwnKept

\* A replica leaves a workspace: it comes again when the lease of its read has expired.
LEMMA OwnLeft ==
  ASSUME ReadsQuick, Placed, NEW r \in Replicas, NEW w \in Workspaces, OwnLease(r, w), Ahead(r, w),
         leases'[w] = leases[w] \/ leases'[w].by # r,
         ~Ahead(r, w)', To(r, w)' = To(r, w) + RefreshInterval
  PROVE  OwnLease(r, w)'
<1>0. /\ To(r, w) \in Int /\ spent[r] \in Nat /\ (~Reads(r, w) => To(r, w) >= 0 - Early)
      /\ (Reads(r, w) => To(r, w) >= 0 - Early - spent[r])
      /\ Early \in Nat /\ LeaseFor \in Nat /\ RefreshInterval \in Nat /\ Early <= RefreshInterval - LeaseFor
      /\ leases[w].left \in Nat /\ leases[w].left <= LeaseFor
  BY Distances, Slots, Durations, Quick, WorkspaceNumbers DEF Placed, NumbersOf
<1>1. SUFFICES ASSUME leases'[w] = leases[w], leases[w].by = r
               PROVE  leases[w].left > 0 /\ leases[w].left <= To(r, w)'
  BY DEF OwnLease
<1>2. leases[w].left > 0 /\ (Reads(r, w) => leases[w].left <= LeaseFor - spent[r])
  <2>1. stage[r] # "down"
    BY DEF Ahead, InPass
  <2>2. CASE mine[r] /\ turn[r] = w
    BY <1>0, <1>1, <2>2 DEF OwnLease, Placed, Holds
  <2>3. CASE ~(mine[r] /\ turn[r] = w)
    BY <1>1, <2>1, <2>3 DEF OwnLease
  <2>. QED
    BY <2>2, <2>3
<1>. QED
  BY <1>0, <1>2

\* The steps of the replica itself.
LEMMA OwnActs ==
  ASSUME ReadsQuick, Placed, NEW r \in Replicas, NEW w \in Workspaces, OwnLease(r, w),
         Start(r) \/ Stop(r) \/ ListFails(r) \/ ReadFails(r) \/ Step(r)
  PROVE  OwnLease(r, w)'
<1>0. /\ PassTypeOK /\ Fits(r) /\ Places(r) /\ w \in 1 .. N /\ N \in Nat /\ turn[r] \in 1 .. N
      /\ timer[r] \in 1 .. RefreshInterval /\ RefreshInterval \in Nat /\ starting[r] \in BOOLEAN
  BY ReplicaValues, Durations DEF Placed, ScheduleFits, Workspaces
<1>1. 1 <= w /\ leases[w].left \in Nat /\ leases[w].left <= LeaseFor
  BY <1>0, WorkspaceNumbers DEF Placed, NumbersOf
<1>2. CASE Start(r)
  <2>1. Only(r) /\ stage[r] = "down" /\ stage'[r] = "pass" /\ turn'[r] = 1 /\ starting'[r] /\ leases' = leases
    BY <1>0, <1>2, StartDoes
  <2>2. Ahead(r, w)' /\ ~Reads(r, w)'
    BY <1>1, <2>1 DEF Ahead, InPass, Reads
  <2>. QED
    BY <2>1, <2>2 DEF OwnLease
<1>3. CASE Stop(r)
  <2>1. stage'[r] = "down" /\ leases' = leases
    BY <1>0, <1>3, StopDoes
  <2>. QED
    BY <2>1 DEF OwnLease
<1>4. CASE ListFails(r)
  <2>1. /\ stage[r] = "pass" /\ turn[r] = 1 /\ stage'[r] = "wait" /\ UNCHANGED <<leases, timer, due>>
    BY <1>0, <1>4, ListFailsDoes
  <2>2. Ahead(r, w) /\ ~Ahead(r, w)' /\ ~due[r]
    BY <1>0, <1>1, <2>1 DEF Ahead, InPass, Places
  <2>3. To(r, w)' = To(r, w) + RefreshInterval
    BY <1>0, <2>1, <2>2 DEF To
  <2>. QED
    BY <2>1, <2>2, <2>3, OwnLeft
<1>5. CASE Received(r)
  <2>1. stage[r] = "wait" /\ due[r] /\ leases' = leases
    BY <1>0, <1>5, ReceivedDoes
  <2>2. ~Ahead(r, w) /\ ~starting[r] /\ ~mine[r] /\ To(r, w) = 0
    BY <1>0, <2>1 DEF Ahead, InPass, Fits, To
  <2>3. leases[w].by # r
    BY <1>1, <2>1, <2>2 DEF OwnLease
  <2>. QED
    BY <2>1, <2>3 DEF OwnLease
<1>6. CASE NotDue(r) \/ Refused(r) \/ ReadDone(r) \/ ReadFails(r)
  <2>1. Past(r) /\ InPass(r)
    BY <1>0, <1>6, NotDueDoes, RefusedDoes, ReadDoneDoes, ReadFailsDoes DEF InPass
  <2>2. leases'[w] = leases[w] \/ (leases'[w] = Free /\ turn[r] = w)
    BY <1>0, <1>6, NotDueDoes, RefusedDoes, ReadDoneDoes, ReadFailsDoes
  <2>3. leases'[w] = leases[w] \/ leases'[w].by # r
    BY <2>2, RefresherAssumption DEF Free
  <2>4. CASE turn[r] = w
    <3>1. Ahead(r, w) /\ To(r, w)' = To(r, w) + RefreshInterval
      BY <2>1, <2>4, PastHere
    <3>2. ~Ahead(r, w)'
      <4>1. ~(w + 1 <= w)
        BY <1>0
      <4>. QED
        BY <2>1, <2>4, <4>1 DEF Ahead, InPass, Past
    <3>. QED
      BY <2>3, <3>1, <3>2, OwnLeft
  <2>5. CASE turn[r] < w
    <3>1. turn[r] # N /\ turn[r] # w /\ turn[r] + 1 <= w /\ turn[r] <= w
      BY <1>0, <2>5
    <3>2. /\ stage'[r] = "pass" /\ turn'[r] = turn[r] + 1 /\ starting'[r] = starting[r]
          /\ timer'[r] = timer[r] /\ stage[r] # "down"
      BY <2>1, <3>1 DEF Past, InPass
    <3>3. Ahead(r, w) /\ Ahead(r, w)' /\ ~Reads(r, w)'
      BY <2>1, <3>1, <3>2 DEF Ahead, InPass, Reads
    <3>4. To(r, w)' = To(r, w)
      BY <3>2, <3>3 DEF To
    <3>. QED
      BY <2>3, <3>1, <3>2, <3>3, <3>4, OwnKept
  <2>6. CASE w < turn[r]
    <3>1. ~(turn[r] <= w) /\ ~(turn[r] + 1 <= w) /\ turn[r] # w
      BY <1>0, <2>6
    <3>2. ~Ahead(r, w) /\ ~Ahead(r, w)' /\ stage[r] # "down"
      BY <2>1, <3>1 DEF Ahead, InPass, Past
    <3>3. To(r, w)' = To(r, w)
      BY <2>1, <3>2 DEF To, Past
    <3>4. Ahead(r, w)' = Ahead(r, w)
      BY <3>2 DEF Ahead
    <3>. QED
      BY <2>3, <3>1, <3>2, <3>3, <3>4, OwnKept
  <2>. QED
    BY <1>0, <2>4, <2>5, <2>6
<1>7. CASE Taken(r) \/ LockFails(r)
  <2>1. Opens(r)
    BY <1>0, <1>7, TakenDoes, LockFailsDoes
  <2>2. /\ stage[r] = "pass" /\ stage'[r] = "read" /\ UNCHANGED <<turn, starting, timer, due, spent>>
        /\ w # turn[r] => leases'[w] = leases[w]
    BY <2>1 DEF Opens
  <2>3. Ahead(r, w)' = Ahead(r, w) /\ To(r, w)' = To(r, w) /\ ~mine[r] /\ spent[r] = 0
    BY <1>0, <2>2 DEF Ahead, InPass, To, Fits
  <2>4. CASE turn[r] # w
    <3>1. ~Reads(r, w)'
      BY <2>2, <2>4 DEF Reads
    <3>. QED
      BY <2>2, <2>3, <2>4, <3>1, OwnKept
  <2>5. CASE turn[r] = w /\ Taken(r)
    <3>1. mine'[r] /\ leases'[w] = [by |-> r, left |-> LeaseFor]
      BY <1>0, <2>5, TakenDoes
    <3>2. leases'[w].left > 0
      BY <3>1, Durations
    <3>. QED
      BY <2>2, <2>5, <3>1, <3>2 DEF OwnLease
  <2>6. CASE turn[r] = w /\ LockFails(r)
    <3>1. leases'[w] = leases[w] \/ leases'[w] = [by |-> "lost", left |-> LeaseFor]
      BY <1>0, <2>6, LockFailsDoes
    <3>2. leases'[w] = leases[w] \/ leases'[w].by # r
      BY <3>1, RefresherAssumption
    <3>3. leases[w].left <= LeaseFor - spent'[r]
      BY <1>1, <2>2, <2>3, Durations
    <3>. QED
      BY <2>2, <2>3, <3>2, <3>3 DEF OwnLease
  <2>. QED
    BY <1>7, <2>4, <2>5, <2>6
<1>. QED
  BY <1>2, <1>3, <1>4, <1>5, <1>6, <1>7 DEF Step

\* A unit of time.
LEMMA OwnUnit ==
  ASSUME ReadsQuick, Placed, UnitPasses, NEW r \in Replicas, NEW w \in Workspaces, OwnLease(r, w)
  PROVE  OwnLease(r, w)'
<1>0. /\ PassTypeOK /\ leases[w].left \in Nat /\ LeaseFor \in Nat /\ To(r, w) \in Int /\ spent[r] \in Nat
      /\ RefreshInterval \in Nat /\ timer[r] \in 1 .. RefreshInterval
  BY WorkspaceNumbers, Durations, Distances, ReplicaValues DEF Placed, ScheduleFits, NumbersOf
<1>1. SUFFICES ASSUME leases'[w].by = r PROVE OwnLease(r, w)'
  BY DEF OwnLease
<1>2. leases[w].left > 1 /\ leases[w].by = r /\ leases'[w].left = leases[w].left - 1
  <2>1. leases'[w] # Free
    BY <1>1, RefresherAssumption DEF Free
  <2>. QED
    BY <1>0, <1>1, <2>1, UnitDoes
<1>3. /\ stage'[r] = stage[r] /\ turn'[r] = turn[r] /\ starting'[r] = starting[r] /\ mine'[r] = mine[r]
      /\ stage[r] = "read" => spent'[r] = spent[r] + 1
  BY <1>0, UnitDoes
<1>4. Ahead(r, w)' = Ahead(r, w) /\ Reads(r, w)' = Reads(r, w)
  BY <1>3 DEF Ahead, InPass, Reads
<1>5. stage[r] # "down" => To(r, w)' = To(r, w) - 1
  BY UnitApart
<1>6. Reads(r, w) => spent'[r] = spent[r] + 1
  BY <1>3 DEF Reads
<1>7. Reads(r, w) /\ leases[w].left <= LeaseFor - spent[r] => leases'[w].left <= LeaseFor - spent'[r]
  BY <1>0, <1>2, <1>6
<1>8. stage[r] # "down" /\ leases[w].left <= To(r, w) => leases'[w].left <= To(r, w)'
  BY <1>0, <1>2, <1>5
<1>9. leases'[w].left > 0
  BY <1>0, <1>2
<1>. QED
  BY <1>2, <1>3, <1>4, <1>7, <1>8, <1>9 DEF OwnLease

\* Every step leaves every lease to expire before its replica comes again.
LEMMA OwnLeasesStep ==
  ASSUME ReadsQuick, OwnLeases, [ScheduleNext]_scheduleVars
  PROVE  OwnLeases'
<1>1. Placed /\ Placed' /\ PassTypeOK
  BY PlacedStep DEF OwnLeases, Placed, ScheduleFits
<1>2. ASSUME NEW r \in Replicas, NEW w \in Workspaces PROVE OwnLease(r, w)'
  <2>0. OwnLease(r, w)
    BY DEF OwnLeases
  <2>1. CASE UnitPasses
    BY <1>1, <2>0, <2>1, OwnUnit
  <2>2. CASE UNCHANGED scheduleVars \/ \E u \in Workspaces : Demanded(u) \/ Lookup(u) \/ LookupDone(u)
    <3>1. UNCHANGED <<stage, turn, starting, timer, due, spent, mine, leases>>
      BY <2>2 DEF scheduleVars, Demanded, Lookup, LookupDone, snapshotVars, Stored
    <3>. QED
      BY <2>0, <3>1 DEF OwnLease, Ahead, InPass, Reads, To
  <2>3. ASSUME NEW q \in Replicas, Start(q) \/ Stop(q) \/ ListFails(q) \/ ReadFails(q) \/ Step(q)
        PROVE  OwnLease(r, w)'
    <3>1. CASE q = r
      BY <1>1, <2>0, <2>3, <3>1, OwnActs
    <3>2. CASE q # r
      <4>1. Only(q)
        BY <1>1, <2>3, StartDoes, StopDoes, ListFailsDoes, ReadFailsDoes, ReceivedDoes, NotDueDoes,
           RefusedDoes, TakenDoes, LockFailsDoes, ReadDoneDoes DEF Step, Past, Opens
      <4>2. \/ leases'[w] = leases[w] \/ leases'[w] = Free \/ leases'[w] = [by |-> q, left |-> LeaseFor]
            \/ leases'[w] = [by |-> "lost", left |-> LeaseFor]
        <5>1. CASE Taken(q)
          BY <1>1, <5>1, TakenDoes DEF Opens
        <5>2. CASE LockFails(q)
          BY <1>1, <5>2, LockFailsDoes DEF Opens
        <5>3. CASE ReadFails(q)
          BY <1>1, <5>3, ReadFailsDoes
        <5>4. CASE ~Taken(q) /\ ~LockFails(q) /\ ~ReadFails(q)
          BY <1>1, <2>3, <5>4, StartDoes, StopDoes, ListFailsDoes, ReceivedDoes, NotDueDoes,
             RefusedDoes, ReadDoneDoes DEF Step
        <5>. QED
          BY <5>1, <5>2, <5>3, <5>4
      <4>3. leases'[w] = leases[w] \/ leases'[w].by # r
        BY <3>2, <4>2, RefresherAssumption DEF Free
      <4>. QED
        BY <2>0, <3>2, <4>1, <4>3, OwnOthers
    <3>. QED
      BY <3>1, <3>2
  <2>. QED
    BY <2>1, <2>2, <2>3 DEF ScheduleNext
<1>. QED
  BY <1>1, <1>2 DEF OwnLeases

\* A replica that ticks on schedule finds the lease it took for its last pass expired,
\* whatever failed and however often it started anew meanwhile (leaseFor).
THEOREM OwnLeaseIsExpired == ASSUME ReadsQuick PROVE ScheduleSpec => []OwnLeaseExpired
<1>1. ScheduleInit => OwnLeases
  <2>1. ASSUME ScheduleInit, NEW r \in Replicas, NEW w \in Workspaces PROVE OwnLease(r, w)
    BY <2>1, RefresherAssumption DEF ScheduleInit, Free, OwnLease
  <2>. QED
    BY <2>1, AllOnTimeInit DEF OwnLeases, AllOnTime
<1>2. OwnLeases /\ [ScheduleNext]_scheduleVars => OwnLeases'
  BY OwnLeasesStep
<1>3. OwnLeases => OwnLeaseExpired
  <2>. SUFFICES ASSUME OwnLeases, NEW r \in Replicas, Ready(r), ~starting[r] PROVE leases[turn[r]].by # r
    BY DEF OwnLeaseExpired
  <2>1. turn[r] \in Workspaces /\ stage[r] = "pass" /\ ~mine[r]
    BY ReplicaValues DEF OwnLeases, Placed, ScheduleFits, Fits, Ready
  <2>2. turn[r] <= turn[r]
    BY <2>1, Durations DEF Workspaces
  <2>3. Ahead(r, turn[r])
    BY <2>1, <2>2 DEF Ahead, InPass
  <2>. QED
    BY <2>1, <2>3 DEF OwnLeases, OwnLease
<1>. QED
  BY <1>1, <1>2, <1>3, PTL DEF ScheduleSpec
=============================================================================
