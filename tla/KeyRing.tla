------------------------------ MODULE KeyRing ------------------------------
(***************************************************************************)
(* Rotation of a signing key at several replicas: KeyRing in               *)
(* internal/issuer/keyring.go, fed by the poller of internal/issuerapp     *)
(* with the key each replica reads from its own mounted file.              *)
(*                                                                         *)
(* Observe holds the replica's mutex, so a replica signs and answers its   *)
(* JWKS only between two of them; but its store calls, one a step, are     *)
(* interleaved with every other replica's.  A call that fails is logged    *)
(* and passed over.  One algorithm: each has a ring of its own.            *)
(*                                                                         *)
(* Keys are numbered in the order they were issued; 0 is no key.  An       *)
(* entry is its ActivateAt; 0 is no entry.  The store's own lifetime of an *)
(* entry (30 days) is longer than the model runs.                          *)
(***************************************************************************)
EXTENDS Naturals

CONSTANTS
    Replica,     \* the replicas
    NKeys,       \* how many keys are issued
    Delay,       \* KeyRingConfig.ActivationDelay
    Overlap,     \* KeyRingConfig.Overlap
    BootDelay,   \* the same two before Configure: the package's defaults
    BootOverlap,
    Poll,        \* from the start of one Observe to that of the next
    Sync,        \* how far a mounted file lags behind its Secret
    TokenLife,   \* the lifetime of a token
    MaxFailures, \* bounds: how many store calls fail,
    MaxDeaths,   \* and how often a replica is restarted
    MaxTime      \* bound on the clock

Key == 1..NKeys

ASSUME KeyRingAssumption ==
    /\ NKeys \in Nat \ {0}
    /\ {Delay, Overlap, BootDelay, BootOverlap, Poll, Sync, TokenLife} \subseteq Nat \ {0}
    /\ {MaxFailures, MaxDeaths} \subseteq Nat
    /\ MaxTime \in Nat

\* One rotation, and the margins that ActivationDelay and Overlap are meant
\* to have (keyring.go:18-81): a delay covers the lag of a file and a poll, an
\* overlap covers that, another poll and a token.  The delay in force before
\* Configure may be shorter; the overlap then covers a poll, but not a token.
Timings ==
    /\ NKeys = 2 /\ MaxTime > 1
    /\ BootDelay <= Delay
    /\ Sync + Poll < BootDelay
    /\ Poll <= BootOverlap
    /\ Sync + Poll + Poll + TokenLife <= Overlap

VARIABLES
    now,        \* the clock
    secret,     \* the newest key issued
    issued,     \* when that was
    file,       \* the key in each replica's mounted file
    entry,      \* the store: keyring:entry:<id>
    index,      \* the store: keyring:index
    ring,       \* KeyRing.entries
    signer,     \* the entries with a private half
    active,     \* KeyRing.activeID
    published,  \* KeyRing.published
    step,       \* where each replica is in Observe
    at,         \* the time its Observe read
    key,        \* the key the running step is about
    guess,      \* the ActivateAt record would give it
    left,       \* the keys the running loop has left
    fresh,      \* not configured yet: the Observe of NewKeyRings
    valid,      \* history: how long the last token a key signed is live
    mishaps     \* how many calls failed and replicas died

storeVars == <<entry, index>>
ringVars == <<ring, signer, active, published>>
world == <<now, secret, issued, file, valid>>
allRingVars == <<world, mishaps, storeVars, ringVars, step, at, key, guess, left, fresh>>

----------------------------------------------------------------------------
Entries(r) == {k \in Key : ring[r][k] # 0}

\* A store call is answered, or fails.
Answer(ok) ==
    \/ ok /\ mishaps' = mishaps
    \/ /\ ~ok
       /\ mishaps.failed < MaxFailures
       /\ mishaps' = [mishaps EXCEPT !.failed = @ + 1]

RingInit ==
    /\ now = 1 /\ secret = 1 /\ issued = 1
    /\ file = [r \in Replica |-> 1]
    /\ entry = [k \in Key |-> 0] /\ index = {}
    /\ ring = [r \in Replica |-> [k \in Key |-> 0]]
    /\ signer = [r \in Replica |-> {}]
    /\ active = [r \in Replica |-> 0]
    /\ published = [r \in Replica |-> {}]
    /\ step = [r \in Replica |-> "first"]
    /\ at = [r \in Replica |-> 1]
    /\ key = [r \in Replica |-> 1]
    /\ guess = [r \in Replica |-> 0]
    /\ left = [r \in Replica |-> {}]
    /\ fresh = [r \in Replica |-> TRUE]
    /\ valid = [k \in Key |-> 0]
    /\ mishaps = [failed |-> 0, died |-> 0]

----------------------------------------------------------------------------
(* Observe.                                                                *)

\* The poller's ticker fired and it read the file.  A key already known keeps
\* its schedule.  (Polling goes on when the clock has reached its bound.)
Observe(r) ==
    /\ step[r] = "idle"
    /\ at[r] < now \/ now = MaxTime
    /\ at' = [at EXCEPT ![r] = now]
    /\ key' = [key EXCEPT ![r] = file[r]]
    /\ \/ /\ file[r] \in Entries(r)
          /\ signer' = [signer EXCEPT ![r] = @ \cup {file[r]}]
          /\ step' = [step EXCEPT ![r] = "members"]
       \/ /\ file[r] \notin Entries(r)
          /\ signer' = signer
          /\ step' = [step EXCEPT ![r] = "first"]
    /\ UNCHANGED <<world, mishaps, storeVars, ring, active, published, guess, left, fresh>>

\* record: the installation's first key needs no delay.
FirstKey(r) ==
    /\ step[r] = "first"
    /\ \E ok \in BOOLEAN :
          LET immediate == IF ok THEN index = {} ELSE Entries(r) = {} IN
          Answer(ok) /\ guess' = [guess EXCEPT ![r] =
                       IF immediate THEN at[r]
                       ELSE at[r] + (IF fresh[r] THEN BootDelay ELSE Delay)]
    /\ step' = [step EXCEPT ![r] = "claim"]
    /\ UNCHANGED <<world, storeVars, ringVars, at, key, left, fresh>>

Adopt(r, t) ==
    /\ ring' = [ring EXCEPT ![r][key[r]] = t]
    /\ signer' = [signer EXCEPT ![r] = @ \cup {key[r]}]
    /\ guess' = [guess EXCEPT ![r] = 0]
    /\ step' = [step EXCEPT ![r] = "add"]

\* SetIfAbsent: the first writer's schedule is the installation's.  When the
\* call fails the replica keeps its own.
Claim(r) ==
    /\ step[r] = "claim"
    /\ \/ /\ entry[key[r]] = 0 /\ Answer(TRUE)
          /\ entry' = [entry EXCEPT ![key[r]] = guess[r]]
          /\ Adopt(r, guess[r])
       \/ /\ entry[key[r]] # 0 /\ Answer(TRUE)
          /\ step' = [step EXCEPT ![r] = "read"]
          /\ UNCHANGED <<entry, ring, signer, guess>>
       \/ /\ Answer(FALSE)
          /\ entry' = entry
          /\ Adopt(r, guess[r])
    /\ UNCHANGED <<world, index, active, published, at, key, left, fresh>>

\* The key was recorded before: the recorded schedule, if it can be read.
ReadClaim(r) ==
    /\ step[r] = "read"
    /\ \E ok \in BOOLEAN :
          Answer(ok) /\ Adopt(r, IF ok /\ entry[key[r]] # 0 THEN entry[key[r]] ELSE guess[r])
    /\ UNCHANGED <<world, storeVars, active, published, at, key, left, fresh>>

AddKey(r) ==
    /\ step[r] = "add"
    /\ \E ok \in BOOLEAN : Answer(ok) /\ index' = IF ok THEN index \cup {key[r]} ELSE index
    /\ step' = [step EXCEPT ![r] = "members"]
    /\ UNCHANGED <<world, entry, ringVars, at, key, guess, left, fresh>>

\* absorb: every id in the index this replica does not know ...
Members(r) ==
    /\ step[r] = "members"
    /\ \E ok \in BOOLEAN :
          Answer(ok) /\ left' = [left EXCEPT ![r] = IF ok THEN index \ Entries(r) ELSE {}]
    /\ step' = [step EXCEPT ![r] = "absorb"]
    /\ UNCHANGED <<world, storeVars, ringVars, at, key, guess, fresh>>

\* Mutant: a replica learns of keys only from its own file.
AbsorbNothing(r) ==
    /\ step[r] = "absorb"
    /\ \E k \in left[r] : left' = [left EXCEPT ![r] = @ \ {k}]
    /\ UNCHANGED <<world, mishaps, storeVars, ringVars, step, at, key, guess, fresh>>

\* ... is read; one that has no record is passed over.
Absorb(r) ==
    /\ step[r] = "absorb"
    /\ \E k \in left[r], ok \in BOOLEAN :
          /\ Answer(ok)
          /\ ring' = IF ok THEN [ring EXCEPT ![r][k] = entry[k]] ELSE ring
          /\ left' = [left EXCEPT ![r] = @ \ {k}]
    /\ UNCHANGED <<world, storeVars, signer, active, published, step, at, key, guess, fresh>>

StartRefresh(r) ==
    /\ step[r] = "absorb"
    /\ left[r] = {}
    /\ left' = [left EXCEPT ![r] = Entries(r)]
    /\ step' = [step EXCEPT ![r] = "refresh"]
    /\ UNCHANGED <<world, mishaps, storeVars, ringVars, at, key, guess, fresh>>

\* refresh: every key this replica knows is written again, schedule and all.
RefreshSet(r) ==
    /\ step[r] = "refresh"
    /\ \E k \in left[r], ok \in BOOLEAN :
          /\ Answer(ok)
          /\ entry' = IF ok THEN [entry EXCEPT ![k] = ring[r][k]] ELSE entry
          /\ key' = [key EXCEPT ![r] = k]
    /\ step' = [step EXCEPT ![r] = "refreshAdd"]
    /\ UNCHANGED <<world, index, ringVars, at, guess, left, fresh>>

RefreshAdd(r) ==
    /\ step[r] = "refreshAdd"
    /\ \E ok \in BOOLEAN : Answer(ok) /\ index' = IF ok THEN index \cup {key[r]} ELSE index
    /\ left' = [left EXCEPT ![r] = @ \ {key[r]}]
    /\ step' = [step EXCEPT ![r] = "refresh"]
    /\ UNCHANGED <<world, entry, ringVars, at, key, guess, fresh>>

\* The schedule at the time the Observe read.
Activated(r) == {k \in Key : ring[r][k] # 0 /\ ring[r][k] <= at[r]}

\* Entries that activate together are sorted in any order.
Ties == {tie \in [Key -> Key] : \A j, k \in Key : tie[j] = tie[k] => j = k}

Before(r, tie, j, k) ==
    \/ ring[r][j] < ring[r][k]
    \/ ring[r][j] = ring[r][k] /\ tie[j] < tie[k]

\* Mutant: a key retires by its own activation, the one in use included.
RetiredByAge(r, tie) ==
    LET overlap == IF fresh[r] THEN BootOverlap ELSE Overlap IN
    {j \in Activated(r) : at[r] > ring[r][j] + overlap}

\* Those superseded by their successor more than an overlap ago.
Retired(r, tie) ==
    LET overlap == IF fresh[r] THEN BootOverlap ELSE Overlap IN
    {j \in Activated(r) :
        \E k \in Activated(r) :
            /\ Before(r, tie, j, k)
            /\ \A i \in Activated(r) : ~(Before(r, tie, j, i) /\ Before(r, tie, i, k))
            /\ at[r] > ring[r][k] + overlap}

\* Mutant: a key is withdrawn as soon as its successor is active.
RecomputeNoOverlap(r) ==
    /\ step[r] = "refresh"
    /\ left[r] = {}
    /\ \E tie \in Ties :
          LET last == {k \in Activated(r) : \A j \in Activated(r) : ~Before(r, tie, k, j)}
              gone == Activated(r) \ last IN
          /\ active' = [active EXCEPT ![r] = IF last = {} THEN 0 ELSE CHOOSE k \in last : TRUE]
          /\ published' = [published EXCEPT ![r] = Entries(r) \ gone]
          /\ ring' = [ring EXCEPT ![r] = [k \in Key |-> IF k \in gone THEN 0 ELSE @[k]]]
          /\ signer' = [signer EXCEPT ![r] = @ \ gone]
          /\ left' = [left EXCEPT ![r] = gone]
    /\ step' = [step EXCEPT ![r] = "retire"]
    /\ UNCHANGED <<world, mishaps, storeVars, at, key, guess, fresh>>

\* recompute: the newest activated key signs, the ones before it are
\* published for an overlap more, and the ones to come are published already.
Recompute(r) ==
    /\ step[r] = "refresh"
    /\ left[r] = {}
    /\ \E tie \in Ties :
          LET last == {k \in Activated(r) : \A j \in Activated(r) : ~Before(r, tie, k, j)}
              gone == Retired(r, tie) IN
          /\ active' = [active EXCEPT ![r] = IF last = {} THEN 0 ELSE CHOOSE k \in last : TRUE]
          /\ published' = [published EXCEPT ![r] = Entries(r) \ gone]
          /\ ring' = [ring EXCEPT ![r] = [k \in Key |-> IF k \in gone THEN 0 ELSE @[k]]]
          /\ signer' = [signer EXCEPT ![r] = @ \ gone]
          /\ left' = [left EXCEPT ![r] = gone]
    /\ step' = [step EXCEPT ![r] = "retire"]
    /\ UNCHANGED <<world, mishaps, storeVars, at, key, guess, fresh>>

\* A retired key leaves the store.
DeleteKey(r) ==
    /\ step[r] = "retire"
    /\ \E k \in left[r], ok \in BOOLEAN :
          /\ Answer(ok)
          /\ entry' = IF ok THEN [entry EXCEPT ![k] = 0] ELSE entry
          /\ key' = [key EXCEPT ![r] = k]
    /\ step' = [step EXCEPT ![r] = "remove"]
    /\ UNCHANGED <<world, index, ringVars, at, guess, left, fresh>>

RemoveKey(r) ==
    /\ step[r] = "remove"
    /\ \E ok \in BOOLEAN : Answer(ok) /\ index' = IF ok THEN index \ {key[r]} ELSE index
    /\ left' = [left EXCEPT ![r] = @ \ {key[r]}]
    /\ step' = [step EXCEPT ![r] = "retire"]
    /\ UNCHANGED <<world, entry, ringVars, at, key, guess, fresh>>

\* Observe returns; after the first one Configure has been called.
Finish(r) ==
    /\ step[r] = "retire"
    /\ left[r] = {}
    /\ step' = [step EXCEPT ![r] = "idle"]
    /\ fresh' = [fresh EXCEPT ![r] = FALSE]
    /\ UNCHANGED <<world, mishaps, storeVars, ringVars, at, key, guess, left>>

----------------------------------------------------------------------------
\* Active: the scheduled key, or the newest one this replica can sign with.
Signs(r) ==
    IF active[r] \in signer[r] THEN {active[r]}
    ELSE {k \in signer[r] : \A j \in signer[r] : ring[r][j] <= ring[r][k]}

\* SigningKey: a token is signed with it.
Sign(r) ==
    /\ step[r] = "idle"
    /\ \E k \in Signs(r) : valid' = [valid EXCEPT ![k] = TokenLife]
    /\ UNCHANGED <<now, secret, issued, file, mishaps, storeVars, ringVars,
                   step, at, key, guess, left, fresh>>

\* The process dies ...
Crash(r) ==
    /\ step[r] # "down"
    /\ mishaps.died < MaxDeaths
    /\ mishaps' = [mishaps EXCEPT !.died = @ + 1]
    /\ step' = [step EXCEPT ![r] = "down"]
    /\ ring' = [ring EXCEPT ![r] = [k \in Key |-> 0]]
    /\ signer' = [signer EXCEPT ![r] = {}]
    /\ active' = [active EXCEPT ![r] = 0]
    /\ published' = [published EXCEPT ![r] = {}]
    /\ left' = [left EXCEPT ![r] = {}]
    /\ fresh' = [fresh EXCEPT ![r] = TRUE]
    /\ UNCHANGED <<now, secret, issued, file, valid, storeVars, at, key, guess>>

\* ... and another starts: NewKeyRings.  Its file is the one that was there, which
\* SyncFile may have brought up to date meanwhile, as it is in a new pod.
Boot(r) ==
    /\ step[r] = "down"
    /\ key' = [key EXCEPT ![r] = file[r]]
    /\ at' = [at EXCEPT ![r] = now]
    /\ step' = [step EXCEPT ![r] = "first"]
    /\ UNCHANGED <<world, mishaps, storeVars, ringVars, guess, left, fresh>>

\* A new key is issued, weeks after the last one: that one is recorded, and
\* every file shows it.
Rotate ==
    /\ secret < NKeys
    /\ secret \in index
    /\ \A r \in Replica : file[r] = secret
    /\ secret' = secret + 1
    /\ issued' = now
    /\ UNCHANGED <<now, file, valid, mishaps, storeVars, ringVars, step, at, key, guess, left, fresh>>

\* The kubelet projects it.
SyncFile(r) ==
    /\ file[r] # secret
    /\ file' = [file EXCEPT ![r] = secret]
    /\ UNCHANGED <<now, secret, issued, valid, mishaps, storeVars, ringVars,
                   step, at, key, guess, left, fresh>>

Tick ==
    /\ now < MaxTime
    /\ \A r \in Replica :
          /\ step[r] # "down" => now < at[r] + Poll
          /\ file[r] = secret \/ now < issued + Sync
    /\ now' = now + 1
    /\ valid' = [k \in Key |-> IF valid[k] = 0 THEN 0 ELSE valid[k] - 1]
    /\ UNCHANGED <<secret, issued, file, mishaps, storeVars, ringVars,
                   step, at, key, guess, left, fresh>>

ObserveStep(r) ==
    \/ Observe(r) \/ FirstKey(r) \/ Claim(r) \/ ReadClaim(r) \/ AddKey(r)
    \/ Members(r) \/ Absorb(r) \/ StartRefresh(r) \/ RefreshSet(r) \/ RefreshAdd(r)
    \/ Recompute(r) \/ DeleteKey(r) \/ RemoveKey(r) \/ Finish(r)

RingNext ==
    \/ Rotate \/ Tick
    \/ \E r \in Replica :
          ObserveStep(r) \/ Sign(r) \/ Crash(r) \/ Boot(r) \/ SyncFile(r)

RingSpec == RingInit /\ [][RingNext]_allRingVars

----------------------------------------------------------------------------
PCs == {"down", "idle", "first", "claim", "read", "add", "members", "absorb",
        "refresh", "refreshAdd", "retire", "remove"}

RingTypeOK ==
    /\ now \in Nat \ {0} /\ secret \in Key /\ issued \in Nat \ {0}
    /\ file \in [Replica -> Key]
    /\ entry \in [Key -> Nat] /\ index \subseteq Key
    /\ ring \in [Replica -> [Key -> Nat]]
    /\ signer \in [Replica -> SUBSET Key]
    /\ active \in [Replica -> 0..NKeys]
    /\ published \in [Replica -> SUBSET Key]
    /\ step \in [Replica -> PCs]
    /\ at \in [Replica -> Nat \ {0}]
    /\ key \in [Replica -> Key]
    /\ guess \in [Replica -> Nat]
    /\ left \in [Replica -> SUBSET Key]
    /\ fresh \in [Replica -> BOOLEAN]
    /\ valid \in [Key -> 0..TokenLife]
    /\ mishaps \in [failed : 0 .. MaxFailures, died : 0 .. MaxDeaths]

\* Every call of the store was answered, or no replica was restarted.
OneKind == mishaps.failed = 0 \/ mishaps.died = 0

\* Publish before sign: when the schedule has a replica sign with a key,
\* every replica answering a JWKS request publishes it, whichever of them
\* noticed the rotation first, through failed calls or through restarts
\* (keyring.go:146-149).  Not through both: see PublishAlways.
PublishBeforeSign ==
    OneKind =>
        \A r, s \in Replica :
            step[r] = "idle" /\ step[s] = "idle" /\ active[r] \in signer[r]
            => active[r] \in published[s]

\* A key waits out its delay neither at a replica nor in its record.
Waited(k) == entry[k] <= now /\ \A r \in Replica : ring[r][k] <= at[r]

\* Overlap: once a key has waited out its delay, a token it signed that has
\* not expired verifies against every replica's JWKS, through failed calls;
\* and through restarts, one started after the rotation included, if the overlap
\* a process starts with covers a poll and a token (keyring.go:149-153).  See
\* OverlapAlways.
OverlapCovers ==
    mishaps.died = 0 \/ (mishaps.failed = 0 /\ Poll + TokenLife <= BootOverlap) =>
        \A k \in Key, s \in Replica :
            valid[k] > 0 /\ step[s] = "idle" /\ Waited(k) => k \in published[s]

\* One schedule: replicas that know a key agree on when it activates, and a
\* record that comes back comes back with the same one (keyring.go:121-127),
\* as long as the store has answered every call.
OneSchedule ==
    mishaps.failed = 0 => \A r, s \in Replica, k \in Key :
        /\ ring[r][k] # 0 /\ ring[s][k] # 0 => ring[r][k] = ring[s][k]
        /\ ring[r][k] # 0 /\ entry[k] # 0 => ring[r][k] = entry[k]

\* What keyring.go:29-31 says: no replica signs with a key before its delay
\* is over.
NoEarlySigning ==
    \A r \in Replica : step[r] = "idle" =>
        \A k \in Signs(r) : ring[r][k] <= now

\* After its first Observe a replica that reads its file in time always has
\* a key to sign with: the retirement of an old key never takes its last
\* private half (keyring.go:410, :492-493), through failed calls or through restarts.
AlwaysSigns ==
    OneKind => \A r \in Replica : step[r] = "idle" => Signs(r) # {}

----------------------------------------------------------------------------
(* What is said without exception; each fails.  See the README.            *)

\* keyring.go: "a verifier must be able to check a token signed a moment ago even
\* if it fetches the JWKS from a replica that has not signed with the new key yet".
PublishAlways ==
    \A r, s \in Replica :
        step[r] = "idle" /\ step[s] = "idle" /\ active[r] \in signer[r]
        => active[r] \in published[s]

\* keyring.go: "a token signed the instant before rotation must still verify for
\* as long as it is valid".
OverlapAlways ==
    \A k \in Key, s \in Replica :
        valid[k] > 0 /\ step[s] = "idle" /\ Waited(k) => k \in published[s]
=============================================================================
