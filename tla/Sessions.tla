------------------------------ MODULE Sessions ------------------------------
(***************************************************************************)
(* The issuer's session index and the refresh tokens over it:              *)
(* internal/issuer/session.go, with the callers that decide the order of   *)
(* its calls in internal/issuer/storage.go (TokenRequestByRefreshToken,    *)
(* CreateAccessAndRefreshTokens, issue, RevokeToken).  The store's expiry  *)
(* is that of the State and Index ports (internal/port/memory).            *)
(*                                                                         *)
(* Requests run at any replica and share only the store.  One step of a    *)
(* request is one store call and the local code up to the next one, so     *)
(* requests interleave between any two calls; any call may fail, which     *)
(* ends the request where it stands (as does the replica's death).         *)
(*                                                                         *)
(* Identifiers are random in the code.  Here the session a request opens,  *)
(* the refresh token it mints and the access token it records all carry    *)
(* the request's own name.  All sessions are of one identity at one        *)
(* client, so that every one of the three sets lists every session.        *)
(***************************************************************************)
EXTENDS Naturals, Sequences

CONSTANTS
    Opening,    \* the requests that redeem a sign-in,
    Refreshing, \* that present a refresh token for renewal,
    Revoking,   \* that hand one back (RFC 7009),
    Ending,     \* that end one session by its id,
    Walking,    \* and that list, or end, what one of the sets holds
    NoSession,  \* no session
    Lifetime,   \* the refresh window
    Grace,      \* refreshGrace
    TokenLife,  \* the access token's lifetime
    Limits,     \* the absolute limits the policy may set; 0 is no limit
    MaxTime     \* bound on the clock

\* The requests, which are also the names of what they mint.
Request == Opening \cup Refreshing \cup Revoking \cup Ending \cup Walking

ASSUME SessionsAssumption ==
    /\ NoSession \notin Request
    /\ Lifetime \in Nat \ {0}
    /\ Grace \in Nat \ {0}
    /\ TokenLife \in Nat \ {0}
    /\ Limits \subseteq Nat
    /\ MaxTime \in Nat

VARIABLES
    now,        \* the clock every replica reads; 0 is Go's zero time
    limit,      \* the absolute limit as the policy states it
    record,     \* issuer:session:<id>
    pointer,    \* issuer:session-token:<hash>: the session a token names
    rotated,    \* issuer:session-rotated:<hash>: what a spent token became
    index,      \* the three sets of ids
    indexUntil, \* when each set expires
    access,     \* the access tokens on record, and the session each names
    req,        \* the requests
    spentAt,    \* history: when a token's successor was last written
    raced       \* history: sessions ended, or found dead, under a refresh

vars == <<now, limit, record, pointer, rotated, index, indexUntil, access,
          req, spentAt, raced>>

store == <<record, pointer, rotated, index, indexUntil, access>>

----------------------------------------------------------------------------
\* The order in which Record, Refreshed and deleteSession walk the sets.
Sets == <<"all", "of", "for">>

Keys == {"all", "of", "for"}

\* A value of the store answers until its expiry.
Held(cell) == cell.until > now

\* byID: the record is in the store and Session.Live.
Alive(s) == Held(record[s]) /\ record[s].expires > now

\* capEnd: the refresh window from now, or the limit from auth_time.
CapEnd(auth, window) ==
    IF auth = 0 \/ limit = 0 \/ now + window <= auth + limit
    THEN now + window
    ELSE auth + limit

PastLimit(auth) == auth # 0 /\ limit # 0 /\ now >= auth + limit

\* Members: a set whose expiry has passed is empty.
Members(k) == IF now < indexUntil[k] THEN index[k] ELSE {}

\* A refresh that has read session s and has not yet written it back.
InHand(s) ==
    \E q \in Request :
        /\ req[q].stage = "rotate"
        /\ req[q].sid = s
        /\ req[q].pc \in {"spend", "setRotated", "put"}

RacedWith(s) == IF InHand(s) THEN raced \cup {s} ELSE raced

\* The refresh tokens some client was answered with.
Given == {req[q].cred : q \in {p \in Request :
             req[p].stage \in {"open", "rotate"} /\ req[p].pc = "done"}}

\* A request before it has read anything: its own name stands for nothing.
Idle(q) == [stage |-> "none", pc |-> "new", held |-> q, tok |-> q, sid |-> q,
            auth |-> 0, issued |-> 0, expires |-> 0, n |-> 1, todo |-> {}, sel |-> {},
            key |-> "all", cred |-> q, late |-> FALSE]

Init ==
    /\ now = 1
    /\ limit \in Limits
    /\ record = [s \in Request |-> [auth |-> 0, issued |-> 0, expires |-> 0, until |-> 0]]
    /\ pointer = [t \in Request |-> [sid |-> t, until |-> 0]]
    /\ rotated = [t \in Request |-> [succ |-> t, until |-> 0]]
    /\ index = [k \in Keys |-> {}]
    /\ indexUntil = [k \in Keys |-> 0]
    /\ access = [q \in Request |-> [session |-> NoSession, until |-> 0]]
    /\ req = [q \in Request |-> Idle(q)]
    /\ spentAt = [t \in Request |-> 0]
    /\ raced = {}

----------------------------------------------------------------------------
(* Requests arrive.  Clients present tokens they were answered with; the   *)
(* console names sessions that were recorded.                              *)

Goto(q, r) == req' = [req EXCEPT ![q] = r]

Arrive(q, r) ==
    /\ req[q].pc = "new"
    /\ Goto(q, r)
    /\ UNCHANGED <<now, limit, store, spentAt, raced>>

\* A sign-in is redeemed: the person authenticated now or earlier (a browser
\* session carried down), or nobody did (0).
StartOpen(q) ==
    /\ q \in Opening
    /\ \E a \in 0..now :
        Arrive(q, [Idle(q) EXCEPT !.stage = "open", !.pc = "issue", !.auth = a])

\* The token was spent more than a grace window ago and no refresh that read
\* it before that is still running.
LongSpent(t) ==
    /\ spentAt[t] # 0
    /\ now >= spentAt[t] + Grace
    /\ \A p \in Request :
          req[p].stage = "rotate" /\ req[p].held = t
          => req[p].pc \notin {"pointer", "record", "spend", "setRotated"}

StartRefresh(q) ==
    /\ q \in Refreshing
    /\ \E t \in Given :
        Arrive(q, [Idle(q) EXCEPT !.stage = "resolve", !.pc = "pointer",
                               !.held = t, !.tok = t, !.late = LongSpent(t)])

\* RFC 7009 with the refresh token the caller holds (GetRefreshTokenInfo).
StartRevoke(q) ==
    /\ q \in Revoking
    /\ \E t \in Given :
        Arrive(q, [Idle(q) EXCEPT !.stage = "revoke", !.pc = "pointer", !.held = t, !.tok = t])

\* RevokeID: one session, by its id.
StartEnd(q) ==
    /\ q \in Ending
    /\ \E s \in Request :
        /\ record[s].expires # 0
        /\ Arrive(q, [Idle(q) EXCEPT !.stage = "end", !.pc = "endRead", !.sid = s])

\* List, and Revoke by query, walk one of the sets; Sweep walks the widest.
StartList(q) ==
    /\ q \in Walking
    /\ \E k \in Keys, st \in {"list", "endAll", "sweep"} :
        /\ st = "sweep" => k = "all"
        /\ Arrive(q, [Idle(q) EXCEPT !.stage = st, !.pc = "members", !.key = k])

----------------------------------------------------------------------------
(* ByRefreshToken and, inside Refreshed, ByToken and then replayed: the    *)
(* same reads, told apart by the stage the request is in.                  *)

FoundAt(R) ==
    [resolve |-> "gate", revoke |-> "endRead",
     rotate |-> IF R.tok = R.held THEN "spend" ELSE "name"][R.stage]

UnresolvedAt(R) ==
    [resolve |-> "limit", revoke |-> "revPointer", rotate |-> "refused"][R.stage]

\* A token that names no live session may have been rotated moments ago; its
\* successor is not looked up any further.
MissedAt(R) == IF R.tok = R.held THEN "rotated" ELSE UnresolvedAt(R)

\* ByToken: the pointer ...
GetPointer(q) ==
    LET R == req[q] IN
    /\ R.pc = "pointer"
    /\ \/ /\ Held(pointer[R.tok])
          /\ Goto(q, [R EXCEPT !.sid = pointer[R.tok].sid, !.pc = "record"])
       \/ /\ ~Held(pointer[R.tok])
          /\ Goto(q, [R EXCEPT !.pc = MissedAt(R)])
    /\ UNCHANGED <<now, limit, store, spentAt, raced>>

\* ... and byID: the record it names.
GetRecord(q) ==
    LET R == req[q] IN
    /\ R.pc = "record"
    /\ \/ /\ Alive(R.sid)
          /\ Goto(q, [R EXCEPT !.auth = record[R.sid].auth,
                               !.issued = record[R.sid].issued,
                               !.cred = R.tok,
                               !.pc = FoundAt(R)])
       \/ /\ ~Alive(R.sid)
          /\ Goto(q, [R EXCEPT !.pc = MissedAt(R)])
    /\ UNCHANGED <<now, limit, store, spentAt, raced>>

\* replayed: what the spent token became, resolved like any token.
GetRotated(q) ==
    LET R == req[q]
        cell == rotated[R.held] IN
    /\ R.pc = "rotated"
    /\ \/ /\ Held(cell)
          /\ Goto(q, [R EXCEPT !.tok = cell.succ, !.pc = "pointer"])
       \/ /\ ~Held(cell)
          /\ Goto(q, [R EXCEPT !.pc = UnresolvedAt(R)])
    /\ UNCHANGED <<now, limit, store, spentAt, raced>>

\* TokenRequestByRefreshToken once the token resolved: the limit as the
\* policy states it now, then the client's gate, which may refuse.
Gate(q) ==
    LET R == req[q] IN
    /\ R.pc = "gate"
    /\ \/ /\ PastLimit(R.auth)
          /\ Goto(q, [R EXCEPT !.pc = "endDelete"])
       \/ /\ ~PastLimit(R.auth)
          /\ \E admitted \in BOOLEAN :
                Goto(q, [R EXCEPT !.pc = IF admitted THEN "issue" ELSE "refused"])
    /\ UNCHANGED <<now, limit, store, spentAt, raced>>

\* endedByAbsoluteLimit: the token still has a pointer, and the record it names is
\* still in the store and no longer live.
LimitRead(q) ==
    LET R == req[q]
        cell == pointer[R.held] IN
    /\ \/ /\ R.pc = "limit"
          /\ Goto(q, IF Held(cell) THEN [R EXCEPT !.sid = cell.sid, !.pc = "limitRecord"]
                                   ELSE [R EXCEPT !.pc = "refused"])
       \/ /\ R.pc = "limitRecord"
          /\ Goto(q, [R EXCEPT !.pc = IF Held(record[R.sid]) /\ ~Alive(R.sid)
                                      THEN "endDelete" ELSE "refused"])
    /\ UNCHANGED <<now, limit, store, spentAt, raced>>

----------------------------------------------------------------------------
(* CreateAccessAndRefreshTokens.                                           *)

\* issue: the access token, capped by the limit from auth_time; a session
\* with none is measured from when it was issued.  It names no session yet.
\* The store refuses a value with no lifetime left.
Issue(q) ==
    LET R == req[q]
        from == IF R.stage = "resolve" /\ R.auth = 0 THEN R.issued ELSE R.auth
        end == CapEnd(from, TokenLife) IN
    /\ R.pc = "issue"
    /\ end > now
    /\ access' = [access EXCEPT ![q] = [session |-> NoSession, until |-> end]]
    /\ Goto(q, IF R.stage = "open"
               THEN [R EXCEPT !.pc = "put", !.cred = q, !.issued = now,
                              !.expires = CapEnd(R.auth, Lifetime)]
               ELSE [R EXCEPT !.stage = "rotate", !.pc = "pointer", !.tok = R.held])
    /\ UNCHANGED <<now, limit, record, pointer, rotated, index, indexUntil, spentAt, raced>>

\* Refreshed: the old token stops resolving ...
Spend(q) ==
    LET R == req[q] IN
    /\ R.pc = "spend"
    /\ pointer' = [pointer EXCEPT ![R.held].until = 0]
    /\ Goto(q, [R EXCEPT !.pc = "setRotated"])
    /\ UNCHANGED <<now, limit, record, rotated, index, indexUntil, access, spentAt, raced>>

\* Mutant: a refresh slides the window without the limit.
SetRotatedSliding(q) ==
    LET R == req[q] IN
    /\ R.pc = "setRotated"
    /\ rotated' = [rotated EXCEPT ![R.held] = [succ |-> q, until |-> now + Grace]]
    /\ spentAt' = [spentAt EXCEPT ![R.held] = now]
    /\ Goto(q, [R EXCEPT !.cred = q, !.expires = now + Lifetime, !.pc = "put"])
    /\ UNCHANGED <<now, limit, record, pointer, index, indexUntil, access, raced>>

\* Mutant: the successor is kept as long as the session.
SetRotatedForLife(q) ==
    LET R == req[q]
        end == CapEnd(R.auth, Lifetime) IN
    /\ R.pc = "setRotated"
    /\ rotated' = [rotated EXCEPT ![R.held] = [succ |-> q, until |-> now + Lifetime]]
    /\ spentAt' = [spentAt EXCEPT ![R.held] = now]
    /\ Goto(q, [R EXCEPT !.cred = q, !.expires = end,
                         !.pc = IF end > now THEN "put" ELSE "endDelete"])
    /\ UNCHANGED <<now, limit, record, pointer, index, indexUntil, access, raced>>

\* ... its successor is noted for the grace window, and the session's end is
\* computed again; one already reached ends the session ...
SetRotated(q) ==
    LET R == req[q]
        end == CapEnd(R.auth, Lifetime) IN
    /\ R.pc = "setRotated"
    /\ rotated' = [rotated EXCEPT ![R.held] = [succ |-> q, until |-> now + Grace]]
    /\ spentAt' = [spentAt EXCEPT ![R.held] = now]
    /\ Goto(q, [R EXCEPT !.cred = q, !.expires = end,
                         !.pc = IF end > now THEN "put" ELSE "endDelete"])
    /\ UNCHANGED <<now, limit, record, pointer, index, indexUntil, access, raced>>

\* ... put writes the record whole, for a lifetime, unless its end has come.
\* Record does the same with a session of its own.
Put(q) ==
    LET R == req[q] IN
    /\ R.pc = "put"
    /\ R.expires > now
    /\ record' = [record EXCEPT ![R.sid] =
                     [auth |-> R.auth, issued |-> R.issued, expires |-> R.expires,
                      until |-> now + Lifetime]]
    /\ Goto(q, [R EXCEPT !.pc = "setPointer"])
    /\ UNCHANGED <<now, limit, pointer, rotated, index, indexUntil, access, spentAt, raced>>

\* Mutant: the new token's pointer lives only as long as the grace window.
SetPointerShort(q) ==
    LET R == req[q] IN
    /\ R.pc = "setPointer"
    /\ pointer' = [pointer EXCEPT ![q] = [sid |-> R.sid, until |-> now + Grace]]
    /\ Goto(q, [R EXCEPT !.pc = "add"])
    /\ UNCHANGED <<now, limit, record, rotated, index, indexUntil, access, spentAt, raced>>

\* Mutant: a refresh does not carry the sets forward.
SetPointerOnly(q) ==
    LET R == req[q] IN
    /\ R.pc = "setPointer"
    /\ pointer' = [pointer EXCEPT ![q] = [sid |-> R.sid, until |-> now + Lifetime]]
    /\ Goto(q, [R EXCEPT !.pc = IF R.stage = "open" THEN "add" ELSE "name"])
    /\ UNCHANGED <<now, limit, record, rotated, index, indexUntil, access, spentAt, raced>>

\* Mutant: a refresh points the token it spent at the session, not the new one.
SetPointerSpent(q) ==
    LET R == req[q]
        t == IF R.stage = "open" THEN q ELSE R.held IN
    /\ R.pc = "setPointer"
    /\ pointer' = [pointer EXCEPT ![t] = [sid |-> R.sid, until |-> now + Lifetime]]
    /\ Goto(q, [R EXCEPT !.pc = "add"])
    /\ UNCHANGED <<now, limit, record, rotated, index, indexUntil, access, spentAt, raced>>

SetPointer(q) ==
    LET R == req[q] IN
    /\ R.pc = "setPointer"
    /\ pointer' = [pointer EXCEPT ![q] = [sid |-> R.sid, until |-> now + Lifetime]]
    /\ Goto(q, [R EXCEPT !.pc = "add"])
    /\ UNCHANGED <<now, limit, record, rotated, index, indexUntil, access, spentAt, raced>>

\* Mutant: the walk over the sets is one too long.
AddToSetOverrun(q) ==
    LET R == req[q]
        k == Sets[R.n] IN
    /\ R.pc = "add"
    /\ index' = [index EXCEPT ![k] = Members(k) \cup {R.sid}]
    /\ indexUntil' = [indexUntil EXCEPT ![k] = now + Lifetime]
    /\ Goto(q, IF R.n <= Len(Sets) THEN [R EXCEPT !.n = @ + 1]
                                   ELSE [R EXCEPT !.pc = "name"])
    /\ UNCHANGED <<now, limit, record, pointer, rotated, access, spentAt, raced>>

\* The three sets, one after the other; each Add refreshes its set's expiry.
AddToSet(q) ==
    LET R == req[q]
        k == Sets[R.n] IN
    /\ R.pc = "add"
    /\ index' = [index EXCEPT ![k] = Members(k) \cup {R.sid}]
    /\ indexUntil' = [indexUntil EXCEPT ![k] = now + Lifetime]
    /\ Goto(q, IF R.n < Len(Sets) THEN [R EXCEPT !.n = @ + 1]
                                  ELSE [R EXCEPT !.pc = "name"])
    /\ UNCHANGED <<now, limit, record, pointer, rotated, access, spentAt, raced>>

\* The access token names the session, and the answer is sent.
NameSession(q) ==
    LET R == req[q] IN
    /\ R.pc = "name"
    /\ access[q].until > now
    /\ access' = [access EXCEPT ![q].session = R.sid]
    /\ Goto(q, [R EXCEPT !.pc = "done"])
    /\ UNCHANGED <<now, limit, record, pointer, rotated, index, indexUntil, spentAt, raced>>

----------------------------------------------------------------------------
(* Ending sessions.                                                        *)

EndedAt(R) ==
    [resolve |-> "refused", rotate |-> "refused", revoke |-> "done",
     end |-> "done", endAll |-> "next"][R.stage]

\* RevokeToken on a token that did not resolve: its pointer, if it still has
\* one, is deleted and the session it names is ended.
RevokePointer(q) ==
    LET R == req[q]
        cell == pointer[R.held] IN
    /\ R.pc = "revPointer"
    /\ Goto(q, IF Held(cell) THEN [R EXCEPT !.sid = cell.sid, !.pc = "revDelete"]
                             ELSE [R EXCEPT !.pc = "refused"])
    /\ UNCHANGED <<now, limit, store, spentAt, raced>>

RevokeDelete(q) ==
    LET R == req[q] IN
    /\ R.pc = "revDelete"
    /\ pointer' = [pointer EXCEPT ![R.held].until = 0]
    /\ Goto(q, [R EXCEPT !.pc = "endRead"])
    /\ UNCHANGED <<now, limit, record, rotated, index, indexUntil, access, spentAt, raced>>

\* RevokeID reads the record; a session already gone is a success.
EndRead(q) ==
    LET R == req[q] IN
    /\ R.pc = "endRead"
    /\ \/ /\ Alive(R.sid)
          /\ Goto(q, [R EXCEPT !.pc = "endDelete"])
          /\ raced' = raced
       \/ /\ ~Alive(R.sid)
          /\ Goto(q, [R EXCEPT !.pc = EndedAt(R)])
          /\ raced' = RacedWith(R.sid)
    /\ UNCHANGED <<now, limit, store, spentAt>>

\* Mutant: the session leaves the sets and keeps its record.
EndDeleteKeepsRecord(q) ==
    LET R == req[q] IN
    /\ R.pc = "endDelete"
    /\ raced' = RacedWith(R.sid)
    /\ Goto(q, [R EXCEPT !.n = 1, !.pc = "endRemove"])
    /\ UNCHANGED <<now, limit, store, spentAt>>

\* deleteSession: the record, then its place in each set.
EndDelete(q) ==
    LET R == req[q] IN
    /\ R.pc = "endDelete"
    /\ record' = [record EXCEPT ![R.sid].until = 0]
    /\ raced' = RacedWith(R.sid)
    /\ Goto(q, [R EXCEPT !.n = 1, !.pc = "endRemove"])
    /\ UNCHANGED <<now, limit, pointer, rotated, index, indexUntil, access, spentAt>>

EndRemove(q) ==
    LET R == req[q]
        k == Sets[R.n] IN
    /\ R.pc = "endRemove"
    /\ index' = [index EXCEPT ![k] = @ \ {R.sid}]
    /\ Goto(q, IF R.n < Len(Sets) THEN [R EXCEPT !.n = @ + 1]
                                  ELSE [R EXCEPT !.pc = EndedAt(R)])
    /\ UNCHANGED <<now, limit, record, pointer, rotated, indexUntil, access, spentAt, raced>>

\* collect: the members of one set ...
ReadMembers(q) ==
    LET R == req[q] IN
    /\ R.pc = "members"
    /\ Goto(q, [R EXCEPT !.todo = Members(R.key), !.pc = "scan"])
    /\ UNCHANGED <<now, limit, store, spentAt, raced>>

\* ... each read in turn.  A listing keeps the live ones and drops an id
\* whose record is gone from its set; a sweep keeps count of those.
Scan(q) ==
    LET R == req[q]
        sweep == R.stage = "sweep" IN
    /\ R.pc = "scan"
    /\ \E s \in R.todo :
          \/ /\ ~Alive(s) /\ ~sweep
             /\ Goto(q, [R EXCEPT !.todo = @ \ {s}, !.sid = s, !.pc = "repair"])
             /\ raced' = RacedWith(s)
          \/ /\ Alive(s) # sweep
             /\ Goto(q, [R EXCEPT !.todo = @ \ {s}, !.sel = @ \cup {s}])
             /\ raced' = raced
          \/ /\ Alive(s) /\ sweep
             /\ Goto(q, [R EXCEPT !.todo = @ \ {s}])
             /\ raced' = raced
    /\ UNCHANGED <<now, limit, store, spentAt>>

Repair(q) ==
    LET R == req[q] IN
    /\ R.pc = "repair"
    /\ index' = [index EXCEPT ![R.key] = @ \ {R.sid}]
    /\ Goto(q, [R EXCEPT !.pc = "scan"])
    /\ UNCHANGED <<now, limit, record, pointer, rotated, indexUntil, access, spentAt, raced>>

\* ... and Revoke ends what it collected, one session after the other.
ScanDone(q) ==
    LET R == req[q] IN
    /\ R.pc = "scan"
    /\ R.todo = {}
    /\ Goto(q, [R EXCEPT !.pc = IF R.stage = "endAll" THEN "next" ELSE "done"])
    /\ UNCHANGED <<now, limit, store, spentAt, raced>>

EndNext(q) ==
    LET R == req[q] IN
    /\ R.pc = "next"
    /\ \/ \E s \in R.sel :
             Goto(q, [R EXCEPT !.sel = @ \ {s}, !.sid = s, !.pc = "endRead"])
       \/ R.sel = {} /\ Goto(q, [R EXCEPT !.pc = "done"])
    /\ UNCHANGED <<now, limit, store, spentAt, raced>>

----------------------------------------------------------------------------
Finished == {"done", "refused", "failed"}

\* A store call fails, or the replica dies: the request ends where it is.
Fail(q) ==
    /\ req[q].pc \notin Finished \cup {"new"}
    /\ Goto(q, [req[q] EXCEPT !.pc = "failed"])
    /\ UNCHANGED <<now, limit, store, spentAt, raced>>

\* The policy's limit changes: an extension is granted, or withdrawn.
SetLimit ==
    /\ \E l \in Limits : l # limit /\ limit' = l
    /\ UNCHANGED <<now, store, req, spentAt, raced>>

Tick ==
    /\ now < MaxTime
    /\ now' = now + 1
    /\ UNCHANGED <<limit, store, req, spentAt, raced>>

RequestStep(q) ==
    \/ StartOpen(q) \/ StartRefresh(q) \/ StartRevoke(q) \/ StartEnd(q) \/ StartList(q)
    \/ GetPointer(q) \/ GetRecord(q) \/ GetRotated(q) \/ Gate(q) \/ LimitRead(q)
    \/ Issue(q) \/ Spend(q) \/ SetRotated(q) \/ Put(q) \/ SetPointer(q)
    \/ AddToSet(q) \/ NameSession(q)
    \/ RevokePointer(q) \/ RevokeDelete(q) \/ EndRead(q) \/ EndDelete(q) \/ EndRemove(q)
    \/ ReadMembers(q) \/ Scan(q) \/ Repair(q) \/ ScanDone(q) \/ EndNext(q)
    \/ Fail(q)

Next == SetLimit \/ Tick \/ \E q \in Request : RequestStep(q)

Spec == Init /\ [][Next]_vars

----------------------------------------------------------------------------
Stages == {"none", "open", "resolve", "rotate", "revoke", "end", "list", "endAll", "sweep"}

PCs == {"new", "pointer", "record", "rotated", "gate", "limit", "limitRecord", "issue", "spend",
        "setRotated", "put", "setPointer", "add", "name", "revPointer", "revDelete",
        "endRead", "endDelete", "endRemove", "members", "scan", "repair", "next"}
       \cup Finished

RequestType ==
    [stage : Stages, pc : PCs, held : Request, tok : Request, sid : Request,
     auth : Nat, issued : Nat, expires : Nat, n : 1..3, todo : SUBSET Request,
     sel : SUBSET Request, key : Keys, cred : Request, late : BOOLEAN]

TypeOK ==
    /\ now \in Nat
    /\ limit \in Limits
    /\ record \in [Request -> [auth : Nat, issued : Nat, expires : Nat, until : Nat]]
    /\ pointer \in [Request -> [sid : Request, until : Nat]]
    /\ rotated \in [Request -> [succ : Request, until : Nat]]
    /\ index \in [Keys -> SUBSET Request]
    /\ indexUntil \in [Keys -> Nat]
    /\ access \in [Request -> [session : Request \cup {NoSession}, until : Nat]]
    /\ req \in [Request -> RequestType]
    /\ spentAt \in [Request -> Nat]
    /\ raced \subseteq Request

\* However often a chain is refreshed, and however refreshes interleave, no
\* session outlives auth_time by more than a limit the policy has stated
\* (session.go:201-210, :317-322).
AbsoluteLimit ==
    0 \notin Limits =>
        \A s \in Request : record[s].auth # 0 =>
            \E l \in Limits : record[s].expires <= record[s].auth + l

\* Nor does an access token, whichever session it ends up naming
\* (storage.go:1118-1138).
TokensWithinLimit ==
    0 \notin Limits =>
        \A q \in Request :
            LET s == access[q].session IN
            s # NoSession /\ record[s].auth # 0 =>
                \E l \in Limits : access[q].until <= record[s].auth + l

\* A revocation that was answered has ended its session for good, unless a
\* refresh had already read the session when it was ended
\* (session.go:524-556, storage.go:1359-1386).
RevocationHolds ==
    \A q \in Request :
        LET R == req[q] IN
        R.stage \in {"revoke", "end"} /\ R.pc = "done"
        => R.sid \in raced \/ ~Alive(R.sid)

\* No request is writing session s, and none that did has failed.
Settled(s) ==
    /\ s \notin raced
    /\ \A q \in Request :
          req[q].stage \in {"open", "rotate"} /\ req[q].sid = s
          => req[q].pc \in {"done", "refused"}

\* A live session is found by a listing or a revocation through any of its
\* sets: neither a set's expiry nor a listing's self-repair hides it
\* (session.go:93-98, :343-350, :616-623).
Findable ==
    \A s \in Request : Alive(s) /\ Settled(s) => \A k \in Keys : s \in Members(k)

\* A live session always has a credential its client was given: a rotation
\* never strands the holder, however many refreshes it is interleaved with,
\* and no pointer expires before the record it names (session.go:306-341).
NotStranded ==
    \A s \in Request : Alive(s) /\ Settled(s) =>
        \E t \in Given : Held(pointer[t]) /\ pointer[t].sid = s

\* Outside the grace window a spent token buys nothing, at whichever replica
\* and in whichever order it is presented (session.go:367-370).
SpentStaysSpent ==
    \A q \in Request : req[q].late => req[q].pc # "done"

\* What storage.go:865-869 says of a burst of concurrent refreshes: it
\* converges on one credential.
OneCredential ==
    \A t, u \in Request :
        /\ Held(pointer[t]) /\ Held(pointer[u]) /\ pointer[t].sid = pointer[u].sid
        /\ Alive(pointer[t].sid)
        => t = u

\* A refresh has spent token t, or a revocation has deleted it.
Used(t) ==
    \E p \in Request :
        /\ req[p].stage \in {"rotate", "revoke"} /\ req[p].held = t
        /\ req[p].pc \notin {"pointer", "record", "rotated", "spend", "revPointer", "revDelete"}

\* A replay of a token spent within its grace is refused only when its
\* session is over, its successor has been used up in turn, or the rotation it
\* replays never came past its last write (it is between its writes, failed
\* there, or found the limit reached and is ending the session): a completed
\* rotation always answers it (session.go:310-312, :379-386).  The refresh
\* window is taken to be no shorter than the grace.
ReplayAnswered ==
    [][ \A q \in Request :
          LET t == req[q].tok
              spent == rotated[req[q].held] IN
          /\ Grace <= Lifetime
          /\ req[q].stage = "resolve" /\ t # req[q].held
          /\ req[q].pc \in {"pointer", "record"} /\ req'[q].pc = "limit"
          /\ Held(spent) /\ spent.succ = t
          => \/ ~Alive(req[t].sid)
             \/ Used(t)
             \/ req[t].pc \notin {"add", "name", "done"} ]_vars

\* What storage.go:1363-1370 says a revocation must never do: succeed while
\* the session lives on.
RevocationEnds ==
    \A q \in Request :
        LET R == req[q] IN
        R.stage = "end" /\ R.pc = "done" => ~Alive(R.sid)
=============================================================================
