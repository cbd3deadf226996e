--------------------------- MODULE SessionsProofs ---------------------------
(***************************************************************************)
(* Proofs about Sessions, for any set of requests, any lifetimes and any   *)
(* policy: type correctness and the absolute limit on a session's life,    *)
(* then what happens in that life: a revocation holds, a spent token stays *)
(* spent, and a live session can be found and has a credential its client  *)
(* was given.                                                              *)
(***************************************************************************)
EXTENDS Sessions, TLAPS

\* Which stages a request can be in at each place: what makes the tables
\* FoundAt, UnresolvedAt and EndedAt total where they are read.
ShapeOf(R) ==
    /\ R.pc \in {"pointer", "record", "rotated"} => R.stage \in {"resolve", "rotate", "revoke"}
    /\ R.pc \in {"gate", "limit", "limitRecord"} => R.stage = "resolve"
    /\ R.pc = "issue" => R.stage \in {"open", "resolve"}
    /\ R.pc \in {"spend", "setRotated"} => R.stage = "rotate"
    /\ R.pc \in {"put", "setPointer", "add", "name"} => R.stage \in {"open", "rotate"}
    /\ R.pc \in {"revPointer", "revDelete"} => R.stage = "revoke"
    /\ R.pc = "endRead" => R.stage \in {"revoke", "end", "endAll"}
    /\ R.pc \in {"endDelete", "endRemove"}
          => R.stage \in {"resolve", "rotate", "revoke", "end", "endAll"}
    /\ R.pc \in {"members", "scan"} => R.stage \in {"list", "endAll", "sweep"}
    /\ R.pc = "repair" => R.stage \in {"list", "endAll"}
    /\ R.pc = "next" => R.stage = "endAll"

Shape == \A q \in Request : ShapeOf(req[q])

TypeInv == TypeOK /\ Shape

----------------------------------------------------------------------------
(* The tables, row by row.                                                 *)

\* Where the lookup of a token leads, by the stage that asked
\* (session.go:292-304, :391-424).
LEMMA Tables ==
    ASSUME NEW R
    PROVE  /\ R.stage = "resolve" =>
                 FoundAt(R) = "gate" /\ UnresolvedAt(R) = "limit" /\ EndedAt(R) = "refused"
           /\ R.stage = "revoke" =>
                 FoundAt(R) = "endRead" /\ UnresolvedAt(R) = "revPointer" /\ EndedAt(R) = "done"
           /\ R.stage = "rotate" =>
                 /\ FoundAt(R) \in {"spend", "name"}
                 /\ UnresolvedAt(R) = "refused"
                 /\ EndedAt(R) = "refused"
           /\ R.stage = "rotate" /\ R.tok # R.held => FoundAt(R) = "name"
           /\ R.stage = "end" => EndedAt(R) = "done"
           /\ R.stage = "endAll" => EndedAt(R) = "next"
BY DEF FoundAt, UnresolvedAt, EndedAt

\* The walk over the sets stays within them (session.go:174-189).
LEMMA SetsKeys == Len(Sets) = 3 /\ \A n \in 1..3 : Sets[n] \in Keys
BY DEF Sets, Keys

\* A capped end is a time (session.go:191-210).
LEMMA CapEndType ==
    ASSUME TypeOK, NEW a \in Nat, NEW w \in Nat
    PROVE  CapEnd(a, w) \in Nat
BY SessionsAssumption DEF CapEnd, TypeOK

\* The limit that caps it is one the policy states (session.go:201-210).
LEMMA CapEndCapped ==
    ASSUME TypeOK, NEW a \in Nat, NEW w \in Nat, a # 0, 0 \notin Limits
    PROVE  \E l \in Limits : CapEnd(a, w) <= a + l
<1>1. limit \in Limits /\ limit \in Nat /\ limit # 0 /\ now \in Nat
  BY SessionsAssumption DEF TypeOK
<1>2. CapEnd(a, w) <= a + limit
  BY <1>1 DEF CapEnd
<1>. QED
  BY <1>1, <1>2

\* A request that moves keeps the requests well formed.
LEMMA Moved ==
    ASSUME TypeInv, NEW q \in Request, NEW r \in RequestType, ShapeOf(r), Goto(q, r)
    PROVE  req' \in [Request -> RequestType] /\ Shape'
<1>1. req \in [Request -> RequestType] /\ req' = [req EXCEPT ![q] = r]
  BY DEF TypeInv, TypeOK, Goto
<1>2. \A p \in Request : req'[p] = IF p = q THEN r ELSE req[p]
  BY <1>1
<1>. QED
  BY <1>1, <1>2 DEF TypeInv, Shape

----------------------------------------------------------------------------
(* Type correctness.                                                       *)

\* A request that has read nothing is a request record.
LEMMA IdleType == \A q \in Request : Idle(q) \in RequestType
BY DEF Idle, RequestType, Stages, PCs, Keys, Finished

\* It is about no session, so it owes no shape (storage.go:895-908).
LEMMA IdleShape == \A q \in Request : ShapeOf(Idle(q))
BY DEF Idle, ShapeOf

\* The records a request arrives with.
LEMMA ArrivalType ==
    ASSUME NEW r \in RequestType
    PROVE  /\ \A a \in Nat :
                 [r EXCEPT !.stage = "open", !.pc = "issue", !.auth = a] \in RequestType
           /\ \A t \in Request, b \in BOOLEAN :
                 [r EXCEPT !.stage = "resolve", !.pc = "pointer",
                           !.held = t, !.tok = t, !.late = b] \in RequestType
           /\ \A t \in Request :
                 [r EXCEPT !.stage = "revoke", !.pc = "pointer",
                           !.held = t, !.tok = t] \in RequestType
           /\ \A t \in Request :
                 [r EXCEPT !.stage = "end", !.pc = "endRead", !.sid = t] \in RequestType
           /\ \A k \in Keys, st \in {"list", "endAll", "sweep"} :
                 [r EXCEPT !.stage = st, !.pc = "members", !.key = k] \in RequestType
<1>1. {"open", "resolve", "revoke", "end", "list", "endAll", "sweep"} \subseteq Stages
  BY DEF Stages
<1>2. {"issue", "pointer", "endRead", "members"} \subseteq PCs
  BY DEF PCs
<1>. QED
  BY <1>1, <1>2 DEF RequestType

\* A step of a request that leaves the store alone.
LEMMA ReadType ==
    ASSUME TypeInv, NEW q \in Request, NEW r \in RequestType, ShapeOf(r), Goto(q, r),
           UNCHANGED <<now, limit, store, spentAt>>, raced' \subseteq Request
    PROVE  TypeInv'
BY Moved DEF TypeInv, TypeOK, store

\* The empty store and idle requests are well typed.
LEMMA InitType == Init => TypeInv
<1>. SUFFICES ASSUME Init PROVE TypeInv
  OBVIOUS
<1>. QED
  BY IdleType, IdleShape, SessionsAssumption DEF Init, TypeInv, TypeOK, Shape

\* A request arrives.
LEMMA ArriveType ==
    ASSUME TypeInv, NEW q \in Request,
           StartOpen(q) \/ StartRefresh(q) \/ StartRevoke(q) \/ StartEnd(q) \/ StartList(q)
    PROVE  TypeInv'
<1>1. \A r : Arrive(q, r) /\ r \in RequestType /\ ShapeOf(r) => TypeInv'
  BY ReadType DEF Arrive, TypeInv, TypeOK
<1>2. \A t \in Given : t \in Request
  BY DEF Given, TypeInv, TypeOK, RequestType
<1>3. now \in Nat /\ \A a \in 0..now : a \in Nat
  BY DEF TypeInv, TypeOK
<1>4. CASE StartOpen(q)
  <2>1. PICK a \in 0..now : Arrive(q, [Idle(q) EXCEPT !.stage = "open", !.pc = "issue", !.auth = a])
    BY <1>4 DEF StartOpen
  <2>2. [Idle(q) EXCEPT !.stage = "open", !.pc = "issue", !.auth = a] \in RequestType
    BY IdleType, ArrivalType, <2>1, <1>3
  <2>3. ShapeOf([Idle(q) EXCEPT !.stage = "open", !.pc = "issue", !.auth = a])
    BY DEF Idle, ShapeOf
  <2>. QED
    BY <1>1, <2>1, <2>2, <2>3
<1>5. CASE StartRefresh(q)
  <2>. DEFINE r(t) == [Idle(q) EXCEPT !.stage = "resolve", !.pc = "pointer",
                                    !.held = t, !.tok = t, !.late = LongSpent(t)]
  <2>1. PICK t \in Given : Arrive(q, r(t))
    BY <1>5 DEF StartRefresh
  <2>2. LongSpent(t) \in BOOLEAN
    BY DEF LongSpent
  <2>3. r(t) \in RequestType
    BY IdleType, ArrivalType, <2>2, <1>2
  <2>4. ShapeOf(r(t))
    BY DEF Idle, ShapeOf
  <2>. QED
    BY <1>1, <2>1, <2>3, <2>4
<1>6. CASE StartRevoke(q)
  <2>1. PICK t \in Given : Arrive(q, [Idle(q) EXCEPT !.stage = "revoke", !.pc = "pointer", !.held = t, !.tok = t])
    BY <1>6 DEF StartRevoke
  <2>2. [Idle(q) EXCEPT !.stage = "revoke", !.pc = "pointer", !.held = t, !.tok = t] \in RequestType
    BY IdleType, ArrivalType, <2>1, <1>2
  <2>3. ShapeOf([Idle(q) EXCEPT !.stage = "revoke", !.pc = "pointer", !.held = t, !.tok = t])
    BY DEF Idle, ShapeOf
  <2>. QED
    BY <1>1, <2>1, <2>2, <2>3
<1>7. CASE StartEnd(q)
  <2>1. PICK s \in Request : Arrive(q, [Idle(q) EXCEPT !.stage = "end", !.pc = "endRead", !.sid = s])
    BY <1>7 DEF StartEnd
  <2>2. [Idle(q) EXCEPT !.stage = "end", !.pc = "endRead", !.sid = s] \in RequestType
    BY IdleType, ArrivalType, <2>1
  <2>3. ShapeOf([Idle(q) EXCEPT !.stage = "end", !.pc = "endRead", !.sid = s])
    BY DEF Idle, ShapeOf
  <2>. QED
    BY <1>1, <2>1, <2>2, <2>3
<1>8. CASE StartList(q)
  <2>1. PICK k \in Keys, st \in {"list", "endAll", "sweep"} : Arrive(q, [Idle(q) EXCEPT !.stage = st, !.pc = "members", !.key = k])
    BY <1>8 DEF StartList
  <2>2. [Idle(q) EXCEPT !.stage = st, !.pc = "members", !.key = k] \in RequestType
    BY IdleType, ArrivalType, <2>1
  <2>3. ShapeOf([Idle(q) EXCEPT !.stage = st, !.pc = "members", !.key = k])
    BY DEF Idle, ShapeOf
  <2>. QED
    BY <1>1, <2>1, <2>2, <2>3
<1>. QED
  BY <1>4, <1>5, <1>6, <1>7, <1>8

\* A request's record stays one when it moves on.
LEMMA MoveType ==
    ASSUME NEW R \in RequestType, NEW p \in PCs
    PROVE  /\ [R EXCEPT !.pc = p] \in RequestType
           /\ \A s \in Request : [R EXCEPT !.sid = s, !.pc = p] \in RequestType
           /\ \A t \in Request : [R EXCEPT !.tok = t, !.pc = p] \in RequestType
           /\ \A a, i \in Nat : [R EXCEPT !.auth = a, !.issued = i, !.cred = R.tok, !.pc = p] \in RequestType
           /\ \A t \in Request : [R EXCEPT !.stage = "rotate", !.pc = p, !.tok = t] \in RequestType
           /\ \A t \in Request, e \in Nat :
                 [R EXCEPT !.cred = t, !.expires = e, !.pc = p] \in RequestType
           /\ \A t \in Request, i, e \in Nat :
                 [R EXCEPT !.pc = p, !.cred = t, !.issued = i, !.expires = e] \in RequestType
           /\ [R EXCEPT !.n = 1, !.pc = p] \in RequestType
           /\ R.n < 3 => [R EXCEPT !.n = @ + 1] \in RequestType
           /\ \A T \in SUBSET Request : [R EXCEPT !.todo = T, !.pc = p] \in RequestType
           /\ \A s \in Request :
                 [R EXCEPT !.todo = @ \ {s}, !.sel = @ \cup {s}] \in RequestType
           /\ \A s \in Request : [R EXCEPT !.todo = @ \ {s}] \in RequestType
           /\ \A s \in Request :
                 [R EXCEPT !.todo = @ \ {s}, !.sid = s, !.pc = p] \in RequestType
           /\ \A s \in Request :
                 [R EXCEPT !.sel = @ \ {s}, !.sid = s, !.pc = p] \in RequestType
<1>1. [R EXCEPT !.pc = p] \in RequestType
  BY DEF RequestType, Stages
<1>2. \A s \in Request : [R EXCEPT !.sid = s, !.pc = p] \in RequestType
  BY DEF RequestType, Stages
<1>3. \A t \in Request : [R EXCEPT !.tok = t, !.pc = p] \in RequestType
  BY DEF RequestType, Stages
<1>4. \A a, i \in Nat : [R EXCEPT !.auth = a, !.issued = i, !.cred = R.tok, !.pc = p] \in RequestType
  BY DEF RequestType, Stages
<1>5. \A t \in Request : [R EXCEPT !.stage = "rotate", !.pc = p, !.tok = t] \in RequestType
  BY DEF RequestType, Stages
<1>6. \A t \in Request, e \in Nat :
         [R EXCEPT !.cred = t, !.expires = e, !.pc = p] \in RequestType
  BY DEF RequestType, Stages
<1>7. \A t \in Request, i, e \in Nat :
         [R EXCEPT !.pc = p, !.cred = t, !.issued = i, !.expires = e] \in RequestType
  BY DEF RequestType, Stages
<1>8. [R EXCEPT !.n = 1, !.pc = p] \in RequestType
  <2>1. \A n \in 1..3 : [R EXCEPT !.n = n, !.pc = p] \in RequestType
    BY DEF RequestType
  <2>. QED
    BY <2>1
<1>9. R.n < 3 => [R EXCEPT !.n = @ + 1] \in RequestType
  BY DEF RequestType, Stages
<1>10. \A T \in SUBSET Request : [R EXCEPT !.todo = T, !.pc = p] \in RequestType
  BY DEF RequestType, Stages
<1>11. \A s \in Request :
         [R EXCEPT !.todo = @ \ {s}, !.sel = @ \cup {s}] \in RequestType
  BY DEF RequestType, Stages
<1>12. \A s \in Request :
         [R EXCEPT !.todo = @ \ {s}, !.sid = s, !.pc = p] \in RequestType
  BY DEF RequestType, Stages
<1>13. \A s \in Request :
         [R EXCEPT !.sel = @ \ {s}, !.sid = s, !.pc = p] \in RequestType
  BY DEF RequestType, Stages
<1>14. \A s \in Request : [R EXCEPT !.todo = @ \ {s}] \in RequestType
  BY DEF RequestType
<1>. QED
  BY <1>1, <1>2, <1>3, <1>4, <1>5, <1>6, <1>7, <1>8, <1>9, <1>10, <1>11, <1>12, <1>13, <1>14

\* Where the tables lead is a place, and one of the stage that asked.
LEMMA TablesType ==
    ASSUME NEW R \in RequestType, ShapeOf(R)
    PROVE  /\ R.pc \in {"pointer", "record", "rotated"} =>
                 /\ MissedAt(R) \in PCs /\ ShapeOf([R EXCEPT !.pc = MissedAt(R)])
                 /\ UnresolvedAt(R) \in PCs /\ ShapeOf([R EXCEPT !.pc = UnresolvedAt(R)])
                 /\ FoundAt(R) \in PCs
                 /\ \A a, i : ShapeOf([R EXCEPT !.auth = a, !.issued = i, !.cred = R.tok, !.pc = FoundAt(R)])
           /\ R.pc \in {"endRead", "endRemove"} =>
                 EndedAt(R) \in PCs /\ ShapeOf([R EXCEPT !.pc = EndedAt(R)])
<1>1. CASE R.pc \in {"pointer", "record", "rotated"}
  <2>1. R.stage \in {"resolve", "rotate", "revoke"}
    BY <1>1 DEF ShapeOf
  <2>. QED
    BY <1>1, <2>1, Tables DEF MissedAt, ShapeOf, PCs, Finished, RequestType
<1>2. CASE R.pc \in {"endRead", "endRemove"}
  <2>1. R.stage \in {"resolve", "rotate", "revoke", "end", "endAll"}
    BY <1>2 DEF ShapeOf
  <2>. QED
    BY <1>2, <2>1, Tables DEF ShapeOf, PCs, Finished, RequestType
<1>. QED
  BY <1>1, <1>2

\* The reads of ByToken, byID and replayed, and what is decided on them.
LEMMA LookupType ==
    ASSUME TypeInv, NEW q \in Request,
           GetPointer(q) \/ GetRecord(q) \/ GetRotated(q) \/ Gate(q) \/ LimitRead(q)
    PROVE  TypeInv'
<1>. DEFINE R == req[q]
<1>1. R \in RequestType /\ ShapeOf(R) /\ raced \subseteq Request
  BY DEF TypeInv, TypeOK, Shape
<1>2. R.tok \in Request /\ R.held \in Request /\ R.sid \in Request
  BY <1>1 DEF RequestType
<1>3. /\ \A t \in Request : pointer[t].sid \in Request /\ rotated[t].succ \in Request
      /\ \A s \in Request : record[s].auth \in Nat /\ record[s].issued \in Nat
  BY DEF TypeInv, TypeOK
<1>4. {"record", "pointer", "limitRecord", "endDelete", "issue", "refused"} \subseteq PCs
  BY DEF PCs, Finished
<1>5. CASE GetPointer(q)
  <2>1. CASE Goto(q, [R EXCEPT !.sid = pointer[R.tok].sid, !.pc = "record"])
    <3>1. ShapeOf([R EXCEPT !.sid = pointer[R.tok].sid, !.pc = "record"])
      BY <1>1, <1>5 DEF GetPointer, ShapeOf, RequestType
    <3>. QED
      BY <1>1, <1>2, <1>3, <1>4, <1>5, <2>1, <3>1, MoveType, ReadType DEF GetPointer
  <2>2. CASE Goto(q, [R EXCEPT !.pc = MissedAt(R)])
    BY <1>1, <1>5, <2>2, TablesType, MoveType, ReadType DEF GetPointer
  <2>. QED
    BY <1>5, <2>1, <2>2 DEF GetPointer
<1>6. CASE GetRecord(q)
  <2>1. CASE Goto(q, [R EXCEPT !.auth = record[R.sid].auth, !.issued = record[R.sid].issued,
                               !.cred = R.tok, !.pc = FoundAt(R)])
    BY <1>1, <1>2, <1>3, <1>6, <2>1, TablesType, MoveType, ReadType DEF GetRecord
  <2>2. CASE Goto(q, [R EXCEPT !.pc = MissedAt(R)])
    BY <1>1, <1>6, <2>2, TablesType, MoveType, ReadType DEF GetRecord
  <2>. QED
    BY <1>6, <2>1, <2>2 DEF GetRecord
<1>7. CASE GetRotated(q)
  <2>1. CASE Goto(q, [R EXCEPT !.tok = rotated[R.held].succ, !.pc = "pointer"])
    <3>1. ShapeOf([R EXCEPT !.tok = rotated[R.held].succ, !.pc = "pointer"])
      BY <1>1, <1>7 DEF GetRotated, ShapeOf, RequestType
    <3>. QED
      BY <1>1, <1>2, <1>3, <1>4, <1>7, <2>1, <3>1, MoveType, ReadType DEF GetRotated
  <2>2. CASE Goto(q, [R EXCEPT !.pc = UnresolvedAt(R)])
    BY <1>1, <1>7, <2>2, TablesType, MoveType, ReadType DEF GetRotated
  <2>. QED
    BY <1>7, <2>1, <2>2 DEF GetRotated
<1>8. CASE Gate(q)
  <2>1. PICK p \in {"endDelete", "issue", "refused"} : Goto(q, [R EXCEPT !.pc = p])
    BY <1>8 DEF Gate
  <2>2. ShapeOf([R EXCEPT !.pc = p])
    BY <1>1, <1>8, <2>1 DEF Gate, ShapeOf, RequestType
  <2>. QED
    BY <1>1, <1>4, <1>8, <2>1, <2>2, MoveType, ReadType DEF Gate
<1>9. CASE LimitRead(q)
  <2>1. CASE R.pc = "limit" /\ Goto(q, [R EXCEPT !.sid = pointer[R.held].sid, !.pc = "limitRecord"])
    <3>1. ShapeOf([R EXCEPT !.sid = pointer[R.held].sid, !.pc = "limitRecord"])
      BY <1>1, <2>1 DEF ShapeOf, RequestType
    <3>. QED
      BY <1>1, <1>2, <1>3, <1>4, <1>9, <2>1, <3>1, MoveType, ReadType DEF LimitRead
  <2>3. CASE R.pc = "limitRecord" /\ Goto(q, [R EXCEPT !.pc = "endDelete"])
    <3>1. ShapeOf([R EXCEPT !.pc = "endDelete"])
      BY <1>1, <2>3 DEF ShapeOf, RequestType
    <3>. QED
      BY <1>1, <1>4, <1>9, <2>3, <3>1, MoveType, ReadType DEF LimitRead
  <2>2. CASE Goto(q, [R EXCEPT !.pc = "refused"])
    <3>1. ShapeOf([R EXCEPT !.pc = "refused"])
      BY <1>1 DEF ShapeOf, RequestType
    <3>. QED
      BY <1>1, <1>4, <1>9, <2>2, <3>1, MoveType, ReadType DEF LimitRead
  <2>. QED
    BY <1>9, <2>1, <2>2, <2>3 DEF LimitRead
<1>. QED
  BY <1>5, <1>6, <1>7, <1>8, <1>9

\* CreateAccessAndRefreshTokens, Record and Refreshed.
LEMMA MintType ==
    ASSUME TypeInv, NEW q \in Request,
           \/ Issue(q) \/ Spend(q) \/ SetRotated(q) \/ Put(q)
           \/ SetPointer(q) \/ AddToSet(q) \/ NameSession(q)
    PROVE  TypeInv'
<1>. DEFINE R == req[q]
<1>1. R \in RequestType /\ ShapeOf(R) /\ TypeOK
  BY DEF TypeInv, TypeOK, Shape
<1>2. /\ R.held \in Request /\ R.sid \in Request /\ R.auth \in Nat /\ R.issued \in Nat
      /\ R.expires \in Nat /\ R.n \in 1..3
  BY <1>1 DEF RequestType
<1>3. {"put", "pointer", "setRotated", "endDelete", "setPointer", "add", "name", "done"}
         \subseteq PCs
  BY DEF PCs, Finished
<1>4. now \in Nat /\ now + Lifetime \in Nat /\ now + Grace \in Nat
  BY SessionsAssumption DEF TypeInv, TypeOK
<1>5. \A a \in Nat : CapEnd(a, Lifetime) \in Nat /\ CapEnd(a, TokenLife) \in Nat
  BY <1>1, CapEndType, SessionsAssumption
<1>6. CASE Issue(q)
  <2>1. PICK e \in Nat : access' = [access EXCEPT ![q] = [session |-> NoSession, until |-> e]]
    <3>. DEFINE from == IF R.stage = "resolve" /\ R.auth = 0 THEN R.issued ELSE R.auth
    <3>1. from \in Nat
      BY <1>1, <1>2 DEF TypeOK
    <3>2. CapEnd(from, TokenLife) \in Nat
      BY <3>1, <1>5
    <3>3. access' = [access EXCEPT ![q] =
                        [session |-> NoSession, until |-> CapEnd(from, TokenLife)]]
      BY <1>6 DEF Issue
    <3>. QED
      BY <3>2, <3>3
  <2>2. req' \in [Request -> RequestType] /\ Shape'
    <3>1. CASE R.stage = "open"
      <4>. DEFINE r == [R EXCEPT !.pc = "put", !.cred = q, !.issued = now, !.expires = CapEnd(R.auth, Lifetime)]
      <4>1. Goto(q, r)
        BY <1>6, <3>1 DEF Issue
      <4>2. r \in RequestType
        BY <1>1, <1>2, <1>3, <1>4, <1>5, MoveType
      <4>3. ShapeOf(r)
        BY <1>1, <3>1 DEF ShapeOf, RequestType
      <4>. QED
        BY <4>1, <4>2, <4>3, Moved
    <3>2. CASE R.stage # "open"
      <4>. DEFINE r == [R EXCEPT !.stage = "rotate", !.pc = "pointer", !.tok = R.held]
      <4>1. Goto(q, r)
        BY <1>6, <3>2 DEF Issue
      <4>2. r \in RequestType
        BY <1>1, <1>2, <1>3, MoveType
      <4>3. ShapeOf(r)
        BY <1>1, <3>2 DEF ShapeOf, RequestType
      <4>. QED
        BY <4>1, <4>2, <4>3, Moved
    <3>. QED
      BY <3>1, <3>2
  <2>3. access' \in [Request -> [session : Request \cup {NoSession}, until : Nat]]
    <3>. DEFINE N == Request \cup {NoSession}
    <3>1. NoSession \in N /\ access \in [Request -> [session : N, until : Nat]]
      BY <1>1 DEF TypeOK
    <3>. HIDE DEF N
    <3>2. access' \in [Request -> [session : N, until : Nat]]
      BY <2>1, <3>1
    <3>. QED
      BY <3>2 DEF N
  <2>. QED
    BY <1>1, <1>6, <2>2, <2>3 DEF Issue, TypeInv, TypeOK
<1>7. CASE Spend(q)
  <2>1. ShapeOf([R EXCEPT !.pc = "setRotated"])
    BY <1>1, <1>7 DEF Spend, ShapeOf, RequestType
  <2>2. req' \in [Request -> RequestType] /\ Shape'
    BY <1>1, <1>3, <1>7, <2>1, MoveType, Moved DEF Spend
  <2>3. pointer' \in [Request -> [sid : Request, until : Nat]]
    BY <1>1, <1>2, <1>7 DEF Spend, TypeOK
  <2>. QED
    BY <1>1, <1>7, <2>2, <2>3 DEF Spend, TypeInv, TypeOK
<1>8. CASE SetRotated(q)
  <2>1. PICK p \in {"put", "endDelete"} :
           Goto(q, [R EXCEPT !.cred = q, !.expires = CapEnd(R.auth, Lifetime), !.pc = p])
    BY <1>8 DEF SetRotated
  <2>2. ShapeOf([R EXCEPT !.cred = q, !.expires = CapEnd(R.auth, Lifetime), !.pc = p])
    BY <1>1, <1>8, <2>1 DEF SetRotated, ShapeOf, RequestType
  <2>3. req' \in [Request -> RequestType] /\ Shape'
    BY <1>1, <1>2, <1>3, <1>5, <2>1, <2>2, MoveType, Moved
  <2>4. rotated' \in [Request -> [succ : Request, until : Nat]]
    BY <1>1, <1>2, <1>4, <1>8 DEF SetRotated, TypeOK
  <2>5. spentAt' \in [Request -> Nat]
    BY <1>1, <1>2, <1>4, <1>8 DEF SetRotated, TypeOK
  <2>. QED
    BY <1>1, <1>8, <2>3, <2>4, <2>5 DEF SetRotated, TypeInv, TypeOK
<1>9. CASE Put(q)
  <2>1. ShapeOf([R EXCEPT !.pc = "setPointer"])
    BY <1>1, <1>9 DEF Put, ShapeOf, RequestType
  <2>2. req' \in [Request -> RequestType] /\ Shape'
    BY <1>1, <1>3, <1>9, <2>1, MoveType, Moved DEF Put
  <2>3. record' \in [Request -> [auth : Nat, issued : Nat, expires : Nat, until : Nat]]
    BY <1>1, <1>2, <1>4, <1>9 DEF Put, TypeOK
  <2>. QED
    BY <1>1, <1>9, <2>2, <2>3 DEF Put, TypeInv, TypeOK
<1>10. CASE SetPointer(q)
  <2>1. ShapeOf([R EXCEPT !.pc = "add"])
    BY <1>1, <1>10 DEF SetPointer, ShapeOf, RequestType
  <2>2. req' \in [Request -> RequestType] /\ Shape'
    BY <1>1, <1>3, <1>10, <2>1, MoveType, Moved DEF SetPointer
  <2>3. pointer' \in [Request -> [sid : Request, until : Nat]]
    BY <1>1, <1>2, <1>4, <1>10 DEF SetPointer, TypeOK
  <2>. QED
    BY <1>1, <1>10, <2>2, <2>3 DEF SetPointer, TypeInv, TypeOK
<1>11. CASE AddToSet(q)
  <2>1. req' \in [Request -> RequestType] /\ Shape'
    <3>1. CASE R.n < Len(Sets)
      <4>1. ShapeOf([R EXCEPT !.n = @ + 1])
        BY <1>1, <1>11 DEF AddToSet, ShapeOf, RequestType
      <4>. QED
        BY <1>1, <1>3, <1>11, <3>1, <4>1, SetsKeys, MoveType, Moved DEF AddToSet
    <3>2. CASE ~(R.n < Len(Sets))
      <4>1. ShapeOf([R EXCEPT !.pc = "name"])
        BY <1>1, <1>11 DEF AddToSet, ShapeOf, RequestType
      <4>. QED
        BY <1>1, <1>3, <1>11, <3>2, <4>1, MoveType, Moved DEF AddToSet
    <3>. QED
      BY <3>1, <3>2
  <2>2. Sets[R.n] \in Keys
    BY <1>2, SetsKeys
  <2>3. Members(Sets[R.n]) \in SUBSET Request
    BY <1>1, <2>2 DEF Members, TypeOK
  <2>4. index' \in [Keys -> SUBSET Request] /\ indexUntil' \in [Keys -> Nat]
    BY <1>1, <1>2, <1>4, <1>11, <2>2, <2>3 DEF AddToSet, TypeOK
  <2>. QED
    BY <1>1, <1>11, <2>1, <2>4 DEF AddToSet, TypeInv, TypeOK
<1>12. CASE NameSession(q)
  <2>1. ShapeOf([R EXCEPT !.pc = "done"])
    BY <1>1, <1>12 DEF NameSession, ShapeOf, RequestType
  <2>2. req' \in [Request -> RequestType] /\ Shape'
    BY <1>1, <1>3, <1>12, <2>1, MoveType, Moved DEF NameSession
  <2>3. access' \in [Request -> [session : Request \cup {NoSession}, until : Nat]]
    <3>. DEFINE N == Request \cup {NoSession}
    <3>1. R.sid \in N /\ access \in [Request -> [session : N, until : Nat]]
      BY <1>1, <1>2 DEF TypeOK
    <3>2. access' = [access EXCEPT ![q].session = R.sid]
      BY <1>12 DEF NameSession
    <3>. HIDE DEF N, R
    <3>3. access' \in [Request -> [session : N, until : Nat]]
      BY <3>1, <3>2
    <3>. QED
      BY <3>3 DEF N
  <2>. QED
    BY <1>1, <1>12, <2>2, <2>3 DEF NameSession, TypeInv, TypeOK
<1>. QED
  BY <1>6, <1>7, <1>8, <1>9, <1>10, <1>11, <1>12

\* RevokeID, deleteSession and RevokeToken's own reads and deletes.
LEMMA EndType ==
    ASSUME TypeInv, NEW q \in Request,
           \/ RevokePointer(q) \/ RevokeDelete(q)
           \/ EndRead(q) \/ EndDelete(q) \/ EndRemove(q)
    PROVE  TypeInv'
<1>. DEFINE R == req[q]
<1>1. R \in RequestType /\ ShapeOf(R) /\ TypeOK
  BY DEF TypeInv, TypeOK, Shape
<1>2. R.held \in Request /\ R.sid \in Request /\ R.n \in 1..3 /\ pointer[R.held].sid \in Request
  BY <1>1 DEF RequestType, TypeOK
<1>3. {"revDelete", "refused", "endRead", "endDelete", "endRemove"} \subseteq PCs
  BY DEF PCs, Finished
<1>4. RacedWith(R.sid) \subseteq Request
  BY <1>1, <1>2 DEF RacedWith, TypeOK
<1>5. CASE RevokePointer(q)
  <2>1. CASE Goto(q, [R EXCEPT !.sid = pointer[R.held].sid, !.pc = "revDelete"])
    <3>1. ShapeOf([R EXCEPT !.sid = pointer[R.held].sid, !.pc = "revDelete"])
      BY <1>1, <1>5 DEF RevokePointer, ShapeOf, RequestType
    <3>. QED
      BY <1>1, <1>2, <1>3, <1>5, <2>1, <3>1, MoveType, ReadType DEF RevokePointer, TypeOK
  <2>2. CASE Goto(q, [R EXCEPT !.pc = "refused"])
    <3>1. ShapeOf([R EXCEPT !.pc = "refused"])
      BY <1>1 DEF ShapeOf, RequestType
    <3>. QED
      BY <1>1, <1>3, <1>5, <2>2, <3>1, MoveType, ReadType DEF RevokePointer, TypeOK
  <2>. QED
    BY <1>5, <2>1, <2>2 DEF RevokePointer
<1>6. CASE RevokeDelete(q)
  <2>1. ShapeOf([R EXCEPT !.pc = "endRead"])
    BY <1>1, <1>6 DEF RevokeDelete, ShapeOf, RequestType
  <2>2. req' \in [Request -> RequestType] /\ Shape'
    BY <1>1, <1>3, <1>6, <2>1, MoveType, Moved DEF RevokeDelete
  <2>3. pointer' \in [Request -> [sid : Request, until : Nat]]
    BY <1>1, <1>2, <1>6 DEF RevokeDelete, TypeOK
  <2>. QED
    BY <1>1, <1>6, <2>2, <2>3 DEF RevokeDelete, TypeInv, TypeOK
<1>7. CASE EndRead(q)
  <2>1. CASE Goto(q, [R EXCEPT !.pc = "endDelete"])
    <3>1. ShapeOf([R EXCEPT !.pc = "endDelete"])
      BY <1>1, <1>7 DEF EndRead, ShapeOf, RequestType
    <3>2. raced' \subseteq Request
      BY <1>1, <1>4, <1>7 DEF EndRead, TypeOK
    <3>. QED
      BY <1>1, <1>3, <1>7, <2>1, <3>1, <3>2, MoveType, ReadType DEF EndRead
  <2>2. CASE Goto(q, [R EXCEPT !.pc = EndedAt(R)])
    <3>1. raced' \subseteq Request
      BY <1>1, <1>4, <1>7 DEF EndRead, TypeOK
    <3>. QED
      BY <1>1, <1>7, <2>2, <3>1, TablesType, MoveType, ReadType DEF EndRead
  <2>. QED
    BY <1>7, <2>1, <2>2 DEF EndRead
<1>8. CASE EndDelete(q)
  <2>1. ShapeOf([R EXCEPT !.n = 1, !.pc = "endRemove"])
    BY <1>1, <1>8 DEF EndDelete, ShapeOf, RequestType
  <2>2. req' \in [Request -> RequestType] /\ Shape'
    BY <1>1, <1>3, <1>8, <2>1, MoveType, Moved DEF EndDelete
  <2>3. record' \in [Request -> [auth : Nat, issued : Nat, expires : Nat, until : Nat]]
    BY <1>1, <1>2, <1>8 DEF EndDelete, TypeOK
  <2>. QED
    BY <1>1, <1>4, <1>8, <2>2, <2>3 DEF EndDelete, TypeInv, TypeOK
<1>9. CASE EndRemove(q)
  <2>1. req' \in [Request -> RequestType] /\ Shape'
    <3>1. CASE R.n < Len(Sets)
      <4>1. ShapeOf([R EXCEPT !.n = @ + 1])
        BY <1>1, <1>9 DEF EndRemove, ShapeOf, RequestType
      <4>. QED
        BY <1>1, <1>3, <1>9, <3>1, <4>1, SetsKeys, MoveType, Moved DEF EndRemove
    <3>2. CASE ~(R.n < Len(Sets))
      BY <1>1, <1>9, <3>2, TablesType, MoveType, Moved DEF EndRemove
    <3>. QED
      BY <3>1, <3>2
  <2>2. Sets[R.n] \in Keys
    BY <1>2, SetsKeys
  <2>3. index' \in [Keys -> SUBSET Request]
    BY <1>1, <1>9, <2>2 DEF EndRemove, TypeOK
  <2>. QED
    BY <1>1, <1>9, <2>1, <2>3 DEF EndRemove, TypeInv, TypeOK
<1>. QED
  BY <1>5, <1>6, <1>7, <1>8, <1>9

\* List and Revoke: the walk over one set, and its repair.
LEMMA WalkType ==
    ASSUME TypeInv, NEW q \in Request,
           ReadMembers(q) \/ Scan(q) \/ Repair(q) \/ ScanDone(q) \/ EndNext(q) \/ Fail(q)
    PROVE  TypeInv'
<1>. DEFINE R == req[q]
<1>1. R \in RequestType /\ ShapeOf(R) /\ TypeOK /\ raced \subseteq Request
  BY DEF TypeInv, TypeOK, Shape
<1>2. R.sid \in Request /\ R.key \in Keys /\ R.todo \subseteq Request /\ R.sel \subseteq Request
  BY <1>1 DEF RequestType
<1>3. {"scan", "repair", "done", "next", "endRead", "failed"} \subseteq PCs
  BY DEF PCs, Finished
<1>4. CASE ReadMembers(q)
  <2>1. Members(R.key) \in SUBSET Request
    BY <1>1, <1>2 DEF Members, TypeOK
  <2>2. ShapeOf([R EXCEPT !.todo = Members(R.key), !.pc = "scan"])
    BY <1>1, <1>4 DEF ReadMembers, ShapeOf, RequestType
  <2>. QED
    BY <1>1, <1>3, <1>4, <2>1, <2>2, MoveType, ReadType DEF ReadMembers
<1>5. CASE Scan(q)
  <2>1. PICK s \in R.todo :
           \/ /\ Goto(q, [R EXCEPT !.todo = @ \ {s}, !.sel = @ \cup {s}])
              /\ raced' = raced
           \/ /\ Goto(q, [R EXCEPT !.todo = @ \ {s}, !.sid = s, !.pc = "repair"])
              /\ raced' = RacedWith(s)
              /\ R.stage # "sweep"
           \/ /\ Goto(q, [R EXCEPT !.todo = @ \ {s}])
              /\ raced' = raced
    BY <1>5 DEF Scan
  <2>2. s \in Request /\ raced' \subseteq Request
    BY <1>1, <1>2, <2>1 DEF RacedWith
  <2>3. CASE Goto(q, [R EXCEPT !.todo = @ \ {s}, !.sel = @ \cup {s}])
    <3>1. ShapeOf([R EXCEPT !.todo = @ \ {s}, !.sel = @ \cup {s}])
      BY <1>1, <1>5 DEF Scan, ShapeOf, RequestType
    <3>2. [R EXCEPT !.todo = @ \ {s}, !.sel = @ \cup {s}] \in RequestType
      BY <1>1, <1>3, <2>2, MoveType
    <3>. QED
      BY <1>5, <2>2, <2>3, <3>1, <3>2, ReadType DEF Scan
  <2>4. CASE Goto(q, [R EXCEPT !.todo = @ \ {s}, !.sid = s, !.pc = "repair"]) /\ R.stage # "sweep"
    <3>1. ShapeOf([R EXCEPT !.todo = @ \ {s}, !.sid = s, !.pc = "repair"])
      BY <1>1, <1>5, <2>4 DEF Scan, ShapeOf, RequestType
    <3>2. [R EXCEPT !.todo = @ \ {s}, !.sid = s, !.pc = "repair"] \in RequestType
      BY <1>1, <1>3, <2>2, MoveType
    <3>. QED
      BY <1>5, <2>2, <2>4, <3>1, <3>2, ReadType DEF Scan
  <2>5. CASE Goto(q, [R EXCEPT !.todo = @ \ {s}])
    <3>1. ShapeOf([R EXCEPT !.todo = @ \ {s}])
      BY <1>1, <1>5 DEF Scan, ShapeOf, RequestType
    <3>2. [R EXCEPT !.todo = @ \ {s}] \in RequestType
      BY <1>1, <1>3, <2>2, MoveType
    <3>. QED
      BY <1>5, <2>2, <2>5, <3>1, <3>2, ReadType DEF Scan
  <2>. QED
    BY <2>1, <2>3, <2>4, <2>5
<1>6. CASE Repair(q)
  <2>1. ShapeOf([R EXCEPT !.pc = "scan"])
    BY <1>1, <1>6 DEF Repair, ShapeOf, RequestType
  <2>2. req' \in [Request -> RequestType] /\ Shape'
    BY <1>1, <1>3, <1>6, <2>1, MoveType, Moved DEF Repair
  <2>3. index' \in [Keys -> SUBSET Request]
    BY <1>1, <1>2, <1>6 DEF Repair, TypeOK
  <2>. QED
    BY <1>1, <1>6, <2>2, <2>3 DEF Repair, TypeInv, TypeOK
<1>7. CASE ScanDone(q)
  <2>1. PICK p \in {"done", "next"} :
           /\ Goto(q, [R EXCEPT !.pc = p])
           /\ p = "next" => R.stage = "endAll"
    BY <1>7 DEF ScanDone
  <2>2. ShapeOf([R EXCEPT !.pc = p])
    BY <1>1, <1>7, <2>1 DEF ScanDone, ShapeOf, RequestType
  <2>. QED
    BY <1>1, <1>3, <1>7, <2>1, <2>2, MoveType, ReadType DEF ScanDone
<1>8. CASE EndNext(q)
  <2>1. CASE Goto(q, [R EXCEPT !.pc = "done"])
    <3>1. ShapeOf([R EXCEPT !.pc = "done"])
      BY <1>1 DEF ShapeOf, RequestType
    <3>. QED
      BY <1>1, <1>3, <1>8, <2>1, <3>1, MoveType, ReadType DEF EndNext
  <2>2. ASSUME NEW s \in R.sel, Goto(q, [R EXCEPT !.sel = @ \ {s}, !.sid = s, !.pc = "endRead"])
        PROVE  TypeInv'
    <3>1. ShapeOf([R EXCEPT !.sel = @ \ {s}, !.sid = s, !.pc = "endRead"])
      BY <1>1, <1>8 DEF EndNext, ShapeOf, RequestType
    <3>2. [R EXCEPT !.sel = @ \ {s}, !.sid = s, !.pc = "endRead"] \in RequestType
      BY <1>1, <1>2, <1>3, MoveType
    <3>. QED
      BY <1>1, <1>8, <2>2, <3>1, <3>2, ReadType DEF EndNext
  <2>. QED
    BY <1>8, <2>1, <2>2 DEF EndNext
<1>9. CASE Fail(q)
  <2>1. ShapeOf([R EXCEPT !.pc = "failed"])
    BY <1>1 DEF ShapeOf, RequestType
  <2>. QED
    BY <1>1, <1>3, <1>9, <2>1, MoveType, ReadType DEF Fail
<1>. QED
  BY <1>4, <1>5, <1>6, <1>7, <1>8, <1>9

\* Every step of every request, of the policy and of the clock keeps the
\* types and the shape of the requests.
LEMMA StepType == TypeInv /\ [Next]_vars => TypeInv'
<1>. SUFFICES ASSUME TypeInv, [Next]_vars PROVE TypeInv'
  OBVIOUS
<1>1. CASE SetLimit
  BY <1>1 DEF SetLimit, TypeInv, TypeOK, Shape, store
<1>2. CASE Tick
  BY <1>2 DEF Tick, TypeInv, TypeOK, Shape, store
<1>3. ASSUME NEW q \in Request, RequestStep(q) PROVE TypeInv'
  BY <1>3, ArriveType, LookupType, MintType, EndType, WalkType DEF RequestStep
<1>4. CASE UNCHANGED vars
  BY <1>4 DEF vars, TypeInv, TypeOK, Shape
<1>. QED
  BY <1>1, <1>2, <1>3, <1>4 DEF Next

\* The store and the requests keep their types, and a request is only ever
\* at a place its stage can reach: no lookup asks a table for a row it does
\* not have, and the walk over the three sets never leaves them
\* (session.go:279-283, :343-350, :545-551).
THEOREM TypeCorrect == Spec => [](TypeOK /\ Shape)
<1>1. Init => TypeInv
  BY InitType
<1>2. TypeInv /\ [Next]_vars => TypeInv'
  BY StepType
<1>. QED
  BY <1>1, <1>2, PTL DEF Spec, TypeInv

----------------------------------------------------------------------------
(* The absolute limit.  The record obeys it because the end a refresh is   *)
(* about to write, computed one store call earlier, obeys it.              *)

Within(auth, expires) == auth # 0 => \E l \in Limits : expires <= auth + l

LimitInv ==
    0 \notin Limits =>
        /\ \A s \in Request : Within(record[s].auth, record[s].expires)
        /\ \A q \in Request : req[q].pc = "put" => Within(req[q].auth, req[q].expires)

\* Only Record and Refreshed compute an end: every other step leaves no
\* request about to write one that was not.
LEMMA PutFromMint ==
    ASSUME TypeInv, NEW q \in Request, RequestStep(q), ~Issue(q), ~SetRotated(q)
    PROVE  \A p \in Request : req'[p].pc = "put" => req'[p] = req[p]
<1>. DEFINE R == req[q]
<1>1. R \in RequestType /\ ShapeOf(R) /\ req \in [Request -> RequestType]
  BY DEF TypeInv, TypeOK, Shape
<1>2. \A r : Goto(q, r) /\ r.pc # "put" =>
         \A p \in Request : req'[p].pc = "put" => req'[p] = req[p]
  BY <1>1 DEF Goto
<1>3. /\ R.pc \in {"pointer", "record", "rotated"} =>
            MissedAt(R) # "put" /\ UnresolvedAt(R) # "put" /\ FoundAt(R) # "put"
      /\ R.pc \in {"endRead", "endRemove"} => EndedAt(R) # "put"
  BY <1>1, Tables DEF ShapeOf, MissedAt
<1>4. CASE StartOpen(q) \/ StartRefresh(q) \/ StartRevoke(q) \/ StartEnd(q) \/ StartList(q)
  BY <1>2, <1>4 DEF StartOpen, StartRefresh, StartRevoke, StartEnd, StartList, Arrive, Idle
<1>5. CASE GetPointer(q) \/ GetRecord(q) \/ GetRotated(q)
  BY <1>1, <1>2, <1>3, <1>5 DEF GetPointer, GetRecord, GetRotated, RequestType
<1>6. CASE Gate(q) \/ LimitRead(q) \/ Spend(q) \/ Put(q) \/ SetPointer(q) \/ NameSession(q)
  BY <1>1, <1>2, <1>6 DEF Gate, LimitRead, Spend, Put, SetPointer, NameSession, RequestType
<1>7. CASE AddToSet(q)
  BY <1>1, <1>2, <1>7 DEF AddToSet, RequestType
<1>8. CASE RevokePointer(q) \/ RevokeDelete(q) \/ EndRead(q) \/ EndDelete(q)
  BY <1>1, <1>2, <1>3, <1>8 DEF RevokePointer, RevokeDelete, EndRead, EndDelete, RequestType
<1>9. CASE EndRemove(q)
  BY <1>1, <1>2, <1>3, <1>9 DEF EndRemove, RequestType
<1>10. CASE ReadMembers(q) \/ Scan(q) \/ Repair(q) \/ ScanDone(q) \/ EndNext(q) \/ Fail(q)
  BY <1>1, <1>2, <1>10 DEF ReadMembers, Scan, Repair, ScanDone, EndNext, Fail, RequestType
<1>. QED
  BY <1>4, <1>5, <1>6, <1>7, <1>8, <1>9, <1>10 DEF RequestStep

\* The end of a record is only written by put; ending a session leaves it.
LEMMA RecordFromPut ==
    ASSUME TypeInv, NEW q \in Request, RequestStep(q), ~Put(q)
    PROVE  \A s \in Request :
              record'[s].auth = record[s].auth /\ record'[s].expires = record[s].expires
<1>1. CASE EndDelete(q)
  BY <1>1 DEF EndDelete, TypeInv, TypeOK
<1>2. CASE ~EndDelete(q)
  <2>1. record' = record
    BY <1>2 DEF RequestStep, StartOpen, StartRefresh, StartRevoke, StartEnd, StartList, Arrive,
          GetPointer, GetRecord, GetRotated, Gate, LimitRead, Issue, Spend, SetRotated,
          SetPointer, AddToSet, NameSession, RevokePointer, RevokeDelete, EndRead, EndRemove,
          ReadMembers, Scan, Repair, ScanDone, EndNext, Fail, store
  <2>. QED
    BY <2>1
<1>. QED
  BY <1>1, <1>2

\* Every step keeps what is written, and what is about to be, within a limit
\* of the policy: the inductive step of AbsoluteLimitHolds.
LEMMA StepLimit == TypeInv /\ LimitInv /\ [Next]_vars => LimitInv'
<1>. SUFFICES ASSUME TypeInv, LimitInv, [Next]_vars, 0 \notin Limits
              PROVE  /\ \A s \in Request : Within(record'[s].auth, record'[s].expires)
                     /\ \A q \in Request :
                           req'[q].pc = "put" => Within(req'[q].auth, req'[q].expires)
  BY DEF LimitInv, Within
<1>1. /\ \A s \in Request : Within(record[s].auth, record[s].expires)
      /\ \A q \in Request : req[q].pc = "put" => Within(req[q].auth, req[q].expires)
  BY DEF LimitInv
<1>2. CASE UNCHANGED <<record, req>>
  BY <1>1, <1>2
<1>3. ASSUME NEW q \in Request, RequestStep(q)
      PROVE  /\ \A s \in Request : Within(record'[s].auth, record'[s].expires)
             /\ \A p \in Request :
                   req'[p].pc = "put" => Within(req'[p].auth, req'[p].expires)
  <2>. DEFINE R == req[q]
  <2>1. R \in RequestType /\ req \in [Request -> RequestType] /\ TypeOK
    BY DEF TypeInv, TypeOK
  <2>2. R.auth \in Nat /\ R.sid \in Request
    BY <2>1 DEF RequestType
  <2>3. Within(R.auth, CapEnd(R.auth, Lifetime))
    BY <2>1, <2>2, CapEndCapped, SessionsAssumption DEF Within
  <2>4. CASE Put(q)
    <3>1. Within(R.auth, R.expires)
      BY <1>1, <2>4 DEF Put
    <3>2. \A s \in Request :
             /\ record'[s].auth = IF s = R.sid THEN R.auth ELSE record[s].auth
             /\ record'[s].expires = IF s = R.sid THEN R.expires ELSE record[s].expires
      BY <2>1, <2>2, <2>4 DEF Put, TypeOK
    <3>3. ~Issue(q) /\ ~SetRotated(q)
      BY <2>4 DEF Put, Issue, SetRotated
    <3>. QED
      BY <1>1, <1>3, <3>1, <3>2, <3>3, PutFromMint
  <2>5. CASE Issue(q) \/ SetRotated(q)
    <3>1. ~Put(q)
      BY <2>5 DEF Put, Issue, SetRotated
    <3>2. \A s \in Request : Within(record'[s].auth, record'[s].expires)
      BY <1>1, <1>3, <3>1, RecordFromPut
    <3>3. req'[q].pc = "put" => Within(req'[q].auth, req'[q].expires)
      <4>1. CASE Issue(q)
        BY <2>1, <2>3, <4>1 DEF Issue, Goto, RequestType
      <4>2. CASE SetRotated(q)
        BY <2>1, <2>3, <4>2 DEF SetRotated, Goto, RequestType
      <4>. QED
        BY <2>5, <4>1, <4>2
    <3>4. \A p \in Request : p # q => req'[p] = req[p]
      BY <2>1, <2>5 DEF Issue, SetRotated, Goto
    <3>. QED
      BY <1>1, <3>2, <3>3, <3>4
  <2>6. CASE ~Put(q) /\ ~Issue(q) /\ ~SetRotated(q)
    BY <1>1, <1>3, <2>6, PutFromMint, RecordFromPut
  <2>. QED
    BY <2>4, <2>5, <2>6
<1>. QED
  BY <1>2, <1>3 DEF Next, SetLimit, Tick, vars, store

\* However long a chain of refreshes, however they interleave at however many
\* replicas, and however often the policy's limit is changed under them, a
\* session's record never ends later than auth_time and a limit the policy
\* has stated (session.go:201-210, :317-322).
THEOREM AbsoluteLimitHolds == Spec => []AbsoluteLimit
<1>1. Init => LimitInv
  BY IdleType DEF Init, LimitInv, Within, Idle
<1>2. LimitInv => AbsoluteLimit
  BY DEF LimitInv, Within, AbsoluteLimit
<1>3. Spec => []TypeInv
  BY InitType, StepType, PTL DEF Spec
<1>. QED
  BY <1>1, <1>2, <1>3, StepLimit, PTL DEF Spec

-----------------------------------------------------------------------------
(* The life of a session.                                                  *)

\* The session was recorded at some time.
Recorded(s) == record[s].expires # 0

\* Request R is past the write of its own token's pointer, or never comes to it.
MintedBy(R) == R.stage \in {"open", "rotate"} /\ R.pc \in {"add", "name", "done", "failed"}

Minted(t) == MintedBy(req[t])

\* Request R names a session it read from the store.
NamesOf(R) ==
    \/ R.pc \in {"record", "gate", "limitRecord", "spend", "setRotated", "setPointer", "add", "revDelete",
                 "endRead", "endDelete", "endRemove", "repair"}
    \/ R.stage = "rotate" /\ R.pc = "put"
    \/ R.stage \in {"revoke", "end"} /\ R.pc = "done"

\* What request q, when it is R, knows to be true of the store.
OwnOf(q, R) ==
    /\ NamesOf(R) => Recorded(R.sid)
    /\ \A s \in R.todo \cup R.sel : Recorded(s)
    /\ R.pc = "new" \/ (R.stage = "open" /\ R.pc \in {"issue", "put"}) => ~Recorded(q)
    /\ R.stage = "open" => R.sid = q
    /\ R.stage \in {"resolve", "rotate", "revoke"} => Minted(R.held)
    /\ R.pc = "record" => Minted(R.tok) /\ pointer[R.tok].sid = R.sid
    /\ R.pc \in {"spend", "setRotated"} => pointer[R.held].sid = R.sid
    /\ R.pc = "setRotated" => pointer[R.held].until = 0
    /\ R.pc \in {"put", "setPointer"} => R.cred = q
    /\ R.stage \in {"open", "rotate"} /\ R.pc \in {"add", "name", "done"} => Minted(R.cred)
    /\ R.pc \in {"pointer", "record", "rotated", "gate", "issue", "spend", "setRotated", "put",
                 "setPointer"} => R.n = 1

Owned == \A q \in Request : OwnOf(q, req[q])

\* A token's pointer is written once, by the request that minted the token, and
\* one that was spent is gone for good; its successor is known for the grace.
Tokens ==
    \A t \in Request :
        /\ pointer[t].until # 0 =>
              /\ Minted(t) /\ Recorded(pointer[t].sid)
              /\ req[t].sid = pointer[t].sid /\ req[t].cred = t
        /\ spentAt[t] # 0 => pointer[t].until = 0 /\ Minted(t)
        /\ rotated[t].until <= spentAt[t] + Grace

\* Nothing a refresh of the spent token t still does can spend it again.
Past(t) ==
    /\ spentAt[t] # 0
    /\ now >= spentAt[t] + Grace
    /\ \A p \in Request : req[p].stage = "rotate" /\ req[p].held = t =>
          /\ req[p].pc \notin {"record", "spend", "setRotated"}
          /\ req[p].pc = "pointer" => req[p].tok = t

\* A late presentation finds neither the token nor its successor.
LateOf(R) ==
    R.late =>
        /\ Past(R.held)
        /\ R.stage = "resolve"
        /\ R.pc \in {"pointer", "rotated", "limit", "limitRecord", "endDelete", "endRemove", "refused", "failed"}
        /\ R.pc = "pointer" => R.tok = R.held

Late == \A q \in Request : LateOf(req[q])

\* The session is over, and nobody can write it again.
Over(s) == Recorded(s) /\ ~Alive(s) /\ ~InHand(s)

EndsOf(R) ==
    R.pc \in {"endRemove", "repair"} \/ (R.stage \in {"revoke", "end"} /\ R.pc = "done")

Ended == \A q \in Request : EndsOf(req[q]) => req[q].sid \in raced \/ Over(req[q].sid)

\* A request that will add session s to set k, or failed.
Adding(s, k) ==
    \E q \in Request :
        /\ req[q].stage \in {"open", "rotate"} /\ req[q].sid = s
        /\ \/ req[q].pc \in {"setPointer", "failed"}
           \/ req[q].pc = "add" /\ \E m \in 1 .. 3 : m >= req[q].n /\ Sets[m] = k

Listed ==
    /\ \A s \in Request : record[s].until <= now + Lifetime
    /\ \A k \in Keys : indexUntil[k] <= now + Lifetime /\ \A s \in index[k] : Recorded(s)
    /\ \A s \in Request, k \in Keys : Alive(s) /\ s \notin raced =>
          Adding(s, k) \/ (s \in index[k] /\ record[s].until <= indexUntil[k])

\* A revocation whose token did not resolve: it may delete the token's pointer.
UnresolvedBy(R) ==
    /\ R.stage = "revoke"
    /\ \/ R.pc \in {"rotated", "revPointer", "revDelete"}
       \/ R.pc \in {"pointer", "record"} /\ R.tok # R.held

\* A request that will write a pointer to session s, end it, or failed.
Pointing(s) ==
    \E q \in Request :
        /\ req[q].stage \in {"open", "rotate"} /\ req[q].sid = s
        /\ \/ req[q].pc \in {"setRotated", "put", "setPointer", "failed"}
           \/ req[q].stage = "rotate" /\ req[q].pc = "endDelete"

\* Token t leads to session s as long as its record is there.
Leads(t, s) ==
    /\ pointer[t].sid = s /\ pointer[t].until >= record[s].until
    /\ \A q \in Request : UnresolvedBy(req[q]) => req[q].held # t

Carried ==
    \A s \in Request : Alive(s) /\ s \notin raced => Pointing(s) \/ \E t \in Request : Leads(t, s)

LifeInv == Owned /\ Tokens /\ Late /\ Ended /\ Listed /\ Carried

----------------------------------------------------------------------------
(* Steps that leave the sessions, the pointers and the sets alone.         *)

\* What the invariant asks of request q's going from R to r.
Allowed(q, R, r) ==
    /\ MintedBy(R) => MintedBy(r) /\ r.sid = R.sid /\ r.cred = R.cred
    /\ r.stage = "rotate" /\ r.pc \in {"spend", "setRotated", "put"} =>
          \/ Alive(r.sid)
          \/ R.stage = "rotate" /\ R.pc \in {"spend", "setRotated", "put"} /\ R.sid = r.sid
    /\ R.stage \in {"open", "rotate"} /\ R.pc \in {"setRotated", "put", "setPointer", "add", "failed", "endDelete"} =>
          r.stage = R.stage /\ r.sid = R.sid /\ r.pc = "failed"
    /\ r.stage = "rotate" /\ Past(r.held) =>
          r.pc \notin {"record", "spend", "setRotated"} /\ (r.pc = "pointer" => r.tok = r.held)
    /\ UnresolvedBy(r) =>
          \/ UnresolvedBy(R) /\ r.held = R.held
          \/ pointer[r.held].until <= now
          \/ ~Alive(pointer[r.held].sid)

\* Such a step keeps the invariant.
LEMMA Quiet ==
    ASSUME TypeInv, LifeInv, NEW q \in Request, NEW r \in RequestType, Goto(q, r),
           UNCHANGED <<now, record, pointer, rotated, index, indexUntil, spentAt>>,
           raced \subseteq raced',
           Allowed(q, req[q], r), OwnOf(q, r), LateOf(r),
           EndsOf(r) => r.sid \in raced' \/ Over(r.sid)
    PROVE  LifeInv'
<1>1. req \in [Request -> RequestType]
  BY DEF TypeInv, TypeOK
<1>2. \A p \in Request : req'[p] = IF p = q THEN r ELSE req[p]
  BY <1>1 DEF Goto
<1>3. /\ now' = now /\ record' = record /\ pointer' = pointer /\ rotated' = rotated
      /\ index' = index /\ indexUntil' = indexUntil /\ spentAt' = spentAt
  OBVIOUS
<1>4. \A s \in Request : (Alive(s)' <=> Alive(s)) /\ (Recorded(s)' <=> Recorded(s))
  BY <1>3 DEF Alive, Held, Recorded
<1>5. \A t \in Request : Minted(t) => Minted(t)'
  BY <1>2 DEF Minted, Allowed
<1>6. \A s \in Request : Over(s) => Over(s)'
  BY <1>2, <1>4 DEF Over, InHand, Allowed
<1>7. Owned'
  <2>1. ASSUME NEW p \in Request, NEW X \in RequestType, OwnOf(p, X) PROVE OwnOf(p, X)'
    BY <1>3, <1>4, <1>5, <2>1 DEF OwnOf, RequestType
  <2> QED
    BY <1>1, <1>2, <2>1 DEF Owned, LifeInv
<1>8. Tokens'
  <2>1. ASSUME NEW t \in Request, Minted(t)
        PROVE  req'[t].sid = req[t].sid /\ req'[t].cred = req[t].cred
    BY <1>2, <2>1 DEF Minted, Allowed
  <2> QED
    BY <1>3, <1>4, <1>5, <2>1 DEF Tokens, LifeInv, TypeInv, TypeOK
<1>9. Late'
  <2>1. \A t \in Request : Past(t) => Past(t)'
    BY <1>2, <1>3 DEF Past, Allowed
  <2>2. ASSUME NEW X \in RequestType, LateOf(X) PROVE LateOf(X)'
    BY <2>1, <2>2 DEF LateOf, RequestType
  <2> QED
    BY <1>1, <1>2, <2>2 DEF Late, LifeInv
<1>10. Ended'
  BY <1>1, <1>2, <1>6 DEF Ended, LifeInv, RequestType
<1>11. Listed'
  <2>1. \A s \in Request, k \in Keys : Adding(s, k) => Adding(s, k)'
    BY <1>2 DEF Adding, Allowed
  <2>2. index \in [Keys -> SUBSET Request] /\ Listed
    BY DEF TypeInv, TypeOK, LifeInv
  <2>3. \A s \in Request : record'[s].until <= now' + Lifetime
    BY <1>3, <2>2 DEF Listed
  <2>4. \A k \in Keys : indexUntil'[k] <= now' + Lifetime /\ \A s \in index'[k] : Recorded(s)'
    BY <1>3, <1>4, <2>2 DEF Listed
  <2>5. ASSUME NEW s \in Request, NEW k \in Keys, Alive(s)', s \notin raced'
        PROVE  Adding(s, k)' \/ (s \in index'[k] /\ record'[s].until <= indexUntil'[k])
    BY <1>3, <1>4, <2>1, <2>2, <2>5 DEF Listed
  <2> QED
    BY <2>3, <2>4, <2>5 DEF Listed
<1>12. Carried'
  <2>1. \A s \in Request : Pointing(s) => Pointing(s)'
    BY <1>2 DEF Pointing, Allowed
  <2>2. ASSUME NEW s \in Request, NEW t \in Request, Alive(s), Leads(t, s) PROVE Leads(t, s)'
    <3>1. pointer[t].until > now /\ pointer[t].sid = s
      BY <2>2 DEF Leads, Alive, Held, TypeInv, TypeOK
    <3>2. UnresolvedBy(r) => r.held # t
      BY <2>2, <3>1 DEF Allowed, Leads, TypeInv, TypeOK
    <3> QED
      BY <1>2, <1>3, <2>2, <3>2 DEF Leads
  <2> QED
    BY <1>4, <2>1, <2>2 DEF Carried, LifeInv
<1> QED
  BY <1>7, <1>8, <1>9, <1>10, <1>11, <1>12 DEF LifeInv

----------------------------------------------------------------------------
\* A request arrives.
LEMMA ArriveLife ==
    ASSUME TypeInv, LifeInv, NEW q \in Request,
           StartOpen(q) \/ StartRefresh(q) \/ StartRevoke(q) \/ StartEnd(q) \/ StartList(q)
    PROVE  LifeInv'
<1>1. ASSUME NEW r \in RequestType, Arrive(q, r), Allowed(q, req[q], r), OwnOf(q, r), LateOf(r),
             ~EndsOf(r)
      PROVE  LifeInv'
  <2>1. Goto(q, r) /\ UNCHANGED <<now, record, pointer, rotated, index, indexUntil, spentAt>>
        /\ raced \subseteq raced'
    BY <1>1 DEF Arrive, store
  <2> QED
    BY <1>1, <2>1, Quiet
<1>2. req[q].pc = "new" /\ OwnOf(q, req[q]) /\ Idle(q) \in RequestType
  BY IdleType DEF StartOpen, StartRefresh, StartRevoke, StartEnd, StartList, Arrive, LifeInv, Owned
<1>3. CASE StartOpen(q)
  <2>1. PICK a \in 0 .. now :
          Arrive(q, [Idle(q) EXCEPT !.stage = "open", !.pc = "issue", !.auth = a])
    BY <1>3 DEF StartOpen
  <2> DEFINE r == [Idle(q) EXCEPT !.stage = "open", !.pc = "issue", !.auth = a]
  <2>2. r \in RequestType
    <3>1. a \in Nat
      BY DEF TypeInv, TypeOK
    <3> QED
      BY <1>2, <3>1, ArrivalType
  <2>3. r.stage = "open" /\ r.pc = "issue" /\ r.sid = q /\ r.n = 1 /\ r.todo = {} /\ r.sel = {}
        /\ r.late = FALSE
    BY DEF Idle
  <2> HIDE DEF r
  <2>4. OwnOf(q, r)
    BY <1>2, <2>3 DEF OwnOf, NamesOf
  <2>5. Allowed(q, req[q], r) /\ LateOf(r) /\ ~EndsOf(r)
    BY <1>2, <2>3 DEF Allowed, MintedBy, LateOf, EndsOf, UnresolvedBy
  <2> QED
    BY <1>1, <2>1, <2>2, <2>4, <2>5 DEF r
<1>4. \A t \in Given : t \in Request /\ Minted(t)
  <2>1. ASSUME NEW p \in Request, req[p].stage \in {"open", "rotate"}, req[p].pc = "done"
        PROVE  Minted(req[p].cred) /\ req[p].cred \in Request
    BY <2>1 DEF LifeInv, Owned, OwnOf, TypeInv, TypeOK, RequestType
  <2> QED
    BY <2>1 DEF Given
<1>5. CASE StartRefresh(q)
  <2>1. PICK t \in Given :
          Arrive(q, [Idle(q) EXCEPT !.stage = "resolve", !.pc = "pointer",
                               !.held = t, !.tok = t, !.late = LongSpent(t)])
    BY <1>5 DEF StartRefresh
  <2> DEFINE r == [Idle(q) EXCEPT !.stage = "resolve", !.pc = "pointer",
                               !.held = t, !.tok = t, !.late = LongSpent(t)]
  <2>2. r \in RequestType
    BY <1>2, <1>4, ArrivalType DEF LongSpent
  <2>3. r.stage = "resolve" /\ r.pc = "pointer" /\ r.held = t /\ r.tok = t /\ r.n = 1 /\ r.todo = {}
        /\ r.sel = {} /\ r.late = LongSpent(t)
    BY DEF Idle
  <2> HIDE DEF r
  <2>4. OwnOf(q, r)
    BY <1>2, <1>4, <2>3 DEF OwnOf, NamesOf
  <2>5. LongSpent(t) => Past(t)
    BY DEF LongSpent, Past
  <2>6. Allowed(q, req[q], r) /\ LateOf(r) /\ ~EndsOf(r)
    BY <1>2, <2>3, <2>5 DEF Allowed, MintedBy, LateOf, EndsOf, UnresolvedBy
  <2> QED
    BY <1>1, <2>1, <2>2, <2>4, <2>6 DEF r
<1>6. CASE StartRevoke(q)
  <2>1. PICK t \in Given :
          Arrive(q, [Idle(q) EXCEPT !.stage = "revoke", !.pc = "pointer", !.held = t, !.tok = t])
    BY <1>6 DEF StartRevoke
  <2> DEFINE r == [Idle(q) EXCEPT !.stage = "revoke", !.pc = "pointer", !.held = t, !.tok = t]
  <2>2. r \in RequestType
    BY <1>2, <1>4, ArrivalType
  <2>3. r.stage = "revoke" /\ r.pc = "pointer" /\ r.held = t /\ r.tok = t /\ r.n = 1 /\ r.todo = {}
        /\ r.sel = {} /\ r.late = FALSE
    BY DEF Idle
  <2> HIDE DEF r
  <2>4. OwnOf(q, r)
    BY <1>2, <1>4, <2>3 DEF OwnOf, NamesOf
  <2>6. Allowed(q, req[q], r) /\ LateOf(r) /\ ~EndsOf(r)
    BY <1>2, <2>3 DEF Allowed, MintedBy, LateOf, EndsOf, UnresolvedBy
  <2> QED
    BY <1>1, <2>1, <2>2, <2>4, <2>6 DEF r
<1>7. CASE StartEnd(q)
  <2>1. PICK s \in Request :
          /\ record[s].expires # 0
          /\ Arrive(q, [Idle(q) EXCEPT !.stage = "end", !.pc = "endRead", !.sid = s])
    BY <1>7 DEF StartEnd
  <2> DEFINE r == [Idle(q) EXCEPT !.stage = "end", !.pc = "endRead", !.sid = s]
  <2>2. r \in RequestType
    BY <1>2, ArrivalType
  <2>3. r.stage = "end" /\ r.pc = "endRead" /\ r.sid = s /\ r.n = 1 /\ r.todo = {}
        /\ r.sel = {} /\ r.late = FALSE
    BY DEF Idle
  <2> HIDE DEF r
  <2>4. OwnOf(q, r)
    BY <1>2, <2>1, <2>3 DEF OwnOf, NamesOf, Recorded
  <2>6. Allowed(q, req[q], r) /\ LateOf(r) /\ ~EndsOf(r)
    BY <1>2, <2>3 DEF Allowed, MintedBy, LateOf, EndsOf, UnresolvedBy
  <2> QED
    BY <1>1, <2>1, <2>2, <2>4, <2>6 DEF r
<1>8. CASE StartList(q)
  <2>1. PICK k \in Keys, st \in {"list", "endAll", "sweep"} :
          Arrive(q, [Idle(q) EXCEPT !.stage = st, !.pc = "members", !.key = k])
    BY <1>8 DEF StartList
  <2> DEFINE r == [Idle(q) EXCEPT !.stage = st, !.pc = "members", !.key = k]
  <2>2. r \in RequestType
    BY <1>2, ArrivalType
  <2>3. r.stage = st /\ r.pc = "members" /\ r.n = 1 /\ r.todo = {}
        /\ r.sel = {} /\ r.late = FALSE
    BY DEF Idle
  <2> HIDE DEF r
  <2>4. OwnOf(q, r)
    BY <1>2, <2>1, <2>3 DEF OwnOf, NamesOf, Recorded
  <2>6. Allowed(q, req[q], r) /\ LateOf(r) /\ ~EndsOf(r)
    BY <1>2, <2>3 DEF Allowed, MintedBy, LateOf, EndsOf, UnresolvedBy
  <2> QED
    BY <1>1, <2>1, <2>2, <2>4, <2>6 DEF r
<1> QED
  BY <1>3, <1>5, <1>6, <1>7, <1>8

----------------------------------------------------------------------------
\* The same, for a step of q that is under way: what q becomes is read off req'.
LEMMA QuietStep ==
    ASSUME TypeInv, TypeInv', LifeInv, NEW q \in Request, NEW r, Goto(q, r),
           UNCHANGED <<now, record, pointer, rotated, index, indexUntil, spentAt>>,
           raced \subseteq raced',
           r \in RequestType => /\ Allowed(q, req[q], r) /\ OwnOf(q, r) /\ LateOf(r)
                                /\ EndsOf(r) => r.sid \in raced' \/ Over(r.sid)
    PROVE  LifeInv'
<1>1. req \in [Request -> RequestType] /\ req' \in [Request -> RequestType]
  BY DEF TypeInv, TypeOK
<1>2. r \in RequestType
  BY <1>1 DEF Goto
<1> QED
  BY <1>2, Quiet

\* What is known of a request that takes a step.
LEMMA Mine ==
    ASSUME TypeInv, LifeInv, NEW q \in Request
    PROVE  /\ req[q] \in RequestType /\ ShapeOf(req[q]) /\ OwnOf(q, req[q]) /\ LateOf(req[q])
           /\ EndsOf(req[q]) => req[q].sid \in raced \/ Over(req[q].sid)
BY DEF TypeInv, TypeOK, Shape, LifeInv, Owned, Late, Ended

\* A token that was spent a grace window ago finds neither itself nor its successor.
LEMMA PastFindsNothing ==
    ASSUME TypeInv, LifeInv, NEW t \in Request, Past(t)
    PROVE  ~Held(pointer[t]) /\ ~Held(rotated[t])
<1>1. pointer[t].until = 0 /\ rotated[t].until <= spentAt[t] + Grace /\ now >= spentAt[t] + Grace
  BY DEF Past, LifeInv, Tokens
<1>2. now \in Nat /\ rotated[t].until \in Nat /\ spentAt[t] \in Nat /\ Grace \in Nat
  BY SessionsAssumption DEF TypeInv, TypeOK
<1> QED
  BY <1>1, <1>2 DEF Held

\* A pointer that answers was written by the request that minted its token.
LEMMA HeldPointer ==
    ASSUME TypeInv, LifeInv, NEW t \in Request, Held(pointer[t])
    PROVE  Minted(t) /\ Recorded(pointer[t].sid) /\ pointer[t].sid \in Request
<1>1. pointer[t].until # 0
  BY DEF Held, TypeInv, TypeOK
<1> QED
  BY <1>1 DEF LifeInv, Tokens, TypeInv, TypeOK

\* ByToken's read of a pointer, found or missed (session.go:417-441).
LEMMA GetPointerLife ==
    ASSUME TypeInv, TypeInv', LifeInv, NEW q \in Request, GetPointer(q)
    PROVE  LifeInv'
<1> DEFINE R == req[q]
<1>1. R \in RequestType /\ ShapeOf(R) /\ OwnOf(q, R) /\ LateOf(R) /\ R.pc = "pointer"
  BY Mine DEF GetPointer
<1>2. /\ UNCHANGED <<now, record, pointer, rotated, index, indexUntil, spentAt>>
      /\ raced \subseteq raced'
  BY DEF GetPointer, store
<1>3. R.held \in Request /\ R.tok \in Request
  BY <1>1 DEF RequestType
<1>4. CASE Held(pointer[R.tok]) /\ Goto(q, [R EXCEPT !.sid = pointer[R.tok].sid, !.pc = "record"])
  <2> DEFINE r == [R EXCEPT !.sid = pointer[R.tok].sid, !.pc = "record"]
  <2>1. /\ r.sid = pointer[R.tok].sid /\ r.pc = "record" /\ r.stage = R.stage /\ r.held = R.held
        /\ r.tok = R.tok /\ r.n = R.n /\ r.todo = R.todo /\ r.sel = R.sel /\ r.late = R.late
        /\ r.cred = R.cred
    BY <1>1 DEF RequestType
  <2>2. Minted(R.tok) /\ Recorded(pointer[R.tok].sid)
    BY <1>3, <1>4, HeldPointer
  <2>3. Past(R.held) => R.tok # R.held
    BY <1>3, <1>4, PastFindsNothing
  <2> HIDE DEF r
  <2>4. OwnOf(q, r)
    <3>1. R.stage \in {"resolve", "rotate", "revoke"}
      BY <1>1 DEF ShapeOf
    <3>2. /\ \A s \in R.todo \cup R.sel : Recorded(s)
          /\ Minted(R.held) /\ R.n = 1
      BY <1>1, <3>1 DEF OwnOf
    <3> QED
      BY <2>1, <2>2, <3>1, <3>2 DEF OwnOf, NamesOf
  <2>5. ~R.late
    BY <1>1, <2>3 DEF LateOf
  <2>6. Past(R.held) => R.stage # "rotate"
    BY <1>1, <2>3 DEF Past
  <2>7. Allowed(q, R, r)
    BY <1>1, <2>1, <2>6 DEF Allowed, MintedBy, UnresolvedBy
  <2>8. LateOf(r) /\ ~EndsOf(r)
    BY <2>1, <2>5 DEF LateOf, EndsOf, RequestType
  <2> QED
    BY <1>2, <1>4, <2>4, <2>7, <2>8, QuietStep DEF r
<1>5. CASE ~Held(pointer[R.tok]) /\ Goto(q, [R EXCEPT !.pc = MissedAt(R)])
  <2> DEFINE r == [R EXCEPT !.pc = MissedAt(R)]
  <2>1. /\ r.sid = R.sid /\ r.pc = MissedAt(R) /\ r.stage = R.stage /\ r.held = R.held
        /\ r.tok = R.tok /\ r.n = R.n /\ r.todo = R.todo /\ r.sel = R.sel /\ r.late = R.late
        /\ r.cred = R.cred
    BY <1>1 DEF RequestType
  <2>2. /\ R.stage = "resolve" => r.pc = IF R.tok = R.held THEN "rotated" ELSE "limit"
        /\ R.stage = "rotate" => r.pc = IF R.tok = R.held THEN "rotated" ELSE "refused"
        /\ R.stage = "revoke" => r.pc = IF R.tok = R.held THEN "rotated" ELSE "revPointer"
        /\ R.stage \in {"resolve", "rotate", "revoke"}
    BY <1>1, <2>1, Tables DEF MissedAt, ShapeOf
  <2> HIDE DEF r
  <2>3. r.pc \in {"rotated", "limit", "refused", "revPointer"}
    BY <2>2
  <2>4. OwnOf(q, r)
    BY <1>1, <2>1, <2>2, <2>3 DEF OwnOf, NamesOf
  <2>6. R.tok = R.held => pointer[R.held].until <= now
    BY <1>3, <1>5 DEF Held, TypeInv, TypeOK
  <2>7. Allowed(q, R, r)
    BY <1>1, <2>1, <2>2, <2>6 DEF Allowed, MintedBy, UnresolvedBy
  <2>8. LateOf(r) /\ ~EndsOf(r)
    BY <1>1, <2>1, <2>2 DEF LateOf, EndsOf
  <2> QED
    BY <1>2, <1>5, <2>4, <2>7, <2>8, QuietStep DEF r
<1> QED
  BY <1>4, <1>5 DEF GetPointer

\* byID's read of the record, live or not (session.go:661-684).
LEMMA GetRecordLife ==
    ASSUME TypeInv, TypeInv', LifeInv, NEW q \in Request, GetRecord(q)
    PROVE  LifeInv'
<1> DEFINE R == req[q]
<1>1. R \in RequestType /\ ShapeOf(R) /\ OwnOf(q, R) /\ LateOf(R) /\ R.pc = "record"
  BY Mine DEF GetRecord
<1>2. /\ UNCHANGED <<now, record, pointer, rotated, index, indexUntil, spentAt>>
      /\ raced \subseteq raced'
  BY DEF GetRecord, store
<1>3. R.held \in Request /\ R.tok \in Request
  BY <1>1 DEF RequestType
<1>4. ~R.late /\ (R.stage = "rotate" => ~Past(R.held)) /\ R.stage \in {"resolve", "rotate", "revoke"}
      /\ Recorded(R.sid) /\ Minted(R.tok) /\ pointer[R.tok].sid = R.sid
  BY <1>1 DEF LateOf, Past, ShapeOf, OwnOf, NamesOf
<1>5. CASE Alive(R.sid) /\ Goto(q, [R EXCEPT !.auth = record[R.sid].auth, !.issued = record[R.sid].issued, !.cred = R.tok,
                                             !.pc = FoundAt(R)])
  <2> DEFINE r == [R EXCEPT !.auth = record[R.sid].auth, !.issued = record[R.sid].issued, !.cred = R.tok, !.pc = FoundAt(R)]
  <2>1. /\ r.sid = R.sid /\ r.pc = FoundAt(R) /\ r.stage = R.stage /\ r.held = R.held
        /\ r.tok = R.tok /\ r.n = R.n /\ r.todo = R.todo /\ r.sel = R.sel /\ r.late = R.late
        /\ r.cred = R.tok
    BY <1>1 DEF RequestType
  <2>2. /\ R.stage = "resolve" => r.pc = "gate"
        /\ R.stage = "rotate" => r.pc = IF R.tok = R.held THEN "spend" ELSE "name"
        /\ R.stage = "revoke" => r.pc = "endRead"
    BY <2>1 DEF FoundAt
  <2> HIDE DEF r
  <2>4. OwnOf(q, r)
    BY <1>1, <1>4, <2>1, <2>2 DEF OwnOf, NamesOf
  <2>7. Allowed(q, R, r)
    BY <1>1, <1>4, <1>5, <2>1, <2>2 DEF Allowed, MintedBy, UnresolvedBy
  <2>8. LateOf(r) /\ ~EndsOf(r)
    BY <1>4, <2>1, <2>2 DEF LateOf, EndsOf
  <2> QED
    BY <1>2, <1>5, <2>4, <2>7, <2>8, QuietStep DEF r
<1>6. CASE ~Alive(R.sid) /\ Goto(q, [R EXCEPT !.pc = MissedAt(R)])
  <2> DEFINE r == [R EXCEPT !.pc = MissedAt(R)]
  <2>1. /\ r.sid = R.sid /\ r.pc = MissedAt(R) /\ r.stage = R.stage /\ r.held = R.held
        /\ r.tok = R.tok /\ r.n = R.n /\ r.todo = R.todo /\ r.sel = R.sel /\ r.late = R.late
        /\ r.cred = R.cred
    BY <1>1 DEF RequestType
  <2>2. /\ R.stage = "resolve" => r.pc = IF R.tok = R.held THEN "rotated" ELSE "limit"
        /\ R.stage = "rotate" => r.pc = IF R.tok = R.held THEN "rotated" ELSE "refused"
        /\ R.stage = "revoke" => r.pc = IF R.tok = R.held THEN "rotated" ELSE "revPointer"
    BY <1>4, <2>1, Tables DEF MissedAt
  <2> HIDE DEF r
  <2>4. OwnOf(q, r)
    BY <1>1, <1>4, <2>1, <2>2 DEF OwnOf, NamesOf
  <2>7. Allowed(q, R, r)
    BY <1>1, <1>4, <1>6, <2>1, <2>2 DEF Allowed, MintedBy, UnresolvedBy
  <2>8. LateOf(r) /\ ~EndsOf(r)
    BY <1>4, <2>1, <2>2 DEF LateOf, EndsOf
  <2> QED
    BY <1>2, <1>6, <2>4, <2>7, <2>8, QuietStep DEF r
<1> QED
  BY <1>5, <1>6 DEF GetRecord

\* replayed: the successor of a spent token (session.go:371-400).
LEMMA GetRotatedLife ==
    ASSUME TypeInv, TypeInv', LifeInv, NEW q \in Request, GetRotated(q)
    PROVE  LifeInv'
<1> DEFINE R == req[q]
<1>1. R \in RequestType /\ ShapeOf(R) /\ OwnOf(q, R) /\ LateOf(R) /\ R.pc = "rotated"
  BY Mine DEF GetRotated
<1>2. /\ UNCHANGED <<now, record, pointer, rotated, index, indexUntil, spentAt>>
      /\ raced \subseteq raced'
  BY DEF GetRotated, store
<1>3. R.held \in Request /\ R.stage \in {"resolve", "rotate", "revoke"}
  BY <1>1 DEF RequestType, ShapeOf
<1>4. CASE Held(rotated[R.held])
           /\ Goto(q, [R EXCEPT !.tok = rotated[R.held].succ, !.pc = "pointer"])
  <2> DEFINE r == [R EXCEPT !.tok = rotated[R.held].succ, !.pc = "pointer"]
  <2>1. /\ r.sid = R.sid /\ r.pc = "pointer" /\ r.stage = R.stage /\ r.held = R.held
        /\ r.n = R.n /\ r.todo = R.todo /\ r.sel = R.sel /\ r.late = R.late /\ r.cred = R.cred
    BY <1>1 DEF RequestType
  <2>2. ~Past(R.held)
    BY <1>3, <1>4, PastFindsNothing
  <2> HIDE DEF r
  <2>4. OwnOf(q, r)
    BY <1>1, <1>3, <2>1 DEF OwnOf, NamesOf
  <2>7. Allowed(q, R, r)
    BY <1>1, <1>3, <2>1, <2>2 DEF Allowed, MintedBy, UnresolvedBy
  <2>8. LateOf(r) /\ ~EndsOf(r)
    BY <1>1, <2>1, <2>2 DEF LateOf, EndsOf
  <2> QED
    BY <1>2, <1>4, <2>4, <2>7, <2>8, QuietStep DEF r
<1>5. CASE Goto(q, [R EXCEPT !.pc = UnresolvedAt(R)])
  <2> DEFINE r == [R EXCEPT !.pc = UnresolvedAt(R)]
  <2>1. /\ r.sid = R.sid /\ r.pc = UnresolvedAt(R) /\ r.stage = R.stage /\ r.held = R.held
        /\ r.tok = R.tok /\ r.n = R.n /\ r.todo = R.todo /\ r.sel = R.sel /\ r.late = R.late
        /\ r.cred = R.cred
    BY <1>1 DEF RequestType
  <2>2. /\ R.stage = "resolve" => r.pc = "limit"
        /\ R.stage = "rotate" => r.pc = "refused"
        /\ R.stage = "revoke" => r.pc = "revPointer"
    BY <2>1, Tables
  <2> HIDE DEF r
  <2>4. OwnOf(q, r)
    BY <1>1, <1>3, <2>1, <2>2 DEF OwnOf, NamesOf
  <2>7. Allowed(q, R, r)
    BY <1>1, <1>3, <2>1, <2>2 DEF Allowed, MintedBy, UnresolvedBy
  <2>8. LateOf(r) /\ ~EndsOf(r)
    BY <1>1, <1>3, <2>1, <2>2 DEF LateOf, EndsOf
  <2> QED
    BY <1>2, <1>5, <2>4, <2>7, <2>8, QuietStep DEF r
<1> QED
  BY <1>4, <1>5 DEF GetRotated

\* TokenRequestByRefreshToken once the token resolved: the gate and the limit.
LEMMA GateLife ==
    ASSUME TypeInv, TypeInv', LifeInv, NEW q \in Request, Gate(q)
    PROVE  LifeInv'
<1> DEFINE R == req[q]
<1>1. R \in RequestType /\ ShapeOf(R) /\ OwnOf(q, R) /\ LateOf(R) /\ R.pc = "gate"
  BY Mine DEF Gate
<1>2. /\ UNCHANGED <<now, record, pointer, rotated, index, indexUntil, spentAt>>
      /\ raced \subseteq raced'
  BY DEF Gate, store
<1>3. PICK p \in {"endDelete", "issue", "refused"} : Goto(q, [R EXCEPT !.pc = p])
  BY DEF Gate
<1> DEFINE r == [R EXCEPT !.pc = p]
<1>4. /\ r.sid = R.sid /\ r.pc = p /\ r.stage = "resolve" /\ r.held = R.held
      /\ r.n = R.n /\ r.todo = R.todo /\ r.sel = R.sel /\ r.late = R.late /\ r.cred = R.cred
      /\ R.stage = "resolve"
  BY <1>1 DEF RequestType, ShapeOf
<1> HIDE DEF r
<1>5. OwnOf(q, r)
  BY <1>1, <1>3, <1>4 DEF OwnOf, NamesOf
<1>6. Allowed(q, R, r)
  BY <1>1, <1>3, <1>4 DEF Allowed, MintedBy, UnresolvedBy
<1>7. LateOf(r) /\ ~EndsOf(r)
  BY <1>1, <1>3, <1>4 DEF LateOf, EndsOf
<1> QED
  BY <1>2, <1>3, <1>5, <1>6, <1>7, QuietStep DEF r

\* endedByAbsoluteLimit: what is left of a session past its limit.
LEMMA LimitReadLife ==
    ASSUME TypeInv, TypeInv', LifeInv, NEW q \in Request, LimitRead(q)
    PROVE  LifeInv'
<1> DEFINE R == req[q]
<1>1. R \in RequestType /\ ShapeOf(R) /\ OwnOf(q, R) /\ LateOf(R) /\ R.pc \in {"limit", "limitRecord"}
  BY Mine DEF LimitRead
<1>2. /\ UNCHANGED <<now, record, pointer, rotated, index, indexUntil, spentAt>>
      /\ raced \subseteq raced'
  BY DEF LimitRead, store
<1>3. R.held \in Request /\ R.stage = "resolve"
  BY <1>1 DEF RequestType, ShapeOf
<1>4. CASE Held(pointer[R.held]) /\ Goto(q, [R EXCEPT !.sid = pointer[R.held].sid, !.pc = "limitRecord"])
  <2> DEFINE r == [R EXCEPT !.sid = pointer[R.held].sid, !.pc = "limitRecord"]
  <2>1. /\ r.sid = pointer[R.held].sid /\ r.pc = "limitRecord" /\ r.stage = R.stage /\ r.held = R.held
        /\ r.todo = R.todo /\ r.sel = R.sel /\ r.late = R.late /\ r.cred = R.cred
    BY <1>1 DEF RequestType
  <2>2. Recorded(pointer[R.held].sid)
    BY <1>3, <1>4, HeldPointer
  <2> HIDE DEF r
  <2>3. OwnOf(q, r)
    BY <1>1, <1>3, <2>1, <2>2 DEF OwnOf, NamesOf
  <2>4. Allowed(q, R, r) /\ LateOf(r) /\ ~EndsOf(r)
    BY <1>1, <1>3, <2>1 DEF Allowed, MintedBy, UnresolvedBy, LateOf, EndsOf
  <2> QED
    BY <1>2, <1>4, <2>3, <2>4, QuietStep DEF r
<1>5. CASE Goto(q, [R EXCEPT !.pc = "refused"])
  <2> DEFINE r == [R EXCEPT !.pc = "refused"]
  <2>1. /\ r.sid = R.sid /\ r.pc = "refused" /\ r.stage = R.stage /\ r.held = R.held
        /\ r.todo = R.todo /\ r.sel = R.sel /\ r.late = R.late /\ r.cred = R.cred
    BY <1>1 DEF RequestType
  <2> HIDE DEF r
  <2>3. OwnOf(q, r)
    BY <1>1, <1>3, <2>1 DEF OwnOf, NamesOf
  <2>4. Allowed(q, R, r) /\ LateOf(r) /\ ~EndsOf(r)
    BY <1>1, <1>3, <2>1 DEF Allowed, MintedBy, UnresolvedBy, LateOf, EndsOf
  <2> QED
    BY <1>2, <1>5, <2>3, <2>4, QuietStep DEF r
<1>6. CASE R.pc = "limitRecord" /\ Goto(q, [R EXCEPT !.pc = "endDelete"])
  <2> DEFINE r == [R EXCEPT !.pc = "endDelete"]
  <2>1. /\ r.sid = R.sid /\ r.pc = "endDelete" /\ r.stage = R.stage /\ r.held = R.held
        /\ r.todo = R.todo /\ r.sel = R.sel /\ r.late = R.late /\ r.cred = R.cred
    BY <1>1 DEF RequestType
  <2> HIDE DEF r
  <2>3. OwnOf(q, r)
    BY <1>1, <1>3, <1>6, <2>1 DEF OwnOf, NamesOf
  <2>4. Allowed(q, R, r) /\ LateOf(r) /\ ~EndsOf(r)
    BY <1>1, <1>3, <1>6, <2>1 DEF Allowed, MintedBy, UnresolvedBy, LateOf, EndsOf
  <2> QED
    BY <1>2, <1>6, <2>3, <2>4, QuietStep DEF r
<1> QED
  BY <1>4, <1>5, <1>6 DEF LimitRead

\* issue: the access token is recorded, and Record or Refreshed begins.
LEMMA IssueLife ==
    ASSUME TypeInv, TypeInv', LifeInv, NEW q \in Request, Issue(q)
    PROVE  LifeInv'
<1> DEFINE R == req[q]
<1>1. R \in RequestType /\ ShapeOf(R) /\ OwnOf(q, R) /\ LateOf(R) /\ R.pc = "issue"
  BY Mine DEF Issue
<1>2. /\ UNCHANGED <<now, record, pointer, rotated, index, indexUntil, spentAt>>
      /\ raced \subseteq raced'
  BY DEF Issue
<1>3. R.stage \in {"open", "resolve"} /\ ~R.late
  BY <1>1 DEF ShapeOf, LateOf
<1>4. CASE R.stage = "open"
  <2> DEFINE r == [R EXCEPT !.pc = "put", !.cred = q, !.issued = now, !.expires = CapEnd(R.auth, Lifetime)]
  <2>1. Goto(q, r)
    BY <1>4 DEF Issue
  <2>2. /\ r.sid = R.sid /\ r.pc = "put" /\ r.stage = "open" /\ r.held = R.held /\ r.n = R.n
        /\ r.todo = R.todo /\ r.sel = R.sel /\ r.late = R.late /\ r.cred = q
    BY <1>1, <1>4 DEF RequestType
  <2> HIDE DEF r
  <2>3. OwnOf(q, r)
    BY <1>1, <1>4, <2>2 DEF OwnOf, NamesOf
  <2>4. Allowed(q, R, r) /\ LateOf(r) /\ ~EndsOf(r)
    BY <1>1, <1>3, <1>4, <2>2 DEF Allowed, MintedBy, UnresolvedBy, LateOf, EndsOf
  <2> QED
    BY <1>2, <2>1, <2>3, <2>4, QuietStep
<1>5. CASE R.stage = "resolve"
  <2> DEFINE r == [R EXCEPT !.stage = "rotate", !.pc = "pointer", !.tok = R.held]
  <2>1. Goto(q, r)
    BY <1>5 DEF Issue
  <2>2. /\ r.sid = R.sid /\ r.pc = "pointer" /\ r.stage = "rotate" /\ r.held = R.held /\ r.n = R.n
        /\ r.todo = R.todo /\ r.sel = R.sel /\ r.late = R.late /\ r.cred = R.cred /\ r.tok = R.held
    BY <1>1 DEF RequestType
  <2> HIDE DEF r
  <2>3. OwnOf(q, r)
    BY <1>1, <1>5, <2>2 DEF OwnOf, NamesOf
  <2>4. Allowed(q, R, r) /\ LateOf(r) /\ ~EndsOf(r)
    BY <1>1, <1>3, <1>5, <2>2 DEF Allowed, MintedBy, UnresolvedBy, LateOf, EndsOf
  <2> QED
    BY <1>2, <2>1, <2>3, <2>4, QuietStep
<1> QED
  BY <1>3, <1>4, <1>5

\* The access token names the session, and the answer is sent.
LEMMA NameSessionLife ==
    ASSUME TypeInv, TypeInv', LifeInv, NEW q \in Request, NameSession(q)
    PROVE  LifeInv'
<1> DEFINE R == req[q]
           r == [R EXCEPT !.pc = "done"]
<1>1. R \in RequestType /\ ShapeOf(R) /\ OwnOf(q, R) /\ LateOf(R) /\ R.pc = "name"
  BY Mine DEF NameSession
<1>2. /\ UNCHANGED <<now, record, pointer, rotated, index, indexUntil, spentAt>>
      /\ raced \subseteq raced' /\ Goto(q, r)
  BY DEF NameSession
<1>3. R.stage \in {"open", "rotate"} /\ ~R.late
  BY <1>1 DEF ShapeOf, LateOf
<1>4. /\ r.sid = R.sid /\ r.pc = "done" /\ r.stage = R.stage /\ r.held = R.held /\ r.n = R.n
      /\ r.todo = R.todo /\ r.sel = R.sel /\ r.late = R.late /\ r.cred = R.cred
  BY <1>1 DEF RequestType
<1> HIDE DEF r
<1>5. OwnOf(q, r)
  BY <1>1, <1>3, <1>4 DEF OwnOf, NamesOf
<1>6. Allowed(q, R, r) /\ LateOf(r) /\ ~EndsOf(r)
  BY <1>1, <1>3, <1>4 DEF Allowed, MintedBy, UnresolvedBy, LateOf, EndsOf
<1> QED
  BY <1>2, <1>5, <1>6, QuietStep

\* RevokeToken on a token that did not resolve reads its pointer.
LEMMA RevokePointerLife ==
    ASSUME TypeInv, TypeInv', LifeInv, NEW q \in Request, RevokePointer(q)
    PROVE  LifeInv'
<1> DEFINE R == req[q]
<1>1. R \in RequestType /\ ShapeOf(R) /\ OwnOf(q, R) /\ LateOf(R) /\ R.pc = "revPointer"
  BY Mine DEF RevokePointer
<1>2. /\ UNCHANGED <<now, record, pointer, rotated, index, indexUntil, spentAt>>
      /\ raced \subseteq raced'
  BY DEF RevokePointer, store
<1>3. R.held \in Request /\ R.stage = "revoke" /\ ~R.late
  BY <1>1 DEF RequestType, ShapeOf, LateOf
<1>4. CASE Held(pointer[R.held]) /\ Goto(q, [R EXCEPT !.sid = pointer[R.held].sid, !.pc = "revDelete"])
  <2> DEFINE r == [R EXCEPT !.sid = pointer[R.held].sid, !.pc = "revDelete"]
  <2>1. /\ r.sid = pointer[R.held].sid /\ r.pc = "revDelete" /\ r.stage = R.stage /\ r.held = R.held
        /\ r.todo = R.todo /\ r.sel = R.sel /\ r.late = R.late /\ r.cred = R.cred
    BY <1>1 DEF RequestType
  <2>2. Recorded(pointer[R.held].sid)
    BY <1>3, <1>4, HeldPointer
  <2> HIDE DEF r
  <2>3. OwnOf(q, r)
    BY <1>1, <1>3, <2>1, <2>2 DEF OwnOf, NamesOf
  <2>4. Allowed(q, R, r) /\ LateOf(r) /\ ~EndsOf(r)
    BY <1>1, <1>3, <2>1 DEF Allowed, MintedBy, UnresolvedBy, LateOf, EndsOf
  <2> QED
    BY <1>2, <1>4, <2>3, <2>4, QuietStep DEF r
<1>5. CASE Goto(q, [R EXCEPT !.pc = "refused"])
  <2> DEFINE r == [R EXCEPT !.pc = "refused"]
  <2>1. /\ r.sid = R.sid /\ r.pc = "refused" /\ r.stage = R.stage /\ r.held = R.held
        /\ r.todo = R.todo /\ r.sel = R.sel /\ r.late = R.late /\ r.cred = R.cred
    BY <1>1 DEF RequestType
  <2> HIDE DEF r
  <2>3. OwnOf(q, r)
    BY <1>1, <1>3, <2>1 DEF OwnOf, NamesOf
  <2>4. Allowed(q, R, r) /\ LateOf(r) /\ ~EndsOf(r)
    BY <1>1, <1>3, <2>1 DEF Allowed, MintedBy, UnresolvedBy, LateOf, EndsOf
  <2> QED
    BY <1>2, <1>5, <2>3, <2>4, QuietStep DEF r
<1> QED
  BY <1>4, <1>5 DEF RevokePointer

\* RevokeID reads the record: a session it finds over is over for good, unless
\* a refresh had read it before.
LEMMA EndReadLife ==
    ASSUME TypeInv, TypeInv', LifeInv, NEW q \in Request, EndRead(q)
    PROVE  LifeInv'
<1> DEFINE R == req[q]
<1>1. R \in RequestType /\ ShapeOf(R) /\ OwnOf(q, R) /\ LateOf(R) /\ R.pc = "endRead"
  BY Mine DEF EndRead
<1>2. /\ UNCHANGED <<now, record, pointer, rotated, index, indexUntil, spentAt>>
      /\ raced \subseteq raced'
  BY DEF EndRead, store, RacedWith
<1>3. R.stage \in {"revoke", "end", "endAll"} /\ ~R.late /\ Recorded(R.sid)
  BY <1>1 DEF ShapeOf, LateOf, OwnOf, NamesOf
<1>4. CASE Goto(q, [R EXCEPT !.pc = "endDelete"])
  <2> DEFINE r == [R EXCEPT !.pc = "endDelete"]
  <2>1. /\ r.sid = R.sid /\ r.pc = "endDelete" /\ r.stage = R.stage /\ r.held = R.held
        /\ r.todo = R.todo /\ r.sel = R.sel /\ r.late = R.late /\ r.cred = R.cred
    BY <1>1 DEF RequestType
  <2> HIDE DEF r
  <2>3. OwnOf(q, r)
    BY <1>1, <1>3, <2>1 DEF OwnOf, NamesOf
  <2>4. Allowed(q, R, r) /\ LateOf(r) /\ ~EndsOf(r)
    BY <1>1, <1>3, <2>1 DEF Allowed, MintedBy, UnresolvedBy, LateOf, EndsOf
  <2> QED
    BY <1>2, <1>4, <2>3, <2>4, QuietStep DEF r
<1>5. CASE /\ ~Alive(R.sid) /\ Goto(q, [R EXCEPT !.pc = EndedAt(R)])
           /\ raced' = RacedWith(R.sid)
  <2> DEFINE r == [R EXCEPT !.pc = EndedAt(R)]
  <2>1. /\ r.sid = R.sid /\ r.pc \in {"done", "next"} /\ r.stage = R.stage /\ r.held = R.held
        /\ r.todo = R.todo /\ r.sel = R.sel /\ r.late = R.late /\ r.cred = R.cred
    BY <1>1, <1>3, Tables DEF RequestType
  <2> HIDE DEF r
  <2>3. OwnOf(q, r)
    BY <1>1, <1>3, <2>1 DEF OwnOf, NamesOf
  <2>4. Allowed(q, R, r) /\ LateOf(r)
    BY <1>1, <1>3, <2>1 DEF Allowed, MintedBy, UnresolvedBy, LateOf
  <2>5. r.sid \in raced' \/ Over(r.sid)
    BY <1>3, <1>5, <2>1 DEF Over, RacedWith
  <2> QED
    BY <1>2, <1>5, <2>3, <2>4, <2>5, QuietStep DEF r
<1> QED
  BY <1>4, <1>5 DEF EndRead

\* collect and Revoke by query: what a walk has in hand was recorded, and an
\* id it is about to drop from its set is over.
LEMMA WalkLife ==
    ASSUME TypeInv, TypeInv', LifeInv, NEW q \in Request,
           ReadMembers(q) \/ Scan(q) \/ ScanDone(q) \/ EndNext(q)
    PROVE  LifeInv'
<1> DEFINE R == req[q]
<1>1. R \in RequestType /\ ShapeOf(R) /\ OwnOf(q, R) /\ LateOf(R)
      /\ R.pc \in {"members", "scan", "next"}
  BY Mine DEF ReadMembers, Scan, ScanDone, EndNext
<1>2. /\ UNCHANGED <<now, record, pointer, rotated, index, indexUntil, spentAt>>
      /\ raced \subseteq raced'
  BY DEF ReadMembers, Scan, ScanDone, EndNext, store, RacedWith
<1>3. R.stage \in {"list", "endAll", "sweep"} /\ ~R.late /\ \A s \in R.todo \cup R.sel : Recorded(s)
  BY <1>1 DEF ShapeOf, LateOf, OwnOf
<1>4. ASSUME NEW r, Goto(q, r), r.stage = R.stage, r.late = R.late,
             r.pc \in {"scan", "repair", "next", "done", "endRead"},
             \A s \in r.todo \cup r.sel : Recorded(s),
             r.pc \in {"repair", "endRead"} => Recorded(r.sid),
             r.pc = "repair" => r.sid \in raced' \/ Over(r.sid)
      PROVE  LifeInv'
  <2>1. OwnOf(q, r)
    BY <1>3, <1>4 DEF OwnOf, NamesOf
  <2>2. Allowed(q, R, r)
    BY <1>1, <1>3, <1>4 DEF Allowed, MintedBy, UnresolvedBy
  <2>3. LateOf(r) /\ (EndsOf(r) => r.pc = "repair")
    BY <1>3, <1>4 DEF LateOf, EndsOf
  <2> QED
    BY <1>2, <1>4, <2>1, <2>2, <2>3, QuietStep
<1>5. CASE ReadMembers(q)
  <2> DEFINE r == [R EXCEPT !.todo = Members(R.key), !.pc = "scan"]
  <2>1. /\ r.todo = Members(R.key) /\ r.pc = "scan" /\ r.stage = R.stage /\ r.sel = R.sel
        /\ r.late = R.late /\ R.key \in Keys
    BY <1>1 DEF RequestType
  <2>2. \A s \in Members(R.key) : Recorded(s)
    BY <2>1 DEF Members, LifeInv, Listed
  <2>3. Goto(q, r)
    BY <1>5 DEF ReadMembers
  <2> HIDE DEF r
  <2> QED
    BY <1>3, <1>4, <2>1, <2>2, <2>3
<1>6. CASE Scan(q)
  <2>1. PICK s \in R.todo :
           \/ /\ ~Alive(s)
              /\ Goto(q, [R EXCEPT !.todo = @ \ {s}, !.sid = s, !.pc = "repair"])
              /\ raced' = RacedWith(s)
           \/ Goto(q, [R EXCEPT !.todo = @ \ {s}, !.sel = @ \cup {s}])
           \/ Goto(q, [R EXCEPT !.todo = @ \ {s}])
    BY <1>6 DEF Scan
  <2>2. R.pc = "scan" /\ Recorded(s)
    BY <1>3, <1>6 DEF Scan
  <2>3. CASE /\ ~Alive(s)
             /\ Goto(q, [R EXCEPT !.todo = @ \ {s}, !.sid = s, !.pc = "repair"])
             /\ raced' = RacedWith(s)
    <3> DEFINE r == [R EXCEPT !.todo = @ \ {s}, !.sid = s, !.pc = "repair"]
    <3>1. /\ r.todo = R.todo \ {s} /\ r.pc = "repair" /\ r.stage = R.stage /\ r.sel = R.sel
          /\ r.late = R.late /\ r.sid = s
      BY <1>1 DEF RequestType
    <3>2. s \in raced' \/ Over(s)
      BY <2>2, <2>3 DEF Over, RacedWith
    <3> HIDE DEF r
    <3>3. \A u \in r.todo \cup r.sel : Recorded(u)
      BY <1>3, <3>1
    <3>4. r.pc \in {"scan", "repair", "next", "done", "endRead"} /\ Recorded(r.sid)
          /\ (r.sid \in raced' \/ Over(r.sid))
      BY <2>2, <3>1, <3>2
    <3> QED
      BY <1>4, <2>3, <3>1, <3>3, <3>4 DEF r
  <2>4. CASE Goto(q, [R EXCEPT !.todo = @ \ {s}, !.sel = @ \cup {s}])
    <3> DEFINE r == [R EXCEPT !.todo = @ \ {s}, !.sel = @ \cup {s}]
    <3>1. /\ r.todo = R.todo \ {s} /\ r.pc = "scan" /\ r.stage = R.stage /\ r.sel = R.sel \cup {s}
          /\ r.late = R.late
      BY <1>1, <2>2 DEF RequestType
    <3> HIDE DEF r
    <3>3. \A u \in r.todo \cup r.sel : Recorded(u)
      BY <1>3, <2>2, <3>1
    <3> QED
      BY <1>4, <2>4, <3>1, <3>3 DEF r
  <2>5. CASE Goto(q, [R EXCEPT !.todo = @ \ {s}])
    <3> DEFINE r == [R EXCEPT !.todo = @ \ {s}]
    <3>1. /\ r.todo = R.todo \ {s} /\ r.pc = "scan" /\ r.stage = R.stage /\ r.sel = R.sel
          /\ r.late = R.late
      BY <1>1, <2>2 DEF RequestType
    <3> HIDE DEF r
    <3>3. \A u \in r.todo \cup r.sel : Recorded(u)
      BY <1>3, <2>2, <3>1
    <3> QED
      BY <1>4, <2>5, <3>1, <3>3 DEF r
  <2> QED
    BY <2>1, <2>3, <2>4, <2>5
<1>7. ASSUME NEW p \in {"next", "done"}, Goto(q, [R EXCEPT !.pc = p])
      PROVE  LifeInv'
  <2> DEFINE r == [R EXCEPT !.pc = p]
  <2>1. /\ r.todo = R.todo /\ r.pc = p /\ r.stage = R.stage /\ r.sel = R.sel /\ r.late = R.late
    BY <1>1 DEF RequestType
  <2> HIDE DEF r
  <2> QED
    BY <1>3, <1>4, <1>7, <2>1 DEF r
<1>8. CASE ScanDone(q)
  BY <1>7, <1>8 DEF ScanDone
<1>9. ASSUME NEW s \in R.sel, Goto(q, [R EXCEPT !.sel = @ \ {s}, !.sid = s, !.pc = "endRead"])
      PROVE  LifeInv'
  <2> DEFINE r == [R EXCEPT !.sel = @ \ {s}, !.sid = s, !.pc = "endRead"]
  <2>1. /\ r.todo = R.todo /\ r.pc = "endRead" /\ r.stage = R.stage /\ r.sel = R.sel \ {s}
        /\ r.late = R.late /\ r.sid = s
    BY <1>1 DEF RequestType
  <2> HIDE DEF r
  <2>2. \A u \in r.todo \cup r.sel : Recorded(u)
    BY <1>3, <2>1
  <2> QED
    BY <1>3, <1>4, <1>9, <2>1, <2>2 DEF r
<1>10. CASE EndNext(q)
  BY <1>7, <1>9, <1>10 DEF EndNext
<1> QED
  BY <1>5, <1>6, <1>8, <1>10

\* A store call fails, or the replica dies.
LEMMA FailLife ==
    ASSUME TypeInv, TypeInv', LifeInv, NEW q \in Request, Fail(q)
    PROVE  LifeInv'
<1> DEFINE R == req[q]
           r == [R EXCEPT !.pc = "failed"]
<1>1. R \in RequestType /\ ShapeOf(R) /\ OwnOf(q, R) /\ LateOf(R)
  BY Mine
<1>2. /\ UNCHANGED <<now, record, pointer, rotated, index, indexUntil, spentAt>>
      /\ raced \subseteq raced' /\ Goto(q, r)
  BY DEF Fail, store
<1>3. /\ r.sid = R.sid /\ r.pc = "failed" /\ r.stage = R.stage /\ r.held = R.held /\ r.n = R.n
      /\ r.todo = R.todo /\ r.sel = R.sel /\ r.late = R.late /\ r.cred = R.cred
  BY <1>1 DEF RequestType
<1> HIDE DEF r
<1>4. OwnOf(q, r)
  BY <1>1, <1>3 DEF OwnOf, NamesOf
<1>5. Allowed(q, R, r) /\ LateOf(r) /\ ~EndsOf(r)
  BY <1>1, <1>3 DEF Allowed, MintedBy, UnresolvedBy, LateOf, EndsOf
<1> QED
  BY <1>2, <1>4, <1>5, QuietStep

----------------------------------------------------------------------------
(* Steps that write the store.                                             *)

\* What a step of q, from R to r, must leave as it was for the requests and for
\* what was ended to stay as they are.
LEMMA Kept ==
    ASSUME TypeInv, LifeInv, NEW q \in Request, NEW r \in RequestType, Goto(q, r),
           \A s \in Request : Recorded(s) => Recorded(s)',
           \A p \in Request \ {q} : Recorded(p)' => Recorded(p),
           MintedBy(req[q]) => MintedBy(r),
           \A t \in Request : Minted(t) =>
              /\ pointer'[t].sid = pointer[t].sid
              /\ pointer[t].until = 0 => pointer'[t].until = 0,
           \A s \in Request : Over(s) => Over(s)', raced \subseteq raced',
           \A t \in Request : Past(t) => Past(t)',
           OwnOf(q, r)', LateOf(r)', EndsOf(r) => r.sid \in raced' \/ Over(r.sid)'
    PROVE  Owned' /\ Late' /\ Ended'
<1>1. req \in [Request -> RequestType] /\ \A p \in Request : ShapeOf(req[p])
  BY DEF TypeInv, TypeOK, Shape
<1>2. \A p \in Request : req'[p] = IF p = q THEN r ELSE req[p]
  BY <1>1 DEF Goto
<1>3. \A t \in Request : Minted(t) => Minted(t)'
  BY <1>2 DEF Minted
<1>4. ASSUME NEW p \in Request, p # q PROVE OwnOf(p, req[p])' /\ req'[p] = req[p]
  <2> PICK X : X = req[p]
    OBVIOUS
  <2>1. req'[p] = X
    BY <1>2, <1>4
  <2>2. X \in RequestType /\ OwnOf(p, X) /\ ShapeOf(X)
    BY <1>1 DEF LifeInv, Owned
  <2>3. X.held \in Request /\ X.tok \in Request /\ X.sid \in Request /\ X.cred \in Request
        /\ X.todo \subseteq Request /\ X.sel \subseteq Request
    BY <2>2 DEF RequestType
  <2>4. X.pc \in {"spend", "setRotated"} => Minted(X.held)
    BY <2>2 DEF OwnOf, ShapeOf
  <2>5. OwnOf(p, X)'
    BY <1>3, <1>4, <2>2, <2>3, <2>4 DEF OwnOf, NamesOf
  <2> QED
    BY <2>1, <2>5
<1>5. Owned'
  <2>1. ASSUME NEW p \in Request PROVE OwnOf(p, req[p])'
    <3>1. CASE p = q
      <4>1. req'[p] = r
        BY <1>2, <3>1
      <4> QED
        BY <3>1, <4>1
    <3>2. CASE p # q
      BY <1>4, <3>2
    <3> QED
      BY <3>1, <3>2
  <2> QED
    BY <2>1 DEF Owned
<1>6. Late'
  <2>1. ASSUME NEW p \in Request PROVE LateOf(req[p])'
    <3>1. CASE p = q
      <4>1. req'[p] = r
        BY <1>2, <3>1
      <4> QED
        BY <4>1
    <3>2. CASE p # q
      <4>1. LateOf(req[p]) /\ req[p] \in RequestType /\ req'[p] = req[p]
        BY <1>1, <1>2, <3>2 DEF LifeInv, Late
      <4> QED
        BY <4>1 DEF LateOf, RequestType
    <3> QED
      BY <3>1, <3>2
  <2> QED
    BY <2>1 DEF Late
<1>7. Ended'
  <2>1. ASSUME NEW p \in Request, EndsOf(req'[p]) PROVE req'[p].sid \in raced' \/ Over(req[p].sid)'
    <3>1. CASE p = q
      <4>1. req'[p] = r
        BY <1>2, <3>1
      <4> QED
        BY <2>1, <4>1
    <3>2. CASE p # q
      <4>1. req'[p] = req[p] /\ req[p].sid \in Request
        BY <1>1, <1>2, <3>2 DEF RequestType
      <4>2. req[p].sid \in raced \/ Over(req[p].sid)
        BY <2>1, <4>1 DEF LifeInv, Ended
      <4> QED
        BY <4>1, <4>2
    <3> QED
      BY <3>1, <3>2
  <2> QED
    BY <2>1 DEF Ended, EndsOf
<1> QED
  BY <1>5, <1>6, <1>7

\* Refreshed makes the old token stop resolving (session.go:306-308): from then
\* on the refresh itself is what will point at the session.
LEMMA SpendLife ==
    ASSUME TypeInv, TypeInv', LifeInv, NEW q \in Request, Spend(q)
    PROVE  LifeInv'
<1> PICK R : R = req[q]
  OBVIOUS
<1> PICK r : r = [R EXCEPT !.pc = "setRotated"]
  OBVIOUS
<1>1. R \in RequestType /\ ShapeOf(R) /\ OwnOf(q, R) /\ LateOf(R) /\ R.pc = "spend"
  BY Mine DEF Spend
<1>2. Goto(q, r) /\ UNCHANGED <<now, record, rotated, index, indexUntil, spentAt, raced>>
  BY DEF Spend
<1>3. req \in [Request -> RequestType] /\ req' \in [Request -> RequestType]
  BY DEF TypeInv, TypeOK
<1>4. \A p \in Request : req'[p] = IF p = q THEN r ELSE req[p]
  BY <1>2, <1>3 DEF Goto
<1>5. /\ r \in RequestType
      /\ r.sid = R.sid /\ r.pc = "setRotated" /\ r.stage = R.stage /\ r.held = R.held
      /\ r.n = R.n /\ r.todo = R.todo /\ r.sel = R.sel /\ r.late = R.late /\ r.cred = R.cred
  BY <1>1, <1>3, <1>4 DEF RequestType
<1>6. R.held \in Request /\ R.sid \in Request /\ R.stage = "rotate" /\ ~R.late /\ ~Past(R.held)
      /\ pointer[R.held].sid = R.sid /\ Minted(R.held) /\ Recorded(R.sid) /\ R.n = 1
      /\ \A s \in R.todo \cup R.sel : Recorded(s)
  BY <1>1 DEF RequestType, ShapeOf, LateOf, Past, OwnOf, NamesOf
<1>7. \A t \in Request :
         /\ pointer'[t].sid = pointer[t].sid
         /\ pointer'[t].until = IF t = R.held THEN 0 ELSE pointer[t].until
  BY <1>6 DEF Spend, TypeInv, TypeOK
<1>8. \A s \in Request : (Alive(s)' <=> Alive(s)) /\ (Recorded(s)' <=> Recorded(s))
  BY <1>2 DEF Alive, Held, Recorded
<1>9. \A t \in Request : Minted(t) => Minted(t)' /\ req'[t] = req[t]
  BY <1>1, <1>4 DEF Minted, MintedBy
<1>10. Owned' /\ Late' /\ Ended'
  <2>1. \A s \in Request : Over(s) => Over(s)'
    <3>1. \A s \in Request : InHand(s)' => InHand(s)
      <4>1. \A p \in Request : p # q => req'[p] = req[p]
        BY <1>4
      <4>2. R.stage = "rotate" /\ R.pc \in {"spend", "setRotated", "put"} /\ R = req[q]
            /\ req'[q].sid = R.sid
        BY <1>1, <1>4, <1>5, <1>6
      <4> QED
        BY <4>1, <4>2 DEF InHand
    <3> QED
      BY <1>8, <3>1 DEF Over
  <2>2. \A t \in Request : Past(t) => Past(t)'
    <3>1. \A p \in Request : req'[p] = req[p] \/ req'[p].held = R.held
      BY <1>4, <1>5
    <3> QED
      BY <1>2, <1>6, <3>1 DEF Past
  <2>3. OwnOf(q, r)'
    <3>1. Recorded(R.sid)' /\ Minted(R.held)' /\ pointer'[R.held].sid = R.sid
          /\ pointer'[R.held].until = 0 /\ \A s \in R.todo \cup R.sel : Recorded(s)'
      BY <1>1, <1>6, <1>7, <1>8, <1>9 DEF RequestType
    <3> QED
      BY <1>5, <1>6, <3>1 DEF OwnOf, NamesOf
  <2>4. LateOf(r)' /\ ~EndsOf(r) /\ ~MintedBy(req[q])
    BY <1>1, <1>5, <1>6 DEF LateOf, EndsOf, MintedBy
  <2> QED
    BY <1>2, <1>5, <1>7, <1>8, <2>1, <2>2, <2>3, <2>4, Kept
<1>11. Tokens'
  BY <1>2, <1>7, <1>8, <1>9 DEF LifeInv, Tokens, TypeInv, TypeOK
<1>12. Listed'
  <2>1. \A s \in Request, k \in Keys : Adding(s, k) => Adding(s, k)'
    BY <1>1, <1>4 DEF Adding
  <2>2. Listed /\ index \in [Keys -> SUBSET Request]
    BY DEF LifeInv, TypeInv, TypeOK
  <2> QED
    BY <1>2, <1>8, <2>1, <2>2 DEF Listed
<1>13. Carried'
  <2> SUFFICES ASSUME NEW s \in Request, Alive(s), s \notin raced
               PROVE  Pointing(s)' \/ \E t \in Request : Leads(t, s)'
    BY <1>2, <1>8 DEF Carried
  <2>1. CASE s = R.sid
    <3>1. req'[q].stage = "rotate" /\ req'[q].sid = s /\ req'[q].pc = r.pc
      BY <1>4, <1>5, <1>6, <2>1
    <3> QED
      BY <1>5, <3>1 DEF Pointing
  <2>2. CASE Pointing(s)
    BY <1>1, <1>4, <2>2 DEF Pointing
  <2>3. ASSUME s # R.sid, NEW t \in Request, Leads(t, s) PROVE Leads(t, s)'
    <3>1. t # R.held
      BY <1>6, <2>3 DEF Leads
    <3>2. ~UnresolvedBy(r)
      BY <1>5, <1>6 DEF UnresolvedBy
    <3> QED
      BY <1>2, <1>4, <1>7, <2>3, <3>1, <3>2 DEF Leads
  <2> QED
    BY <2>1, <2>2, <2>3 DEF LifeInv, Carried
<1> QED
  BY <1>10, <1>11, <1>12, <1>13 DEF LifeInv

\* The successor is noted for the grace window (session.go:310-333), once the
\* spent token is gone, so that its grace counts from the last refresh of it.
LEMMA SetRotatedLife ==
    ASSUME TypeInv, TypeInv', LifeInv, NEW q \in Request, SetRotated(q)
    PROVE  LifeInv'
<1> PICK R : R = req[q]
  OBVIOUS
<1> PICK r : r = [R EXCEPT !.cred = q, !.expires = CapEnd(R.auth, Lifetime),
                          !.pc = IF CapEnd(R.auth, Lifetime) > now THEN "put" ELSE "endDelete"]
  OBVIOUS
<1>1. R \in RequestType /\ ShapeOf(R) /\ OwnOf(q, R) /\ LateOf(R) /\ R.pc = "setRotated"
  BY Mine DEF SetRotated
<1>2. Goto(q, r) /\ UNCHANGED <<now, record, pointer, index, indexUntil, raced>>
  BY DEF SetRotated
<1>3. req \in [Request -> RequestType] /\ req' \in [Request -> RequestType]
  BY DEF TypeInv, TypeOK
<1>4. \A p \in Request : req'[p] = IF p = q THEN r ELSE req[p]
  BY <1>2, <1>3 DEF Goto
<1>5. /\ r \in RequestType
      /\ r.sid = R.sid /\ r.pc \in {"put", "endDelete"} /\ r.stage = R.stage /\ r.held = R.held
      /\ r.n = R.n /\ r.todo = R.todo /\ r.sel = R.sel /\ r.late = R.late /\ r.cred = q
  BY <1>1, <1>3, <1>4 DEF RequestType
<1>6. R.held \in Request /\ R.sid \in Request /\ R.stage = "rotate" /\ ~R.late /\ ~Past(R.held)
      /\ pointer[R.held].until = 0 /\ Minted(R.held) /\ Recorded(R.sid) /\ R.n = 1
      /\ \A s \in R.todo \cup R.sel : Recorded(s)
  BY <1>1 DEF RequestType, ShapeOf, LateOf, Past, OwnOf, NamesOf
<1>7. \A t \in Request :
         /\ spentAt'[t] = IF t = R.held THEN now ELSE spentAt[t]
         /\ rotated'[t].until = IF t = R.held THEN now + Grace ELSE rotated[t].until
  BY <1>6 DEF SetRotated, TypeInv, TypeOK
<1>8. \A s \in Request : (Alive(s)' <=> Alive(s)) /\ (Recorded(s)' <=> Recorded(s))
  BY <1>2 DEF Alive, Held, Recorded
<1>9. \A t \in Request : Minted(t) => Minted(t)' /\ req'[t] = req[t]
  BY <1>1, <1>4 DEF Minted, MintedBy
<1>10. Owned' /\ Late' /\ Ended'
  <2>1. \A s \in Request : Over(s) => Over(s)'
    <3>1. \A s \in Request : InHand(s)' => InHand(s)
      <4>1. \A p \in Request : p # q => req'[p] = req[p]
        BY <1>4
      <4>2. R.stage = "rotate" /\ R.pc \in {"spend", "setRotated", "put"} /\ R = req[q]
            /\ req'[q].sid = R.sid
        BY <1>1, <1>4, <1>5, <1>6
      <4> QED
        BY <4>1, <4>2 DEF InHand
    <3> QED
      BY <1>8, <3>1 DEF Over
  <2>2. \A t \in Request : Past(t) => Past(t)'
    <3>1. \A p \in Request : req'[p] = req[p] \/ req'[p].held = R.held
      BY <1>4, <1>5
    <3> QED
      BY <1>2, <1>6, <1>7, <3>1 DEF Past
  <2>3. OwnOf(q, r)'
    <3>1. Recorded(R.sid)' /\ Minted(R.held)' /\ \A s \in R.todo \cup R.sel : Recorded(s)'
      BY <1>1, <1>6, <1>8, <1>9 DEF RequestType
    <3> QED
      BY <1>5, <1>6, <3>1 DEF OwnOf, NamesOf
  <2>4. LateOf(r)' /\ ~EndsOf(r) /\ ~MintedBy(req[q])
    BY <1>1, <1>5, <1>6 DEF LateOf, EndsOf, MintedBy
  <2> QED
    BY <1>2, <1>5, <1>8, <2>1, <2>2, <2>3, <2>4, Kept
<1>11. Tokens'
  <2> SUFFICES ASSUME NEW t \in Request
               PROVE  /\ pointer'[t].until # 0 =>
                            /\ Minted(t)' /\ Recorded(pointer[t].sid)'
                            /\ req'[t].sid = pointer'[t].sid /\ req'[t].cred = t
                      /\ spentAt'[t] # 0 => pointer'[t].until = 0 /\ Minted(t)'
                      /\ rotated'[t].until <= spentAt'[t] + Grace
    BY DEF Tokens
  <2>1. /\ pointer[t].until # 0 =>
             /\ Minted(t) /\ Recorded(pointer[t].sid)
             /\ req[t].sid = pointer[t].sid /\ req[t].cred = t
        /\ spentAt[t] # 0 => pointer[t].until = 0 /\ Minted(t)
        /\ rotated[t].until <= spentAt[t] + Grace
    BY DEF LifeInv, Tokens
  <2>2. pointer[t].sid \in Request /\ now \in Nat /\ Grace \in Nat
    BY SessionsAssumption DEF TypeInv, TypeOK
  <2> QED
    BY <1>2, <1>6, <1>7, <1>8, <1>9, <2>1, <2>2
<1>12. Listed'
  <2>1. \A s \in Request, k \in Keys : Adding(s, k) => Adding(s, k)'
    BY <1>1, <1>4 DEF Adding
  <2>2. Listed /\ index \in [Keys -> SUBSET Request]
    BY DEF LifeInv, TypeInv, TypeOK
  <2> QED
    BY <1>2, <1>8, <2>1, <2>2 DEF Listed
<1>13. Carried'
  <2> SUFFICES ASSUME NEW s \in Request, Alive(s), s \notin raced
               PROVE  Pointing(s)' \/ \E t \in Request : Leads(t, s)'
    BY <1>2, <1>8 DEF Carried
  <2>1. CASE s = R.sid
    <3>1. req'[q].stage = "rotate" /\ req'[q].sid = s /\ req'[q].pc = r.pc
      BY <1>4, <1>5, <1>6, <2>1
    <3> QED
      BY <1>5, <3>1 DEF Pointing
  <2>2. CASE s # R.sid /\ Pointing(s)
    BY <1>1, <1>4, <2>2 DEF Pointing
  <2>3. ASSUME NEW t \in Request, Leads(t, s) PROVE Leads(t, s)'
    <3>2. ~UnresolvedBy(r)
      BY <1>5, <1>6 DEF UnresolvedBy
    <3> QED
      BY <1>2, <1>4, <2>3, <3>2 DEF Leads
  <2> QED
    BY <2>1, <2>2, <2>3 DEF LifeInv, Carried
<1> QED
  BY <1>10, <1>11, <1>12, <1>13 DEF LifeInv

\* put writes the record whole (session.go:335-337, :686-706): nobody else
\* takes a session over, because only a refresh that has it in hand, or the
\* sign-in that opens it, writes it.
LEMMA PutLife ==
    ASSUME TypeInv, TypeInv', LifeInv, NEW q \in Request, Put(q)
    PROVE  LifeInv'
<1> PICK R : R = req[q]
  OBVIOUS
<1> PICK r : r = [R EXCEPT !.pc = "setPointer"]
  OBVIOUS
<1>1. R \in RequestType /\ ShapeOf(R) /\ OwnOf(q, R) /\ LateOf(R) /\ R.pc = "put"
  BY Mine DEF Put
<1>2. Goto(q, r) /\ UNCHANGED <<now, pointer, rotated, index, indexUntil, spentAt, raced>>
  BY DEF Put
<1>3. req \in [Request -> RequestType] /\ req' \in [Request -> RequestType]
  BY DEF TypeInv, TypeOK
<1>4. req'[q] = r /\ req[q] = R /\ r \in RequestType /\ \A p \in Request : p # q => req'[p] = req[p]
  BY <1>2, <1>3 DEF Goto
<1>5. /\ r.sid = R.sid /\ r.pc = "setPointer" /\ r.stage = R.stage /\ r.held = R.held
      /\ r.n = R.n /\ r.todo = R.todo /\ r.sel = R.sel /\ r.late = R.late /\ r.cred = R.cred
  BY <1>1 DEF RequestType
<1>6. R.sid \in Request /\ R.stage \in {"open", "rotate"} /\ ~R.late /\ R.cred = q /\ R.n = 1
      /\ (R.stage = "open" => R.sid = q /\ ~Recorded(q)) /\ (R.stage = "rotate" => Recorded(R.sid))
      /\ (R.stage = "rotate" => Minted(R.held)) /\ \A s \in R.todo \cup R.sel : Recorded(s)
  BY <1>1 DEF RequestType, ShapeOf, LateOf, OwnOf, NamesOf
<1>7. /\ \A s \in Request : s # R.sid => record'[s] = record[s]
      /\ record'[R.sid].until = now + Lifetime /\ record'[R.sid].expires = R.expires
      /\ R.expires > now /\ R.expires \in Nat /\ now \in Nat
  BY <1>1, <1>6 DEF Put, TypeInv, TypeOK, RequestType
<1>8. /\ \A s \in Request : s # R.sid => (Alive(s)' <=> Alive(s)) /\ (Recorded(s)' <=> Recorded(s))
      /\ Recorded(R.sid)'
  BY <1>2, <1>7 DEF Alive, Held, Recorded
<1>9. \A t \in Request : Minted(t) => Minted(t)' /\ req'[t] = req[t]
  BY <1>1, <1>4 DEF Minted, MintedBy
<1>10. Owned' /\ Late' /\ Ended'
  <2>1. \A s \in Request : Over(s) => Over(s)'
    <3>1. \A s \in Request : InHand(s)' => InHand(s)
      BY <1>4, <1>5 DEF InHand
    <3>2. ~Over(R.sid)
      BY <1>1, <1>4, <1>6 DEF Over, InHand
    <3> QED
      BY <1>8, <3>1, <3>2 DEF Over
  <2>2. \A t \in Request : Past(t) => Past(t)'
    <3>1. \A p \in Request : req'[p] = req[p] \/ req'[p].pc = "setPointer"
      BY <1>4, <1>5
    <3> QED
      BY <1>2, <3>1 DEF Past
  <2>3. OwnOf(q, r)'
    <3>1. Recorded(R.sid)' /\ (R.stage = "rotate" => Minted(R.held)')
          /\ \A s \in R.todo \cup R.sel : Recorded(s)'
      BY <1>1, <1>6, <1>8, <1>9 DEF RequestType
    <3> QED
      BY <1>5, <1>6, <3>1 DEF OwnOf, NamesOf
  <2>4. LateOf(r)' /\ ~EndsOf(r) /\ ~MintedBy(req[q])
    BY <1>1, <1>4, <1>5, <1>6 DEF LateOf, EndsOf, MintedBy
  <2>5. \A p \in Request \ {q} : Recorded(p)' => Recorded(p)
    BY <1>6, <1>8
  <2>6. \A s \in Request : Recorded(s) => Recorded(s)'
    BY <1>8
  <2> QED
    BY <1>2, <1>4, <2>1, <2>2, <2>3, <2>4, <2>5, <2>6, Kept
<1>11. Tokens'
  <2>1. \A t \in Request : pointer[t].sid \in Request /\ (Recorded(t) => Recorded(t)')
    BY <1>8 DEF TypeInv, TypeOK
  <2> QED
    BY <1>2, <1>9, <2>1 DEF LifeInv, Tokens
<1>12. Listed'
  <2>1. \A s \in Request, k \in Keys : Adding(s, k) => Adding(s, k)'
    BY <1>1, <1>4 DEF Adding
  <2>2. Listed /\ index \in [Keys -> SUBSET Request] /\ Lifetime \in Nat
    BY SessionsAssumption DEF LifeInv, TypeInv, TypeOK
  <2>3. \A k \in Keys : Adding(R.sid, k)'
    BY <1>4, <1>5, <1>6 DEF Adding
  <2>4. \A s \in Request : record'[s].until <= now' + Lifetime
    BY <1>2, <1>7, <2>2 DEF Listed
  <2>5. \A k \in Keys : indexUntil'[k] <= now' + Lifetime /\ \A s \in index'[k] : Recorded(s)'
    BY <1>2, <1>8, <2>2 DEF Listed
  <2>6. ASSUME NEW s \in Request, NEW k \in Keys, Alive(s)', s \notin raced'
        PROVE  Adding(s, k)' \/ (s \in index'[k] /\ record'[s].until <= indexUntil'[k])
    BY <1>2, <1>7, <1>8, <2>1, <2>2, <2>3, <2>6 DEF Listed
  <2> QED
    BY <2>4, <2>5, <2>6 DEF Listed
<1>13. Carried'
  <2> SUFFICES ASSUME NEW s \in Request, Alive(s)', s \notin raced
               PROVE  Pointing(s)' \/ \E t \in Request : Leads(t, s)'
    BY <1>2 DEF Carried
  <2>1. CASE s = R.sid
    BY ZenonT(30), <1>4, <1>5, <1>6, <2>1 DEF Pointing
  <2>2. CASE s # R.sid /\ Pointing(s)
    BY <1>4, <2>2 DEF Pointing
  <2>3. ASSUME s # R.sid, NEW t \in Request, Leads(t, s) PROVE Leads(t, s)'
    <3>2. ~UnresolvedBy(r)
      BY <1>5, <1>6 DEF UnresolvedBy
    <3>3. \A p \in Request : UnresolvedBy(req'[p]) => req'[p].held # t
      BY <1>4, <2>3, <3>2 DEF Leads
    <3> QED
      BY <1>2, <1>7, <2>3, <3>3 DEF Leads
  <2> QED
    BY <1>8, <2>1, <2>2, <2>3 DEF LifeInv, Carried
<1> QED
  BY <1>10, <1>11, <1>12, <1>13 DEF LifeInv

\* The new token's pointer (session.go:339-341): it outlives the record, and no
\* revocation can know the token yet.
LEMMA SetPointerLife ==
    ASSUME TypeInv, TypeInv', LifeInv, NEW q \in Request, SetPointer(q)
    PROVE  LifeInv'
<1> PICK R : R = req[q]
  OBVIOUS
<1> PICK r : r = [R EXCEPT !.pc = "add"]
  OBVIOUS
<1>1. R \in RequestType /\ ShapeOf(R) /\ OwnOf(q, R) /\ LateOf(R) /\ R.pc = "setPointer"
  BY Mine DEF SetPointer
<1>2. Goto(q, r) /\ UNCHANGED <<now, record, rotated, index, indexUntil, spentAt, raced>>
  BY DEF SetPointer
<1>3. req \in [Request -> RequestType] /\ req' \in [Request -> RequestType]
  BY DEF TypeInv, TypeOK
<1>4. req'[q] = r /\ req[q] = R /\ r \in RequestType /\ \A p \in Request : p # q => req'[p] = req[p]
  BY <1>2, <1>3 DEF Goto
<1>5. /\ r.sid = R.sid /\ r.pc = "add" /\ r.stage = R.stage /\ r.held = R.held
      /\ r.n = R.n /\ r.todo = R.todo /\ r.sel = R.sel /\ r.late = R.late /\ r.cred = R.cred
  BY <1>1 DEF RequestType
<1>6. R.sid \in Request /\ R.stage \in {"open", "rotate"} /\ ~R.late /\ R.cred = q /\ R.n = 1
      /\ (R.stage = "open" => R.sid = q) /\ Recorded(R.sid)
      /\ (R.stage = "rotate" => Minted(R.held)) /\ \A s \in R.todo \cup R.sel : Recorded(s)
  BY <1>1 DEF RequestType, ShapeOf, LateOf, OwnOf, NamesOf
<1>7. /\ \A t \in Request : t # q => pointer'[t] = pointer[t]
      /\ pointer'[q].until = now + Lifetime /\ pointer'[q].sid = R.sid
      /\ now \in Nat /\ Lifetime \in Nat \ {0}
  BY SessionsAssumption DEF SetPointer, TypeInv, TypeOK
<1>8. \A s \in Request : (Alive(s)' <=> Alive(s)) /\ (Recorded(s)' <=> Recorded(s))
  BY <1>2 DEF Alive, Held, Recorded
<1>9. /\ ~Minted(q) /\ Minted(q)'
      /\ \A t \in Request : Minted(t) => t # q /\ Minted(t)' /\ req'[t] = req[t]
  BY <1>1, <1>4, <1>5, <1>6 DEF Minted, MintedBy
<1>10. Owned' /\ Late' /\ Ended'
  <2>1. \A s \in Request : Over(s) => Over(s)'
    <3>1. \A s \in Request : InHand(s)' => InHand(s)
      BY <1>4, <1>5 DEF InHand
    <3> QED
      BY <1>8, <3>1 DEF Over
  <2>2. \A t \in Request : Past(t) => Past(t)'
    <3>1. \A p \in Request : req'[p] = req[p] \/ req'[p].pc = "add"
      BY <1>4, <1>5
    <3> QED
      BY <1>2, <3>1 DEF Past
  <2>3. OwnOf(q, r)'
    <3>1. Recorded(R.sid)' /\ (R.stage = "rotate" => Minted(R.held)') /\ Minted(q)'
          /\ \A s \in R.todo \cup R.sel : Recorded(s)'
      BY <1>1, <1>6, <1>8, <1>9 DEF RequestType
    <3> QED
      BY <1>5, <1>6, <3>1 DEF OwnOf, NamesOf
  <2>4. LateOf(r)' /\ ~EndsOf(r) /\ ~MintedBy(req[q])
    BY <1>1, <1>4, <1>5, <1>6 DEF LateOf, EndsOf, MintedBy
  <2> QED
    BY <1>2, <1>4, <1>7, <1>8, <1>9, <2>1, <2>2, <2>3, <2>4, Kept
<1>11. Tokens'
  <2>1. \A t \in Request : pointer[t].sid \in Request
    BY DEF TypeInv, TypeOK
  <2>2. spentAt[q] = 0 /\ rotated[q].until <= spentAt[q] + Grace
    BY <1>9 DEF LifeInv, Tokens
  <2> SUFFICES ASSUME NEW t \in Request
               PROVE  /\ pointer'[t].until # 0 =>
                            /\ Minted(t)' /\ Recorded(pointer[t].sid)'
                            /\ req'[t].sid = pointer'[t].sid /\ req'[t].cred = t
                      /\ spentAt'[t] # 0 => pointer'[t].until = 0 /\ Minted(t)'
                      /\ rotated'[t].until <= spentAt'[t] + Grace
    BY DEF Tokens
  <2>3. CASE t = q
    <3>1. Recorded(pointer[t].sid)'
      BY <1>6, <1>7, <1>8, <2>3
    <3> QED
      BY <1>2, <1>4, <1>5, <1>6, <1>7, <1>9, <2>2, <2>3, <3>1
  <2>4. CASE t # q
    <3>1. /\ pointer[t].until # 0 =>
             /\ Minted(t) /\ Recorded(pointer[t].sid)
             /\ req[t].sid = pointer[t].sid /\ req[t].cred = t
          /\ spentAt[t] # 0 => pointer[t].until = 0 /\ Minted(t)
          /\ rotated[t].until <= spentAt[t] + Grace
      BY DEF LifeInv, Tokens
    <3>2. pointer'[t] = pointer[t]
      BY <1>7, <2>4
    <3>3. Recorded(pointer[t].sid) => Recorded(pointer[t].sid)'
      BY <1>8, <2>1, <3>2 DEF Recorded
    <3> QED
      BY <1>2, <1>4, <1>9, <2>4, <3>1, <3>2, <3>3
  <2> QED
    BY <2>3, <2>4
<1>12. Listed'
  <2>1. \A s \in Request, k \in Keys : Adding(s, k) => Adding(s, k)'
    <3>1. \A k \in Keys : \E m \in 1 .. 3 : m >= 1 /\ Sets[m] = k
      BY DEF Keys, Sets
    <3>2. \A k \in Keys : Adding(R.sid, k)'
      <4>1. /\ req'[q].stage \in {"open", "rotate"} /\ req'[q].sid = R.sid
            /\ req'[q].pc = "add" /\ req'[q].n = 1
        BY <1>4, <1>5, <1>6
      <4> QED
        BY <3>1, <4>1 DEF Adding
    <3> QED
      BY <1>4, <3>2 DEF Adding
  <2>2. Listed /\ index \in [Keys -> SUBSET Request]
    BY DEF LifeInv, TypeInv, TypeOK
  <2> QED
    BY <1>2, <1>8, <2>1, <2>2 DEF Listed
<1>13. Carried'
  <2> SUFFICES ASSUME NEW s \in Request, Alive(s), s \notin raced
               PROVE  Pointing(s)' \/ \E t \in Request : Leads(t, s)'
    BY <1>2, <1>8 DEF Carried
  <2>1. ~UnresolvedBy(r)
    BY <1>5, <1>6 DEF UnresolvedBy
  <2>2. CASE s = R.sid
    <3>1. record[s].until <= now + Lifetime
      BY DEF LifeInv, Listed
    <3>2. \A p \in Request : UnresolvedBy(req[p]) => Minted(req[p].held)
      BY DEF UnresolvedBy, LifeInv, Owned, OwnOf
    <3>3. \A p \in Request : UnresolvedBy(req'[p]) => req'[p].held # q
      BY <1>4, <1>9, <2>1, <3>2
    <3> QED
      BY <1>2, <1>7, <2>2, <3>1, <3>3 DEF Leads
  <2>3. CASE s # R.sid /\ Pointing(s)
    BY <1>4, <2>3 DEF Pointing
  <2>4. ASSUME s # R.sid, NEW t \in Request, Leads(t, s) PROVE Leads(t, s)'
    <3>1. t # q
      <4>1. pointer[t].until # 0
        BY <2>4 DEF Leads, Alive, Held, TypeInv, TypeOK
      <4> QED
        BY <1>9, <4>1 DEF LifeInv, Tokens
    <3>3. \A p \in Request : UnresolvedBy(req'[p]) => req'[p].held # t
      BY <1>4, <2>1, <2>4 DEF Leads
    <3> QED
      BY <1>2, <1>7, <2>4, <3>1, <3>3 DEF Leads
  <2> QED
    BY <2>2, <2>3, <2>4 DEF LifeInv, Carried
<1> QED
  BY <1>10, <1>11, <1>12, <1>13 DEF LifeInv

\* The three sets, one after the other (session.go:343-350): each Add leaves its
\* set no shorter-lived than the record.
LEMMA AddToSetLife ==
    ASSUME TypeInv, TypeInv', LifeInv, NEW q \in Request, AddToSet(q)
    PROVE  LifeInv'
<1> PICK R : R = req[q]
  OBVIOUS
<1> PICK r : r = IF R.n < Len(Sets) THEN [R EXCEPT !.n = @ + 1] ELSE [R EXCEPT !.pc = "name"]
  OBVIOUS
<1> DEFINE k == Sets[R.n]
<1>1. R \in RequestType /\ ShapeOf(R) /\ OwnOf(q, R) /\ LateOf(R) /\ R.pc = "add"
  BY Mine DEF AddToSet
<1>2. Goto(q, r) /\ UNCHANGED <<now, record, pointer, rotated, spentAt, raced>>
  BY DEF AddToSet
<1>3. req \in [Request -> RequestType] /\ req' \in [Request -> RequestType]
  BY DEF TypeInv, TypeOK
<1>4. req'[q] = r /\ req[q] = R /\ r \in RequestType /\ \A p \in Request : p # q => req'[p] = req[p]
  BY <1>2, <1>3 DEF Goto
<1>5. /\ r.sid = R.sid /\ r.stage = R.stage /\ r.held = R.held
      /\ r.todo = R.todo /\ r.sel = R.sel /\ r.late = R.late /\ r.cred = R.cred
      /\ r.pc \in {"add", "name"}
      /\ R.n < 3 => r.pc = "add" /\ r.n = R.n + 1
  BY <1>1, SetsKeys DEF RequestType
<1>6. R.sid \in Request /\ R.stage \in {"open", "rotate"} /\ ~R.late /\ Minted(R.cred) /\ R.n \in 1 .. 3
      /\ R.cred \in Request
      /\ (R.stage = "open" => R.sid = q) /\ Recorded(R.sid)
      /\ (R.stage = "rotate" => Minted(R.held)) /\ \A s \in R.todo \cup R.sel : Recorded(s)
  BY <1>1 DEF RequestType, ShapeOf, LateOf, OwnOf, NamesOf
<1>7. /\ k \in Keys
      /\ \A j \in Keys : j # k => index'[j] = index[j] /\ indexUntil'[j] = indexUntil[j]
      /\ index'[k] = Members(k) \cup {R.sid} /\ indexUntil'[k] = now + Lifetime
  <2>1. k \in Keys
    BY <1>6, SetsKeys
  <2>2. index \in [Keys -> SUBSET Request] /\ indexUntil \in [Keys -> Nat]
    BY DEF TypeInv, TypeOK
  <2>3. /\ index' = [index EXCEPT ![k] = Members(k) \cup {R.sid}]
        /\ indexUntil' = [indexUntil EXCEPT ![k] = now + Lifetime]
    BY DEF AddToSet
  <2> HIDE DEF k
  <2> QED
    BY <2>1, <2>2, <2>3
<1> HIDE DEF k
<1>8. \A s \in Request : (Alive(s)' <=> Alive(s)) /\ (Recorded(s)' <=> Recorded(s))
  BY <1>2 DEF Alive, Held, Recorded
<1>9. /\ \A t \in Request : Minted(t) => Minted(t)'
      /\ \A t \in Request : req'[t].sid = req[t].sid /\ req'[t].cred = req[t].cred
  <2>1. MintedBy(r)
    BY <1>5, <1>6 DEF MintedBy
  <2>2. \A t \in Request : Minted(t) => Minted(t)'
    BY <1>4, <2>1 DEF Minted
  <2>3. \A t \in Request : req'[t].sid = req[t].sid /\ req'[t].cred = req[t].cred
    BY <1>4, <1>5
  <2> QED
    BY <2>2, <2>3
<1>10. Owned' /\ Late' /\ Ended'
  <2>1. \A s \in Request : Over(s) => Over(s)'
    <3>1. \A s \in Request : InHand(s)' => InHand(s)
      BY <1>4, <1>5 DEF InHand
    <3> QED
      BY <1>8, <3>1 DEF Over
  <2>2. \A t \in Request : Past(t) => Past(t)'
    <3>1. \A p \in Request : req'[p] = req[p] \/ req'[p].pc \in {"add", "name"}
      BY <1>4, <1>5
    <3> QED
      BY <1>2, <3>1 DEF Past
  <2>3. OwnOf(q, r)'
    <3>1. Recorded(R.sid)' /\ (R.stage = "rotate" => Minted(R.held)') /\ Minted(R.cred)'
          /\ \A s \in R.todo \cup R.sel : Recorded(s)'
      BY <1>1, <1>6, <1>8, <1>9 DEF RequestType
    <3> QED
      BY <1>5, <1>6, <3>1 DEF OwnOf, NamesOf
  <2>4. LateOf(r)' /\ ~EndsOf(r) /\ MintedBy(r)
    BY <1>1, <1>4, <1>5, <1>6 DEF LateOf, EndsOf, MintedBy
  <2> QED
    BY <1>2, <1>4, <1>8, <2>1, <2>2, <2>3, <2>4, Kept
<1>11. Tokens'
  <2>1. \A t \in Request : pointer[t].sid \in Request
    BY DEF TypeInv, TypeOK
  <2> QED
    BY <1>2, <1>8, <1>9, <2>1 DEF LifeInv, Tokens
<1>12. Listed'
  <2>1. Listed /\ index \in [Keys -> SUBSET Request] /\ indexUntil \in [Keys -> Nat] /\ now \in Nat
        /\ Lifetime \in Nat /\ record \in [Request -> [auth : Nat, issued : Nat, expires : Nat, until : Nat]]
    BY SessionsAssumption DEF LifeInv, TypeInv, TypeOK
  <2>2. \A s \in Request : record'[s].until <= now' + Lifetime
    BY <1>2, <2>1 DEF Listed
  <2>3. ASSUME NEW j \in Keys PROVE indexUntil'[j] <= now' + Lifetime /\ \A s \in index'[j] : Recorded(s)'
    <3>1. \A s \in index[j] : s \in Request /\ Recorded(s)
      BY <2>1 DEF Listed
    <3>2. Members(j) \subseteq index[j]
      BY DEF Members
    <3>3. \A s \in index'[j] : s \in index[j] \/ s = R.sid
      BY <1>7, <3>2
    <3>4. indexUntil'[j] <= now' + Lifetime
      BY <1>2, <1>7, <2>1 DEF Listed
    <3> QED
      BY <1>6, <1>8, <3>1, <3>3, <3>4
  <2>4. ASSUME NEW s \in Request, NEW j \in Keys, Alive(s), s \notin raced
        PROVE  Adding(s, j)' \/ (s \in index'[j] /\ record'[s].until <= indexUntil'[j])
    <3>1. record[s].until \in Nat /\ record[s].until > now /\ record[s].until <= now + Lifetime
      BY <2>1, <2>4 DEF Alive, Held, Listed
    <3>2. CASE Adding(s, j)
      <4>1. PICK p \in Request :
              /\ req[p].stage \in {"open", "rotate"} /\ req[p].sid = s
              /\ \/ req[p].pc \in {"setPointer", "failed"}
                 \/ req[p].pc = "add" /\ \E m \in 1 .. 3 : m >= req[p].n /\ Sets[m] = j
        BY <3>2 DEF Adding
      <4>2. CASE p # q
        BY <1>4, <4>1, <4>2 DEF Adding
      <4>3. CASE p = q
        <5>1. s = R.sid
          BY <1>4, <4>1, <4>3
        <5>2. PICK m \in 1 .. 3 : m >= R.n /\ Sets[m] = j
          BY <1>1, <1>4, <4>1, <4>3
        <5>3. CASE m = R.n
          BY <1>2, <1>7, <3>1, <5>1, <5>2, <5>3 DEF k
        <5>4. CASE m # R.n
          <6>1. R.n < 3 /\ m >= R.n + 1
            BY <1>6, <5>2, <5>4
          <6>2. req'[q].pc = "add" /\ req'[q].stage \in {"open", "rotate"} /\ req'[q].sid = s
                /\ m >= req'[q].n
            BY <1>4, <1>5, <1>6, <5>1, <6>1
          <6> QED
            BY <5>2, <6>2 DEF Adding
        <5> QED
          BY <5>3, <5>4
      <4> QED
        BY <4>2, <4>3
    <3>3. CASE s \in index[j] /\ record[s].until <= indexUntil[j]
      <4>1. Members(j) = index[j]
        BY <2>1, <3>1, <3>3 DEF Members
      <4> QED
        BY <1>2, <1>7, <3>1, <3>3, <4>1
    <3> QED
      BY <2>1, <2>4, <3>2, <3>3 DEF Listed
  <2> QED
    BY <1>2, <1>8, <2>2, <2>3, <2>4 DEF Listed
<1>13. Carried'
  <2> SUFFICES ASSUME NEW s \in Request, Alive(s), s \notin raced
               PROVE  Pointing(s)' \/ \E t \in Request : Leads(t, s)'
    BY <1>2, <1>8 DEF Carried
  <2>1. ~UnresolvedBy(r)
    BY <1>5, <1>6 DEF UnresolvedBy
  <2>2. Pointing(s) => Pointing(s)'
    BY <1>1, <1>4 DEF Pointing
  <2>3. ASSUME NEW t \in Request, Leads(t, s) PROVE Leads(t, s)'
    <3>1. \A p \in Request : UnresolvedBy(req'[p]) => req'[p].held # t
      BY <1>4, <2>1, <2>3 DEF Leads
    <3> QED
      BY <1>2, <2>3, <3>1 DEF Leads
  <2> QED
    BY <2>2, <2>3 DEF LifeInv, Carried
<1> QED
  BY <1>10, <1>11, <1>12, <1>13 DEF LifeInv

\* RevokeToken deletes the pointer of a token that did not resolve
\* (storage.go:1359-1386): it never was what leads to a live session.
LEMMA RevokeDeleteLife ==
    ASSUME TypeInv, TypeInv', LifeInv, NEW q \in Request, RevokeDelete(q)
    PROVE  LifeInv'
<1> PICK R : R = req[q]
  OBVIOUS
<1> PICK r : r = [R EXCEPT !.pc = "endRead"]
  OBVIOUS
<1>1. R \in RequestType /\ ShapeOf(R) /\ OwnOf(q, R) /\ LateOf(R) /\ R.pc = "revDelete"
  BY Mine DEF RevokeDelete
<1>2. Goto(q, r) /\ UNCHANGED <<now, record, rotated, index, indexUntil, spentAt, raced>>
  BY DEF RevokeDelete
<1>3. req \in [Request -> RequestType] /\ req' \in [Request -> RequestType]
  BY DEF TypeInv, TypeOK
<1>4. req'[q] = r /\ req[q] = R /\ r \in RequestType /\ \A p \in Request : p # q => req'[p] = req[p]
  BY <1>2, <1>3 DEF Goto
<1>5. /\ r.sid = R.sid /\ r.pc = "endRead" /\ r.stage = R.stage /\ r.held = R.held
      /\ r.n = R.n /\ r.todo = R.todo /\ r.sel = R.sel /\ r.late = R.late /\ r.cred = R.cred
  BY <1>1 DEF RequestType
<1>6. R.held \in Request /\ R.sid \in Request /\ R.stage = "revoke" /\ ~R.late
      /\ Minted(R.held) /\ Recorded(R.sid) /\ \A s \in R.todo \cup R.sel : Recorded(s)
  BY <1>1 DEF RequestType, ShapeOf, LateOf, OwnOf, NamesOf
<1>7. \A t \in Request :
         /\ pointer'[t].sid = pointer[t].sid
         /\ pointer'[t].until = IF t = R.held THEN 0 ELSE pointer[t].until
  BY <1>6 DEF RevokeDelete, TypeInv, TypeOK
<1>8. \A s \in Request : (Alive(s)' <=> Alive(s)) /\ (Recorded(s)' <=> Recorded(s))
  BY <1>2 DEF Alive, Held, Recorded
<1>9. \A t \in Request : Minted(t) => Minted(t)' /\ req'[t] = req[t]
  BY <1>1, <1>4 DEF Minted, MintedBy
<1>10. Owned' /\ Late' /\ Ended'
  <2>1. \A s \in Request : Over(s) => Over(s)'
    <3>1. \A s \in Request : InHand(s)' => InHand(s)
      BY <1>4, <1>5 DEF InHand
    <3> QED
      BY <1>8, <3>1 DEF Over
  <2>2. \A t \in Request : Past(t) => Past(t)'
    <3>1. \A p \in Request : req'[p] = req[p] \/ req'[p].pc = "endRead"
      BY <1>4, <1>5
    <3> QED
      BY <1>2, <3>1 DEF Past
  <2>3. OwnOf(q, r)'
    <3>1. Recorded(R.sid)' /\ Minted(R.held)' /\ \A s \in R.todo \cup R.sel : Recorded(s)'
      BY <1>1, <1>6, <1>8, <1>9 DEF RequestType
    <3> QED
      BY <1>5, <1>6, <3>1 DEF OwnOf, NamesOf
  <2>4. LateOf(r)' /\ ~EndsOf(r) /\ ~MintedBy(req[q])
    BY <1>1, <1>4, <1>5, <1>6 DEF LateOf, EndsOf, MintedBy
  <2> QED
    BY <1>2, <1>4, <1>7, <1>8, <2>1, <2>2, <2>3, <2>4, Kept
<1>11. Tokens'
  BY <1>2, <1>7, <1>8, <1>9 DEF LifeInv, Tokens, TypeInv, TypeOK
<1>12. Listed'
  <2>1. \A s \in Request, k \in Keys : Adding(s, k) => Adding(s, k)'
    BY <1>1, <1>4 DEF Adding
  <2>2. Listed /\ index \in [Keys -> SUBSET Request]
    BY DEF LifeInv, TypeInv, TypeOK
  <2> QED
    BY <1>2, <1>8, <2>1, <2>2 DEF Listed
<1>13. Carried'
  <2> SUFFICES ASSUME NEW s \in Request, Alive(s), s \notin raced
               PROVE  Pointing(s)' \/ \E t \in Request : Leads(t, s)'
    BY <1>2, <1>8 DEF Carried
  <2>1. UnresolvedBy(R) /\ ~UnresolvedBy(r)
    BY <1>1, <1>5, <1>6 DEF UnresolvedBy
  <2>2. Pointing(s) => Pointing(s)'
    BY <1>1, <1>4 DEF Pointing
  <2>3. ASSUME NEW t \in Request, Leads(t, s) PROVE Leads(t, s)'
    <3>1. t # R.held
      BY <1>4, <2>1, <2>3 DEF Leads
    <3>2. \A p \in Request : UnresolvedBy(req'[p]) => req'[p].held # t
      BY <1>4, <2>1, <2>3 DEF Leads
    <3> QED
      BY <1>2, <1>7, <2>3, <3>1, <3>2 DEF Leads
  <2> QED
    BY <2>2, <2>3 DEF LifeInv, Carried
<1> QED
  BY <1>10, <1>11, <1>12, <1>13 DEF LifeInv

\* deleteSession drops the id from the sets (session.go:549-553): the session is
\* over by then, or a refresh had it in hand.
LEMMA EndRemoveLife ==
    ASSUME TypeInv, TypeInv', LifeInv, NEW q \in Request, EndRemove(q)
    PROVE  LifeInv'
<1> PICK R : R = req[q]
  OBVIOUS
<1> PICK r : r = IF R.n < Len(Sets) THEN [R EXCEPT !.n = @ + 1] ELSE [R EXCEPT !.pc = EndedAt(R)]
  OBVIOUS
<1> DEFINE k == Sets[R.n]
<1>1. R \in RequestType /\ ShapeOf(R) /\ OwnOf(q, R) /\ LateOf(R) /\ R.pc = "endRemove"
      /\ (R.sid \in raced \/ Over(R.sid))
  BY Mine DEF EndRemove, EndsOf
<1>2. Goto(q, r) /\ UNCHANGED <<now, record, pointer, rotated, indexUntil, spentAt, raced>>
  BY DEF EndRemove
<1>3. req \in [Request -> RequestType] /\ req' \in [Request -> RequestType]
  BY DEF TypeInv, TypeOK
<1>4. req'[q] = r /\ req[q] = R /\ r \in RequestType /\ \A p \in Request : p # q => req'[p] = req[p]
  BY <1>2, <1>3 DEF Goto
<1>5. /\ r.sid = R.sid /\ r.stage = R.stage /\ r.held = R.held
      /\ r.todo = R.todo /\ r.sel = R.sel /\ r.late = R.late /\ r.cred = R.cred
      /\ r.pc \in {"endRemove", "refused", "done", "next"}
      /\ r.pc = "done" => R.stage \in {"revoke", "end"}
      /\ r.pc = "next" => R.stage = "endAll"
  <2>1. R.stage \in {"resolve", "rotate", "revoke", "end", "endAll"}
    BY <1>1 DEF ShapeOf
  <2> QED
    BY <1>1, <2>1, Tables DEF RequestType
<1>6. /\ R.sid \in Request /\ R.n \in 1 .. 3 /\ Recorded(R.sid)
      /\ R.stage \in {"resolve", "rotate", "revoke", "end", "endAll"}
      /\ \A s \in R.todo \cup R.sel : Recorded(s)
      /\ R.stage \in {"resolve", "rotate", "revoke"} => Minted(R.held)
  BY <1>1 DEF RequestType, ShapeOf, OwnOf, NamesOf
<1>7. /\ k \in Keys
      /\ \A j \in Keys : index'[j] \subseteq index[j] /\ \A s \in index[j] : s # R.sid => s \in index'[j]
  <2>1. k \in Keys
    BY <1>6, SetsKeys
  <2>2. index \in [Keys -> SUBSET Request]
    BY DEF TypeInv, TypeOK
  <2>3. index' = [index EXCEPT ![k] = @ \ {R.sid}]
    BY DEF EndRemove
  <2> HIDE DEF k
  <2> QED
    BY <2>1, <2>2, <2>3
<1> HIDE DEF k
<1>8. \A s \in Request : (Alive(s)' <=> Alive(s)) /\ (Recorded(s)' <=> Recorded(s))
  BY <1>2 DEF Alive, Held, Recorded
<1>9. \A t \in Request : Minted(t) => Minted(t)' /\ req'[t] = req[t]
  BY <1>1, <1>4 DEF Minted, MintedBy
<1>10. Owned' /\ Late' /\ Ended'
  <2>1. \A s \in Request : Over(s) => Over(s)'
    <3>1. \A s \in Request : InHand(s)' => InHand(s)
      BY <1>4, <1>5 DEF InHand
    <3> QED
      BY <1>8, <3>1 DEF Over
  <2>2. \A t \in Request : Past(t) => Past(t)'
    <3>1. \A p \in Request : req'[p] = req[p] \/ req'[p].pc \notin {"pointer", "record", "spend", "setRotated"}
      BY <1>4, <1>5
    <3> QED
      BY <1>2, <3>1 DEF Past
  <2>3. OwnOf(q, r)'
    <3>1. /\ Recorded(R.sid)' /\ \A s \in R.todo \cup R.sel : Recorded(s)'
          /\ R.stage \in {"resolve", "rotate", "revoke"} => Minted(R.held)'
      BY <1>1, <1>6, <1>8, <1>9 DEF RequestType
    <3> QED
      BY <1>5, <1>6, <3>1 DEF OwnOf, NamesOf
  <2>4. LateOf(r)'
    <3>1. R.late => Past(R.held)' /\ R.stage = "resolve"
      BY <1>1, <2>2 DEF LateOf, RequestType
    <3> QED
      BY <1>5, <3>1 DEF LateOf
  <2>5. r.sid \in raced' \/ Over(r.sid)'
    BY <1>1, <1>2, <1>5, <1>6, <2>1
  <2>6. ~MintedBy(req[q])
    BY <1>1, <1>4 DEF MintedBy
  <2> QED
    BY <1>2, <1>4, <1>8, <2>1, <2>2, <2>3, <2>4, <2>5, <2>6, Kept
<1>11. Tokens'
  <2>1. \A t \in Request : pointer[t].sid \in Request
    BY DEF TypeInv, TypeOK
  <2> QED
    BY <1>2, <1>8, <1>9, <2>1 DEF LifeInv, Tokens
<1>12. Listed'
  <2>1. \A s \in Request, j \in Keys : Adding(s, j) => Adding(s, j)'
    BY <1>1, <1>4 DEF Adding
  <2>2. Listed /\ index \in [Keys -> SUBSET Request]
    BY DEF LifeInv, TypeInv, TypeOK
  <2>3. \A s \in Request : Alive(s) /\ s \notin raced => s # R.sid
    BY <1>1 DEF Over
  <2>4. \A j \in Keys : indexUntil'[j] <= now' + Lifetime /\ \A s \in index'[j] : Recorded(s)'
    BY <1>2, <1>7, <1>8, <2>2 DEF Listed
  <2> QED
    BY <1>2, <1>7, <1>8, <2>1, <2>2, <2>3, <2>4 DEF Listed
<1>13. Carried'
  <2> SUFFICES ASSUME NEW s \in Request, Alive(s), s \notin raced
               PROVE  Pointing(s)' \/ \E t \in Request : Leads(t, s)'
    BY <1>2, <1>8 DEF Carried
  <2>1. ~UnresolvedBy(r)
    BY <1>5, <1>6 DEF UnresolvedBy
  <2>2. Pointing(s) => Pointing(s)'
    BY <1>1, <1>4 DEF Pointing
  <2>3. ASSUME NEW t \in Request, Leads(t, s) PROVE Leads(t, s)'
    <3>1. \A p \in Request : UnresolvedBy(req'[p]) => req'[p].held # t
      BY <1>4, <2>1, <2>3 DEF Leads
    <3> QED
      BY <1>2, <2>3, <3>1 DEF Leads
  <2> QED
    BY <2>2, <2>3 DEF LifeInv, Carried
<1> QED
  BY <1>10, <1>11, <1>12, <1>13 DEF LifeInv

\* collect's self-repair drops an id whose record it found gone
\* (session.go:614-622): a live session is never the one it drops.
LEMMA RepairLife ==
    ASSUME TypeInv, TypeInv', LifeInv, NEW q \in Request, Repair(q)
    PROVE  LifeInv'
<1> PICK R : R = req[q]
  OBVIOUS
<1> PICK r : r = [R EXCEPT !.pc = "scan"]
  OBVIOUS
<1> DEFINE k == R.key
<1>1. R \in RequestType /\ ShapeOf(R) /\ OwnOf(q, R) /\ LateOf(R) /\ R.pc = "repair"
      /\ (R.sid \in raced \/ Over(R.sid))
  BY Mine DEF Repair, EndsOf
<1>2. Goto(q, r) /\ UNCHANGED <<now, record, pointer, rotated, indexUntil, spentAt, raced>>
  BY DEF Repair
<1>3. req \in [Request -> RequestType] /\ req' \in [Request -> RequestType]
  BY DEF TypeInv, TypeOK
<1>4. req'[q] = r /\ req[q] = R /\ r \in RequestType /\ \A p \in Request : p # q => req'[p] = req[p]
  BY <1>2, <1>3 DEF Goto
<1>5. /\ r.sid = R.sid /\ r.stage = R.stage /\ r.held = R.held
      /\ r.todo = R.todo /\ r.sel = R.sel /\ r.late = R.late /\ r.cred = R.cred
      /\ r.pc = "scan"
  BY <1>1 DEF RequestType
<1>6. /\ R.sid \in Request /\ R.key \in Keys /\ Recorded(R.sid) /\ R.stage \in {"list", "endAll"}
      /\ \A s \in R.todo \cup R.sel : Recorded(s)
  BY <1>1 DEF RequestType, ShapeOf, OwnOf, NamesOf
<1>7. /\ k \in Keys
      /\ \A j \in Keys : index'[j] \subseteq index[j] /\ \A s \in index[j] : s # R.sid => s \in index'[j]
  <2>1. k \in Keys
    BY <1>6
  <2>2. index \in [Keys -> SUBSET Request]
    BY DEF TypeInv, TypeOK
  <2>3. index' = [index EXCEPT ![k] = @ \ {R.sid}]
    BY DEF Repair
  <2> HIDE DEF k
  <2> QED
    BY <2>1, <2>2, <2>3
<1> HIDE DEF k
<1>8. \A s \in Request : (Alive(s)' <=> Alive(s)) /\ (Recorded(s)' <=> Recorded(s))
  BY <1>2 DEF Alive, Held, Recorded
<1>9. \A t \in Request : Minted(t) => Minted(t)' /\ req'[t] = req[t]
  BY <1>1, <1>4 DEF Minted, MintedBy
<1>10. Owned' /\ Late' /\ Ended'
  <2>1. \A s \in Request : Over(s) => Over(s)'
    <3>1. \A s \in Request : InHand(s)' => InHand(s)
      BY <1>4, <1>5 DEF InHand
    <3> QED
      BY <1>8, <3>1 DEF Over
  <2>2. \A t \in Request : Past(t) => Past(t)'
    <3>1. \A p \in Request : req'[p] = req[p] \/ req'[p].pc \notin {"pointer", "record", "spend", "setRotated"}
      BY <1>4, <1>5
    <3> QED
      BY <1>2, <3>1 DEF Past
  <2>3. OwnOf(q, r)'
    <3>1. /\ Recorded(R.sid)' /\ \A s \in R.todo \cup R.sel : Recorded(s)'
          /\ R.stage \in {"resolve", "rotate", "revoke"} => Minted(R.held)'
      BY <1>1, <1>6, <1>8, <1>9 DEF RequestType
    <3> QED
      BY <1>5, <1>6, <3>1 DEF OwnOf, NamesOf
  <2>4. LateOf(r)'
    BY <1>1, <1>5, <1>6 DEF LateOf
  <2>5. r.sid \in raced' \/ Over(r.sid)'
    BY <1>1, <1>2, <1>5, <1>6, <2>1
  <2>6. ~MintedBy(req[q])
    BY <1>1, <1>4 DEF MintedBy
  <2> QED
    BY <1>2, <1>4, <1>8, <2>1, <2>2, <2>3, <2>4, <2>5, <2>6, Kept
<1>11. Tokens'
  <2>1. \A t \in Request : pointer[t].sid \in Request
    BY DEF TypeInv, TypeOK
  <2> QED
    BY <1>2, <1>8, <1>9, <2>1 DEF LifeInv, Tokens
<1>12. Listed'
  <2>1. \A s \in Request, j \in Keys : Adding(s, j) => Adding(s, j)'
    BY <1>1, <1>4 DEF Adding
  <2>2. Listed /\ index \in [Keys -> SUBSET Request]
    BY DEF LifeInv, TypeInv, TypeOK
  <2>3. \A s \in Request : Alive(s) /\ s \notin raced => s # R.sid
    BY <1>1 DEF Over
  <2>4. \A j \in Keys : indexUntil'[j] <= now' + Lifetime /\ \A s \in index'[j] : Recorded(s)'
    BY <1>2, <1>7, <1>8, <2>2 DEF Listed
  <2> QED
    BY <1>2, <1>7, <1>8, <2>1, <2>2, <2>3, <2>4 DEF Listed
<1>13. Carried'
  <2> SUFFICES ASSUME NEW s \in Request, Alive(s), s \notin raced
               PROVE  Pointing(s)' \/ \E t \in Request : Leads(t, s)'
    BY <1>2, <1>8 DEF Carried
  <2>1. ~UnresolvedBy(r)
    BY <1>5, <1>6 DEF UnresolvedBy
  <2>2. Pointing(s) => Pointing(s)'
    BY <1>1, <1>4 DEF Pointing
  <2>3. ASSUME NEW t \in Request, Leads(t, s) PROVE Leads(t, s)'
    <3>1. \A p \in Request : UnresolvedBy(req'[p]) => req'[p].held # t
      BY <1>4, <2>1, <2>3 DEF Leads
    <3> QED
      BY <1>2, <2>3, <3>1 DEF Leads
  <2> QED
    BY <2>2, <2>3 DEF LifeInv, Carried
<1> QED
  BY <1>10, <1>11, <1>12, <1>13 DEF LifeInv

\* deleteSession deletes the record (session.go:545-547): the session is over,
\* unless a refresh has it in hand and will write it back.
LEMMA EndDeleteLife ==
    ASSUME TypeInv, TypeInv', LifeInv, NEW q \in Request, EndDelete(q)
    PROVE  LifeInv'
<1> PICK R : R = req[q]
  OBVIOUS
<1> PICK r : r = [R EXCEPT !.n = 1, !.pc = "endRemove"]
  OBVIOUS
<1>1. R \in RequestType /\ ShapeOf(R) /\ OwnOf(q, R) /\ LateOf(R) /\ R.pc = "endDelete"
  BY Mine DEF EndDelete
<1>2. Goto(q, r) /\ UNCHANGED <<now, pointer, rotated, index, indexUntil, spentAt>>
  BY DEF EndDelete
<1>3. req \in [Request -> RequestType] /\ req' \in [Request -> RequestType]
  BY DEF TypeInv, TypeOK
<1>4. req'[q] = r /\ req[q] = R /\ r \in RequestType /\ \A p \in Request : p # q => req'[p] = req[p]
  BY <1>2, <1>3 DEF Goto
<1>5. /\ r.sid = R.sid /\ r.pc = "endRemove" /\ r.stage = R.stage /\ r.held = R.held
      /\ r.todo = R.todo /\ r.sel = R.sel /\ r.late = R.late /\ r.cred = R.cred
  BY <1>1 DEF RequestType
<1>6. /\ R.sid \in Request /\ Recorded(R.sid)
      /\ R.stage \in {"resolve", "rotate", "revoke", "end", "endAll"}
      /\ \A s \in R.todo \cup R.sel : Recorded(s)
      /\ R.stage \in {"resolve", "rotate", "revoke"} => Minted(R.held)
  BY <1>1 DEF RequestType, ShapeOf, OwnOf, NamesOf
<1>7. /\ \A s \in Request : s # R.sid => record'[s] = record[s]
      /\ record'[R.sid].until = 0 /\ record'[R.sid].expires = record[R.sid].expires
      /\ now \in Nat
  BY <1>6 DEF EndDelete, TypeInv, TypeOK
<1>8. /\ \A s \in Request : s # R.sid => (Alive(s)' <=> Alive(s))
      /\ \A s \in Request : Recorded(s)' <=> Recorded(s)
      /\ ~Alive(R.sid)'
  BY <1>2, <1>7 DEF Alive, Held, Recorded
<1>9. \A t \in Request : Minted(t) => Minted(t)' /\ req'[t] = req[t]
  BY <1>1, <1>4 DEF Minted, MintedBy
<1>10. raced \subseteq raced' /\ (R.sid \in raced' \/ ~InHand(R.sid))
  BY <1>4 DEF EndDelete, RacedWith
<1>11. Owned' /\ Late' /\ Ended'
  <2>1. \A s \in Request : InHand(s)' => InHand(s)
    BY <1>4, <1>5 DEF InHand
  <2>2. \A s \in Request : Over(s) => Over(s)'
    BY <1>8, <2>1 DEF Over
  <2>3. \A t \in Request : Past(t) => Past(t)'
    <3>1. \A p \in Request : req'[p] = req[p] \/ req'[p].pc = "endRemove"
      BY <1>4, <1>5
    <3> QED
      BY <1>2, <3>1 DEF Past
  <2>4. OwnOf(q, r)'
    <3>1. /\ Recorded(R.sid)' /\ \A s \in R.todo \cup R.sel : Recorded(s)'
          /\ R.stage \in {"resolve", "rotate", "revoke"} => Minted(R.held)'
      BY <1>1, <1>6, <1>8, <1>9 DEF RequestType
    <3> QED
      BY <1>5, <1>6, <3>1 DEF OwnOf, NamesOf
  <2>5. LateOf(r)'
    <3>1. R.late => Past(R.held)' /\ R.stage = "resolve"
      BY <1>1, <2>3 DEF LateOf, RequestType
    <3> QED
      BY <1>5, <3>1 DEF LateOf
  <2>6. r.sid \in raced' \/ Over(r.sid)'
    BY <1>5, <1>6, <1>8, <1>10, <2>1 DEF Over
  <2>7. ~MintedBy(req[q])
    BY <1>1, <1>4 DEF MintedBy
  <2> QED
    BY <1>2, <1>4, <1>8, <1>10, <2>2, <2>3, <2>4, <2>5, <2>6, <2>7, Kept
<1>12. Tokens'
  <2>1. \A t \in Request : pointer[t].sid \in Request
    BY DEF TypeInv, TypeOK
  <2> QED
    BY <1>2, <1>8, <1>9, <2>1 DEF LifeInv, Tokens
<1>13. Listed'
  <2>1. \A s \in Request, j \in Keys : Adding(s, j) => Adding(s, j)'
    BY <1>1, <1>4 DEF Adding
  <2>2. Listed /\ index \in [Keys -> SUBSET Request] /\ Lifetime \in Nat
    BY SessionsAssumption DEF LifeInv, TypeInv, TypeOK
  <2>3. \A s \in Request : record'[s].until <= now' + Lifetime
    BY <1>2, <1>7, <2>2 DEF Listed
  <2>4. \A j \in Keys : indexUntil'[j] <= now' + Lifetime /\ \A s \in index'[j] : Recorded(s)'
    BY <1>2, <1>8, <2>2 DEF Listed
  <2>5. ASSUME NEW s \in Request, NEW j \in Keys, Alive(s)', s \notin raced'
        PROVE  Adding(s, j)' \/ (s \in index'[j] /\ record'[s].until <= indexUntil'[j])
    BY <1>2, <1>7, <1>8, <1>10, <2>1, <2>2, <2>5 DEF Listed
  <2> QED
    BY <2>3, <2>4, <2>5 DEF Listed
<1>14. Carried'
  <2> SUFFICES ASSUME NEW s \in Request, Alive(s)', s \notin raced'
               PROVE  Pointing(s)' \/ \E t \in Request : Leads(t, s)'
    BY DEF Carried
  <2>1. s # R.sid /\ Alive(s) /\ s \notin raced
    BY <1>8, <1>10
  <2>2. ~UnresolvedBy(r)
    BY <1>5 DEF UnresolvedBy
  <2>3. Pointing(s) => Pointing(s)'
    BY <1>4, <2>1 DEF Pointing
  <2>4. ASSUME NEW t \in Request, Leads(t, s) PROVE Leads(t, s)'
    <3>1. \A p \in Request : UnresolvedBy(req'[p]) => req'[p].held # t
      BY <1>4, <2>2, <2>4 DEF Leads
    <3> QED
      BY <1>2, <1>7, <2>1, <2>4, <3>1 DEF Leads
  <2> QED
    BY <2>1, <2>3, <2>4 DEF LifeInv, Carried
<1> QED
  BY <1>11, <1>12, <1>13, <1>14 DEF LifeInv

----------------------------------------------------------------------------
(* The policy, the clock, and all together.                                *)

\* A step that leaves the requests and the sessions as they are.
LEMMA StillLife ==
    ASSUME LifeInv, UNCHANGED <<now, store, req, spentAt, raced>>
    PROVE  LifeInv'
<1>1. /\ now' = now /\ record' = record /\ pointer' = pointer /\ rotated' = rotated
      /\ index' = index /\ indexUntil' = indexUntil /\ req' = req /\ spentAt' = spentAt
      /\ raced' = raced
  BY DEF store
<1>2. Owned' /\ Tokens'
  BY <1>1 DEF LifeInv, Owned, OwnOf, Tokens, Minted, Recorded
<1>3. Late' /\ Ended'
  BY <1>1 DEF LifeInv, Late, LateOf, Past, Ended, Over, Recorded, Alive, Held, InHand
<1>4. Listed'
  BY <1>1 DEF LifeInv, Listed, Adding, Recorded, Alive, Held
<1>5. Carried'
  BY <1>1 DEF LifeInv, Carried, Pointing, Leads, Alive, Held
<1> QED
  BY <1>2, <1>3, <1>4, <1>5 DEF LifeInv

\* Time passes: what was over stays over, and no set and no pointer comes to
\* its end before the record does.
LEMMA TickLife ==
    ASSUME TypeInv, LifeInv, Tick
    PROVE  LifeInv'
<1>1. /\ now' = now + 1 /\ record' = record /\ pointer' = pointer /\ rotated' = rotated
      /\ index' = index /\ indexUntil' = indexUntil /\ req' = req /\ spentAt' = spentAt
      /\ raced' = raced
  BY DEF Tick, store
<1>2. Owned' /\ Tokens'
  BY <1>1 DEF LifeInv, Owned, OwnOf, Tokens, Minted, Recorded
<1>3. /\ now \in Nat /\ Lifetime \in Nat /\ Grace \in Nat
      /\ \A s \in Request : record[s].until \in Nat /\ record[s].expires \in Nat /\ spentAt[s] \in Nat
      /\ \A k \in Keys : indexUntil[k] \in Nat
  BY SessionsAssumption DEF TypeInv, TypeOK
<1>4. \A s \in Request : Alive(s)' => Alive(s)
  BY <1>1, <1>3 DEF Alive, Held
<1>5. Late'
  <2>1. \A t \in Request : Past(t) => Past(t)'
    BY <1>1, <1>3 DEF Past
  <2>2. \A q \in Request : req[q].held \in Request
    BY DEF TypeInv, TypeOK, RequestType
  <2> QED
    BY <1>1, <2>1, <2>2 DEF LifeInv, Late, LateOf
<1>6. Ended'
  <2>1. \A s \in Request : Over(s) => Over(s)'
    BY <1>1, <1>4 DEF Over, Recorded, InHand
  <2>2. \A q \in Request : req[q].sid \in Request
    BY DEF TypeInv, TypeOK, RequestType
  <2> QED
    BY <1>1, <2>1, <2>2 DEF LifeInv, Ended
<1>7. Listed'
  <2>1. \A s \in Request, k \in Keys : Adding(s, k) => Adding(s, k)'
    BY <1>1 DEF Adding
  <2>2. Listed
    BY DEF LifeInv
  <2>3. \A s \in Request : record'[s].until <= now' + Lifetime
    BY <1>1, <1>3, <2>2 DEF Listed
  <2>4. \A k \in Keys : indexUntil'[k] <= now' + Lifetime /\ \A s \in index'[k] : Recorded(s)'
    BY <1>1, <1>3, <2>2 DEF Listed, Recorded
  <2> QED
    BY <1>1, <1>4, <2>1, <2>2, <2>3, <2>4 DEF Listed
<1>8. Carried'
  <2>1. \A s \in Request : (Pointing(s) => Pointing(s)') /\ \A t \in Request : Leads(t, s) => Leads(t, s)'
    BY <1>1 DEF Pointing, Leads
  <2> QED
    BY <1>1, <1>4, <2>1 DEF LifeInv, Carried
<1> QED
  BY <1>2, <1>5, <1>6, <1>7, <1>8 DEF LifeInv

\* The empty store and idle requests.
LEMMA InitLife == Init => LifeInv
<1> SUFFICES ASSUME Init PROVE LifeInv
  OBVIOUS
<1>1. \A q \in Request :
         /\ req[q] = Idle(q) /\ req[q].stage = "none" /\ req[q].pc = "new" /\ req[q].n = 1
         /\ req[q].todo = {} /\ req[q].sel = {} /\ ~req[q].late
  BY DEF Init, Idle
<1>2. /\ \A s \in Request : record[s].until = 0 /\ record[s].expires = 0
      /\ \A t \in Request : pointer[t].until = 0 /\ rotated[t].until = 0 /\ spentAt[t] = 0
      /\ \A k \in Keys : index[k] = {} /\ indexUntil[k] = 0
      /\ now = 1
  BY DEF Init
<1>3. \A s \in Request : ~Recorded(s) /\ ~Alive(s)
  BY <1>2 DEF Recorded, Alive, Held
<1>4. Owned
  BY <1>1, <1>3 DEF Owned, OwnOf, NamesOf
<1>5. Tokens
  BY <1>2, SessionsAssumption DEF Tokens
<1>6. Late /\ Ended
  BY <1>1 DEF Late, LateOf, Ended, EndsOf
<1>7. Listed /\ Carried
  BY <1>2, <1>3, SessionsAssumption DEF Listed, Carried
<1> QED
  BY <1>4, <1>5, <1>6, <1>7 DEF LifeInv

\* Every step of every request, of the policy and of the clock keeps it.
LEMMA StepLife == TypeInv /\ TypeInv' /\ LifeInv /\ [Next]_vars => LifeInv'
<1> SUFFICES ASSUME TypeInv, TypeInv', LifeInv, [Next]_vars PROVE LifeInv'
  OBVIOUS
<1>1. ASSUME NEW q \in Request, RequestStep(q) PROVE LifeInv'
  BY <1>1, ArriveLife, GetPointerLife, GetRecordLife, GetRotatedLife, GateLife, LimitReadLife,
     IssueLife, SpendLife, SetRotatedLife, PutLife, SetPointerLife, AddToSetLife, NameSessionLife,
     RevokePointerLife, RevokeDeleteLife, EndReadLife, EndDeleteLife, EndRemoveLife, WalkLife,
     RepairLife, FailLife DEF RequestStep
<1>2. CASE SetLimit \/ UNCHANGED vars
  BY <1>2, StillLife DEF SetLimit, vars, store
<1> QED
  BY <1>1, <1>2, TickLife DEF Next

\* The inductive invariant, for the theorems below.
LEMMA LifeHolds == Spec => [](TypeInv /\ LifeInv)
<1>1. Spec => []TypeInv
  BY InitType, StepType, PTL DEF Spec
<1> QED
  BY <1>1, InitLife, StepLife, PTL DEF Spec

----------------------------------------------------------------------------
\* A revocation that was answered has ended its session for good, at every
\* replica and however many refreshes follow, unless a refresh had already read
\* the session when it was ended (session.go:524-556, storage.go:1359-1386).
THEOREM RevocationHolding == Spec => []RevocationHolds
<1>1. LifeInv => RevocationHolds
  BY DEF LifeInv, Ended, EndsOf, Over, RevocationHolds
<1> QED
  BY <1>1, LifeHolds, PTL

\* Outside the grace window a spent token buys nothing, at whichever replica
\* and in whichever order it is presented (session.go:371-400).
THEOREM SpentStays == Spec => []SpentStaysSpent
<1>1. LifeInv => SpentStaysSpent
  BY DEF LifeInv, Late, LateOf, SpentStaysSpent
<1> QED
  BY <1>1, LifeHolds, PTL

\* A live session nobody is writing is in each of its three sets, and no set
\* expires before the record: a listing, a revocation by query and a sweep all
\* find it (session.go:343-350, :614-622).
THEOREM AlwaysFindable == Spec => []Findable
<1>1. TypeInv /\ LifeInv => Findable
  <2> SUFFICES ASSUME TypeInv, LifeInv, NEW s \in Request, Alive(s), Settled(s), NEW k \in Keys
               PROVE  s \in Members(k)
    BY DEF Findable
  <2>1. ~Adding(s, k)
    BY DEF Settled, Adding
  <2>2. s \in index[k] /\ record[s].until <= indexUntil[k]
    BY <2>1 DEF Settled, LifeInv, Listed
  <2>3. now < indexUntil[k]
    BY <2>2 DEF Alive, Held, TypeInv, TypeOK
  <2> QED
    BY <2>2, <2>3 DEF Members
<1> QED
  BY <1>1, LifeHolds, PTL

\* A live session nobody is writing has a credential some client was answered
\* with: no interleaving of refreshes, replays, revocations and expiries leaves
\* its holder without a way in (session.go:306-341).
THEOREM NeverStranded == Spec => []NotStranded
<1>1. TypeInv /\ LifeInv => NotStranded
  <2> SUFFICES ASSUME TypeInv, LifeInv, NEW s \in Request, Alive(s), Settled(s)
               PROVE  \E t \in Given : Held(pointer[t]) /\ pointer[t].sid = s
    BY DEF NotStranded
  <2>1. ~Pointing(s) /\ s \notin raced
    BY DEF Settled, Pointing
  <2>2. PICK t \in Request : Leads(t, s)
    BY <2>1 DEF LifeInv, Carried
  <2>3. Held(pointer[t]) /\ pointer[t].until # 0 /\ pointer[t].sid = s
    BY <2>2 DEF Leads, Alive, Held, TypeInv, TypeOK
  <2>4. MintedBy(req[t]) /\ req[t].sid = s /\ req[t].cred = t
    BY <2>3 DEF LifeInv, Tokens, Minted
  <2>5. req[t].stage \in {"open", "rotate"} /\ req[t].pc = "done"
    BY <2>4 DEF MintedBy, Settled
  <2>6. t \in Given
    BY <2>4, <2>5 DEF Given
  <2> QED
    BY <2>3, <2>6
<1> QED
  BY <1>1, LifeHolds, PTL
----------------------------------------------------------------------------
(* Replays.  The successor a spent token is known by belongs to a refresh  *)
(* that has spent it, and once that refresh has written its pointer the    *)
(* pointer outlives the grace, unless somebody used the successor up.      *)

SuccessorOf(u) ==
    /\ rotated[u].until <= now + Grace
    /\ rotated[u].until # 0 =>
          LET t == rotated[u].succ IN
          /\ req[t].stage = "rotate"
          /\ req[t].pc \in {"put", "setPointer", "add", "name", "done", "failed",
                            "endDelete", "endRemove", "refused"}
          /\ req[t].pc \in {"add", "name", "done"} =>
                pointer[t].until >= rotated[u].until \/ Used(t)

Succeeded ==
    /\ \A q \in Request : req[q].pc = "new" => req[q].stage = "none"
    /\ Grace <= Lifetime => \A u \in Request : SuccessorOf(u)

\* A request that has arrived does not arrive again.
LEMMA NotNew ==
    ASSUME TypeInv, NEW q \in Request, RequestStep(q)
    PROVE  req'[q].pc # "new" /\ \A p \in Request : p # q => req'[p] = req[p]
<1> DEFINE R == req[q]
<1>1. R \in RequestType /\ ShapeOf(R) /\ req \in [Request -> RequestType]
  BY DEF TypeInv, TypeOK, Shape
<1>2. \A r : Goto(q, r) /\ r.pc # "new" =>
         req'[q].pc # "new" /\ \A p \in Request : p # q => req'[p] = req[p]
  BY <1>1 DEF Goto
<1>3. /\ R.pc \in {"pointer", "record", "rotated"} =>
            MissedAt(R) # "new" /\ UnresolvedAt(R) # "new" /\ FoundAt(R) # "new"
      /\ R.pc \in {"endRead", "endRemove"} => EndedAt(R) # "new"
  BY <1>1, Tables DEF ShapeOf, MissedAt
<1>4. CASE StartOpen(q) \/ StartRefresh(q) \/ StartRevoke(q) \/ StartEnd(q) \/ StartList(q)
  BY <1>2, <1>4 DEF StartOpen, StartRefresh, StartRevoke, StartEnd, StartList, Arrive, Idle
<1>5. CASE GetPointer(q) \/ GetRecord(q) \/ GetRotated(q)
  BY <1>1, <1>2, <1>3, <1>5 DEF GetPointer, GetRecord, GetRotated, RequestType
<1>6. CASE Gate(q) \/ LimitRead(q) \/ Spend(q) \/ Put(q) \/ SetPointer(q) \/ NameSession(q)
  BY <1>1, <1>2, <1>6 DEF Gate, LimitRead, Spend, Put, SetPointer, NameSession, RequestType
<1>7. CASE AddToSet(q)
  BY <1>1, <1>2, <1>7 DEF AddToSet, RequestType
<1>8. CASE RevokePointer(q) \/ RevokeDelete(q) \/ EndRead(q) \/ EndDelete(q)
  BY <1>1, <1>2, <1>3, <1>8 DEF RevokePointer, RevokeDelete, EndRead, EndDelete, RequestType
<1>9. CASE EndRemove(q)
  BY <1>1, <1>2, <1>3, <1>9 DEF EndRemove, RequestType
<1>10. CASE ReadMembers(q) \/ Scan(q) \/ Repair(q) \/ ScanDone(q) \/ EndNext(q) \/ Fail(q)
  BY <1>1, <1>2, <1>10 DEF ReadMembers, Scan, Repair, ScanDone, EndNext, Fail, RequestType
<1>11. CASE Issue(q)
  BY <1>1, <1>2, <1>11 DEF Issue, RequestType
<1>12. CASE SetRotated(q)
  BY <1>1, <1>2, <1>12 DEF SetRotated, RequestType
<1> QED
  BY <1>4, <1>5, <1>6, <1>7, <1>8, <1>9, <1>10, <1>11, <1>12 DEF RequestStep

\* A rotation or a revocation past its decisive write only goes on.
LEMMA Onward ==
    ASSUME TypeInv, Succeeded, NEW q \in Request, RequestStep(q),
           req[q].stage \in {"rotate", "revoke"},
           req[q].pc \notin {"pointer", "record", "rotated", "spend", "revPointer", "revDelete"}
    PROVE  /\ req'[q].stage = req[q].stage /\ req'[q].held = req[q].held
           /\ req'[q].pc \in {"put", "setPointer", "add", "name", "done", "failed", "endDelete",
                               "endRemove", "refused"}
           /\ req[q].stage = "rotate" /\ req'[q].pc \in {"add", "name", "done"} =>
                 SetPointer(q) \/ req[q].pc \in {"add", "name"}
<1> DEFINE R == req[q]
<1>1. R \in RequestType /\ ShapeOf(R) /\ req \in [Request -> RequestType] /\ R.pc # "new"
  BY DEF TypeInv, TypeOK, Shape, Succeeded
<1>2. SetRotated(q) \/ Put(q) \/ SetPointer(q) \/ AddToSet(q) \/ NameSession(q)
      \/ EndRead(q) \/ EndDelete(q) \/ EndRemove(q) \/ Fail(q)
  BY <1>1 DEF RequestStep, ShapeOf, StartOpen, StartRefresh, StartRevoke, StartEnd, StartList,
        Arrive, GetPointer, GetRecord, GetRotated, Gate, LimitRead, Issue, Spend, RevokePointer,
        RevokeDelete, ReadMembers, Scan, Repair, ScanDone, EndNext
<1>3. \A r : Goto(q, r) => req'[q] = r
  BY <1>1 DEF Goto
<1>4. CASE SetRotated(q)
  BY ZenonT(30), <1>1, <1>3, <1>4 DEF SetRotated, ShapeOf, RequestType
<1>5. CASE Put(q) \/ SetPointer(q) \/ NameSession(q) \/ Fail(q)
  BY <1>1, <1>3, <1>5 DEF Put, SetPointer, NameSession, Fail, Finished, RequestType
<1>6. CASE AddToSet(q)
  BY <1>1, <1>3, <1>6 DEF AddToSet, RequestType
<1>7. CASE EndRead(q)
  <2>1. R.stage = "revoke" /\ EndedAt(R) = "done"
    BY <1>1, <1>7, Tables DEF EndRead, ShapeOf
  <2> QED
    BY <1>1, <1>3, <1>7, <2>1 DEF EndRead, RequestType
<1>8. CASE EndDelete(q)
  BY <1>1, <1>3, <1>8 DEF EndDelete, RequestType
<1>9. CASE EndRemove(q)
  <2>1. /\ R.stage = "revoke" => EndedAt(R) = "done"
        /\ R.stage = "rotate" => EndedAt(R) = "refused"
    BY Tables
  <2> QED
    BY <1>1, <1>3, <1>9, <2>1 DEF EndRemove, RequestType
<1> QED
  BY <1>2, <1>4, <1>5, <1>6, <1>7, <1>8, <1>9

\* Only Spend, RevokeDelete and SetPointer write a token's pointer, and only
\* SetRotated what a token became.
LEMMA PointerWrites ==
    ASSUME TypeInv, NEW q \in Request, RequestStep(q)
    PROVE  /\ now' = now
           /\ ~Spend(q) /\ ~RevokeDelete(q) /\ ~SetPointer(q) => pointer' = pointer
           /\ ~SetRotated(q) => rotated' = rotated
BY DEF RequestStep, StartOpen, StartRefresh, StartRevoke, StartEnd, StartList, Arrive,
      GetPointer, GetRecord, GetRotated, Gate, LimitRead, Issue, Spend, SetRotated, Put,
      SetPointer, AddToSet, NameSession, RevokePointer, RevokeDelete, EndRead, EndDelete,
      EndRemove, ReadMembers, Scan, Repair, ScanDone, EndNext, Fail, store

\* Every step keeps what is known of successors.
LEMMA StepSucceeded == TypeInv /\ TypeInv' /\ Succeeded /\ [Next]_vars => Succeeded'
<1> SUFFICES ASSUME TypeInv, TypeInv', Succeeded, [Next]_vars PROVE Succeeded'
  OBVIOUS
<1>0. /\ now \in Nat /\ Grace \in Nat /\ Lifetime \in Nat
      /\ \A t \in Request : rotated[t].until \in Nat /\ rotated[t].succ \in Request
                            /\ pointer[t].until \in Nat
  BY SessionsAssumption DEF TypeInv, TypeOK
<1>1. CASE /\ UNCHANGED <<pointer, rotated, req>> /\ now' \in {now, now + 1}
  <2>1. \A t \in Request : Used(t)' <=> Used(t)
    BY <1>1 DEF Used
  <2>2. ASSUME NEW u \in Request, SuccessorOf(u) PROVE SuccessorOf(u)'
    BY <1>0, <1>1, <2>1, <2>2 DEF SuccessorOf
  <2> QED
    BY <1>1, <2>2 DEF Succeeded
<1>2. ASSUME NEW q \in Request, RequestStep(q) PROVE Succeeded'
  <2>1. req'[q].pc # "new" /\ \A p \in Request : p # q => req'[p] = req[p]
    BY <1>2, NotNew
  <2>2. SUFFICES ASSUME Grace <= Lifetime, NEW u \in Request PROVE SuccessorOf(u)'
    BY <2>1 DEF Succeeded
  <2> PICK t : t = rotated[u].succ
    OBVIOUS
  <2>3. SuccessorOf(u) /\ t \in Request
    BY <1>0, <2>2 DEF Succeeded
  <2>4. now' = now
    BY <1>2, PointerWrites
  <2>5. Used(t) => Used(t)'
    <3> SUFFICES ASSUME NEW p \in Request,
                        req[p].stage \in {"rotate", "revoke"}, req[p].held = t,
                        req[p].pc \notin {"pointer", "record", "rotated", "spend", "revPointer", "revDelete"}
                 PROVE  Used(t)'
      BY DEF Used
    <3>1. CASE p = q
      <4>1. /\ req'[q].stage \in {"rotate", "revoke"} /\ req'[q].held = t
            /\ req'[q].pc \notin {"pointer", "record", "rotated", "spend", "revPointer", "revDelete"}
        BY <1>2, <3>1, Onward
      <4> QED
        BY <4>1 DEF Used
    <3>2. CASE p # q
      BY <2>1, <3>2 DEF Used
    <3> QED
      BY <3>1, <3>2
  <2>6. CASE SetRotated(q) /\ u = req[q].held
    <3>1. rotated'[u].until = now + Grace /\ rotated'[u].succ = q
      BY <2>6 DEF SetRotated, TypeInv, TypeOK
    <3>2. req'[q].stage = "rotate" /\ req'[q].pc \in {"put", "endDelete"}
      BY <2>6 DEF SetRotated, Goto, TypeInv, TypeOK, RequestType, Shape, ShapeOf
    <3> QED
      BY <1>0, <2>4, <3>1, <3>2 DEF SuccessorOf
  <2>7. CASE ~(SetRotated(q) /\ u = req[q].held)
    <3>1. rotated'[u] = rotated[u]
      <4>1. CASE ~SetRotated(q)
        BY <1>2, <4>1, PointerWrites
      <4>2. CASE SetRotated(q) /\ u # req[q].held
        <5>1. rotated' = [rotated EXCEPT ![req[q].held] = [succ |-> q, until |-> now + Grace]]
          BY <4>2 DEF SetRotated
        <5>2. rotated \in [Request -> [succ : Request, until : Nat]]
          BY DEF TypeInv, TypeOK
        <5> QED
          BY <4>2, <5>1, <5>2
      <4> QED
        BY <2>7, <4>1, <4>2
    <3>2. SUFFICES ASSUME rotated[u].until # 0
                   PROVE  /\ req'[t].stage = "rotate"
                          /\ req'[t].pc \in {"put", "setPointer", "add", "name", "done", "failed",
                                             "endDelete", "endRemove", "refused"}
                          /\ req'[t].pc \in {"add", "name", "done"} =>
                                pointer'[t].until >= rotated[u].until \/ Used(t)'
      <4>1. rotated'[u].until <= now' + Grace
        BY <2>3, <2>4, <3>1 DEF SuccessorOf
      <4> QED
        BY <3>1, <4>1 DEF SuccessorOf
    <3>3. /\ rotated[u].until <= now + Grace /\ req[t].stage = "rotate"
          /\ req[t].pc \in {"put", "setPointer", "add", "name", "done", "failed",
                             "endDelete", "endRemove", "refused"}
          /\ req[t].pc \in {"add", "name", "done"} => pointer[t].until >= rotated[u].until \/ Used(t)
      BY <2>3, <3>2 DEF SuccessorOf
    <3>4. /\ req'[t].stage = "rotate"
          /\ req'[t].pc \in {"put", "setPointer", "add", "name", "done", "failed",
                             "endDelete", "endRemove", "refused"}
          /\ req'[t].pc \in {"add", "name", "done"} =>
                (t = q /\ SetPointer(q)) \/ req[t].pc \in {"add", "name", "done"}
      <4>1. CASE t = q
        BY <1>2, <3>3, <4>1, Onward
      <4>2. CASE t # q
        BY <2>1, <2>3, <3>3, <4>2
      <4> QED
        BY <4>1, <4>2
    <3>5. ASSUME req'[t].pc \in {"add", "name", "done"}
          PROVE  pointer'[t].until >= rotated[u].until \/ Used(t)'
      <4>1. CASE t = q /\ SetPointer(q)
        <5>1. pointer'[t].until = now + Lifetime
          BY <4>1 DEF SetPointer, TypeInv, TypeOK
        <5> QED
          BY <1>0, <2>2, <3>3, <5>1
      <4>2. CASE ~(t = q /\ SetPointer(q)) /\ pointer'[t] = pointer[t]
        BY <2>5, <3>3, <3>4, <3>5, <4>2
      <4>3. CASE ~(t = q /\ SetPointer(q)) /\ pointer'[t] # pointer[t]
        <5>1. (Spend(q) \/ RevokeDelete(q)) /\ t = req[q].held
          <6>1. Spend(q) \/ RevokeDelete(q) \/ SetPointer(q)
            BY <1>2, <4>3, PointerWrites
          <6> QED
            BY <2>3, <4>3, <6>1 DEF Spend, RevokeDelete, SetPointer, TypeInv, TypeOK
        <5>2. req[q] \in RequestType /\ ShapeOf(req[q]) /\ req \in [Request -> RequestType]
          BY DEF TypeInv, TypeOK, Shape
        <5>3. /\ req'[q].stage \in {"rotate", "revoke"} /\ req'[q].held = t
              /\ req'[q].pc \in {"setRotated", "endRead"}
          BY <5>1, <5>2 DEF Spend, RevokeDelete, Goto, RequestType, ShapeOf
        <5> QED
          BY <5>3 DEF Used
      <4> QED
        BY <4>1, <4>2, <4>3
    <3> QED
      BY <3>4, <3>5
  <2> QED
    BY <2>6, <2>7
<1> QED
  BY <1>1, <1>2 DEF Next, SetLimit, Tick, vars, store

\* A replay within the grace is refused only when its session is over, its
\* successor was used up in turn, or the rotation it replays never came past its
\* last write: however many replicas serve it and whatever they interleave
\* with, a completed rotation answers it (session.go:310-312, :379-386).
THEOREM ReplaysAnswered == Spec => ReplayAnswered
<1> DEFINE Answered == \A q \in Request :
          LET t == req[q].tok
              spent == rotated[req[q].held] IN
          /\ Grace <= Lifetime
          /\ req[q].stage = "resolve" /\ t # req[q].held
          /\ req[q].pc \in {"pointer", "record"} /\ req'[q].pc = "limit"
          /\ Held(spent) /\ spent.succ = t
          => \/ ~Alive(req[t].sid)
             \/ Used(t)
             \/ req[t].pc \notin {"add", "name", "done"}
<1>1. TypeInv /\ LifeInv /\ Succeeded /\ [Next]_vars => Answered
  <2> SUFFICES ASSUME TypeInv, LifeInv, Succeeded, [Next]_vars, NEW q \in Request,
                      Grace <= Lifetime, req[q].stage = "resolve",
                      req[q].pc \in {"pointer", "record"}, req'[q].pc = "limit",
                      Held(rotated[req[q].held]), rotated[req[q].held].succ = req[q].tok,
                      req[req[q].tok].pc \in {"add", "name", "done"},
                      ~Used(req[q].tok)
               PROVE  ~Alive(req[req[q].tok].sid)
    OBVIOUS
  <2> PICK t : t = req[q].tok
    OBVIOUS
  <2> PICK u : u = req[q].held
    OBVIOUS
  <2>1. t \in Request /\ u \in Request /\ req[q] \in RequestType /\ OwnOf(q, req[q])
        /\ rotated[u].until \in Nat /\ pointer[t].until \in Nat /\ now \in Nat
    BY DEF TypeInv, TypeOK, RequestType, LifeInv, Owned
  <2>2. SuccessorOf(u)
    BY <2>1 DEF Succeeded
  <2>3. pointer[t].until >= rotated[u].until /\ rotated[u].until > now
    BY <2>1, <2>2 DEF SuccessorOf, Held
  <2>4. pointer[t].until # 0 /\ Held(pointer[t])
    BY <2>1, <2>3 DEF Held
  <2>5. req[t].sid = pointer[t].sid
    BY <2>1, <2>4 DEF LifeInv, Tokens
  <2>6. PICK p \in Request : RequestStep(p)
    BY DEF Next, SetLimit, Tick, vars
  <2>7. p = q
    BY <2>6, NotNew
  <2>8. GetPointer(q) \/ GetRecord(q) \/ Fail(q)
    BY <2>6, <2>7 DEF RequestStep, StartOpen, StartRefresh, StartRevoke, StartEnd, StartList,
          Arrive, GetPointer, GetRecord, GetRotated, Gate, LimitRead, Issue, Spend, SetRotated,
          Put, SetPointer, AddToSet, NameSession, RevokePointer, RevokeDelete, EndRead,
          EndDelete, EndRemove, ReadMembers, Scan, Repair, ScanDone, EndNext
  <2>9. \A r : Goto(q, r) => req'[q] = r
    BY DEF Goto, TypeInv, TypeOK
  <2>10. CASE Fail(q)
    BY <2>1, <2>9, <2>10 DEF Fail, RequestType
  <2>11. CASE GetPointer(q)
    BY <2>1, <2>4, <2>9, <2>11 DEF GetPointer, RequestType
  <2>12. CASE GetRecord(q)
    <3>1. pointer[t].sid = req[q].sid
      BY <2>1, <2>12 DEF GetRecord, OwnOf
    <3>2. FoundAt(req[q]) = "gate"
      BY Tables
    <3>3. ~Alive(req[q].sid)
      BY <2>1, <2>9, <2>12, <3>2 DEF GetRecord, RequestType
    <3> QED
      BY <2>5, <3>1, <3>3
  <2> QED
    BY <2>8, <2>10, <2>11, <2>12
<1>2. Init => Succeeded
  BY SessionsAssumption DEF Init, Succeeded, SuccessorOf, Idle
<1>3. Spec => [](TypeInv /\ LifeInv /\ Succeeded)
  BY <1>2, LifeHolds, StepSucceeded, PTL DEF Spec
<1>4. Spec => [][Answered]_vars
  BY <1>1, <1>3, PTL DEF Spec
<1> QED
  BY <1>4 DEF ReplayAnswered, Answered
=============================================================================
