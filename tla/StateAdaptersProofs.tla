------------------------ MODULE StateAdaptersProofs ------------------------
(***************************************************************************)
(* The adapters implement the port, for every set of callers, revisions    *)
(* and lifetimes: Spec => Contract.                                        *)
(***************************************************************************)
EXTENDS StateAdapters, TLAPS

\* What a call knows of itself, and that it has seen the record as it is now.
Caller(c) ==
    /\ since[c] <= ran[c]
    /\ Pending(c) =>
          /\ call[c].op \in Ops /\ call[c].got = NoRev
          /\ call[c].op \in Conditional => call[c].arg # NoRev
          /\ call[c].op \notin Conditional => call[c].arg = NoRev
          /\ Port!View(Cell, call[c].arg) \in saw[c]
    /\ ~Pending(c) =>
          /\ call[c].arg = NoRev /\ expect[c] = NoRev /\ saw[c] = {}
          /\ ran[c] = 0 /\ since[c] = 0 /\ old[c] = 0

\* A record that was live when the request in flight was built was seen so.
InTime(c) ==
    Pending(c) /\ rec.kind = "value" /\ rec.left + since[c] > 0
    => (IF rec.rev = call[c].arg THEN "same" ELSE "other") \in saw[c]

\* A conditional write names a record it has seen; one that failed has seen
\* why, or no record with the revision it names will come back.
Naming(c) ==
    /\ pc[c] = "swap" => expect[c] = call[c].arg /\ "same" \in saw[c]
    /\ pc[c] \in {"why", "reread"} => rec.rev # call[c].arg /\ call[c].arg # NoRev
    /\ pc[c] = "why" => "same" \in saw[c]
    /\ pc[c] = "failed" => IF old[c] > 0 THEN "other" \in saw[c]
                           ELSE "gone" \in saw[c] \/ {"other", "late"} \subseteq saw[c]

\* Create of nats writes over a marker, or over an expired record.
Taking(c) ==
    /\ pc[c] = "recreate" =>
          expect[c] # NoRev /\ (rec.rev = expect[c] => rec.kind = "marker")
    /\ pc[c] = "replace" =>
          expect[c] # NoRev /\ (rec.rev = expect[c] => rec.kind = "value" /\ rec.left <= 0)

\* How often what is stored can change before nothing is, when nobody writes.
Rank == CASE rec.kind = "value" -> 2 [] rec.kind = "marker" -> 1 [] OTHER -> 0

\* A Create that has seen no live record and no removal has rounds left.
Lasting(c) ==
    saw[c] \cap {"same", "other", "removed"} = {} =>
        /\ pc[c] = "create" => round[c] >= 2 + Rank
        /\ pc[c] = "peek" => round[c] >= 3 /\ round[c] >= 2 + Rank
        /\ pc[c] = "recreate" => round[c] >= 3 /\ (rec.rev # expect[c] => Rank = 0)
        /\ pc[c] = "look" => round[c] >= 3 /\ (Rank > 0 => round[c] >= 4)
        /\ pc[c] = "replace" => round[c] >= 4 /\ (rec.rev # expect[c] => Rank <= 1)

CallInv(c) == Caller(c) /\ InTime(c) /\ Naming(c) /\ Taking(c) /\ Lasting(c)

\* Nobody holds the revision of a marker.
MarkerUnknown ==
    rec.kind = "marker" => \A c \in Client : rec.rev \notin {call[c].arg, call[c].got}

AdapterInv == MarkerUnknown /\ \A c \in Client : CallInv(c)

----------------------------------------------------------------------------
\* What is stored, and what a call keeps, has its type.
LEMMA Types ==
    ASSUME TypeOK, NEW c \in Client
    PROVE  /\ rec.kind \in {"none", "value", "marker"} /\ rec.rev \in Rev \cup {NoRev}
           /\ rec.left \in Int /\ rec.left >= -CallTime /\ rec.left <= Life
           /\ call[c].arg \in Rev \cup {NoRev} /\ call[c].got \in Rev \cup {NoRev}
           /\ expect[c] \in Rev \cup {NoRev}
           /\ since[c] \in Nat /\ since[c] <= CallTime /\ ran[c] \in Nat /\ ran[c] <= CallTime
           /\ round[c] \in Nat /\ old[c] \in Nat /\ old[c] <= Life
BY AdapterAssumption DEF TypeOK, Rounds

\* The engine hands out a revision nobody remembers.
LEMMA NewRevIsNew ==
    ASSUME TypeOK, AdapterInv
    PROVE  /\ NewRev \in Rev /\ NewRev # rec.rev
           /\ \A c \in Client : NewRev # call[c].arg /\ NewRev # call[c].got /\ NewRev # expect[c]
<1> DEFINE f == [c \in Client |-> IF Pending(c) THEN call[c].arg ELSE call[c].got]
<1>1. f \in [Client -> Rev \cup {NoRev}] /\ expect \in [Client -> Rev \cup {NoRev}]
      /\ rec.rev \in Rev \cup {NoRev}
  BY DEF TypeOK
<1>2. PICK v \in Rev : v # rec.rev /\ \A c \in Client : v # f[c] /\ v # expect[c]
  BY <1>1, RevAssumption
<1>3. \A c \in Client : v # call[c].arg /\ v # call[c].got /\ v # expect[c]
  BY <1>2, AdapterAssumption DEF AdapterInv, CallInv, Caller
<1> QED
  BY <1>2, <1>3 DEF NewRev

\* How the record may change under a call: it does not, it is written with a
\* new revision and a lifetime, it is removed, or what has expired is reaped.
NewRec(x, more) ==
    \/ x = rec
    \/ /\ x.kind = "value" /\ x.rev \in Rev /\ x.left \in 1 .. Life
       /\ x.rev # rec.rev
       /\ \A c \in Client : x.rev # call[c].arg /\ x.rev # call[c].got /\ x.rev # expect[c]
    \/ /\ x.kind = "none" /\ x.rev = NoRev
       /\ "removed" \in more \/ ~Live
    \/ /\ x.kind = "marker" /\ x.rev \in Rev
       /\ x.rev # rec.rev
       /\ \A c \in Client : x.rev # call[c].arg /\ x.rev # call[c].got /\ x.rev # expect[c]
       /\ "removed" \in more \/ (~Live /\ rec.kind = "value")

Stored ==
    {x \in [kind : {"none", "value", "marker"}, rev : Rev \cup {NoRev}, left : -CallTime .. Life] :
        (x.kind = "none") = (x.rev = NoRev)}

\* What a call sees of the record by the step.
Sees(c, more) ==
    saw'[c] = IF Pending(c) THEN saw[c] \cup {Port!View(Cell', call[c].arg)} \cup more ELSE {}

\* A call that is somewhere else stays where it is while the record changes.
Stays(c) ==
    /\ call'[c] = call[c] /\ pc'[c] = pc[c] /\ round'[c] = round[c] /\ expect'[c] = expect[c]
    /\ ran'[c] = ran[c] /\ since'[c] = since[c] /\ old'[c] = old[c]

\* ... and its part of the invariant is not disturbed.
LEMMA Undisturbed ==
    ASSUME TypeOK, AdapterInv, NEW c \in Client, NEW more, rec' \in Stored, NewRec(rec', more),
           Stays(c), Sees(c, more)
    PROVE  CallInv(c)'
<1> USE AdapterAssumption
<1>0. CallInv(c) /\ MarkerUnknown
  BY DEF AdapterInv
<1>1. Caller(c)'
  BY <1>0 DEF CallInv, Caller, Stays, Sees, Pending
<1>2. CASE ~Pending(c)
  BY <1>1, <1>2, <1>0 DEF TypeOK, CallInv, Stays, Pending, InTime, Naming, Taking, Lasting
<1>3. CASE Pending(c)
  <2>0. /\ saw'[c] = saw[c] \cup {Port!View(Cell', call[c].arg)} \cup more
        /\ saw[c] \subseteq saw'[c]
    BY <1>3 DEF Sees
  <2>1. rec'.kind = "value" /\ rec' # rec =>
          /\ rec'.left > 0 /\ rec'.rev # call[c].arg /\ "other" \in saw'[c]
    BY <2>0 DEF NewRec, Cell, Port!View
  <2>2. InTime(c)'
    BY <1>0, <2>0, <2>1 DEF CallInv, InTime, Stays, Pending
  <2>3. Naming(c)'
    <3>1. pc[c] \in {"why", "reread"} => rec'.rev # call[c].arg
      BY <1>0 DEF CallInv, Naming, NewRec
    <3> QED
      BY <1>0, <2>0, <3>1 DEF CallInv, Naming, Stays
  <2>4. Taking(c)'
    BY <1>0 DEF CallInv, Taking, Stays, NewRec
  <2>5. Lasting(c)'
    <3> SUFFICES ASSUME saw'[c] \cap {"same", "other", "removed"} = {} PROVE Lasting(c)'
      BY DEF Lasting
    <3>1. Lasting(c) /\ Taking(c) /\ saw[c] \cap {"same", "other", "removed"} = {}
      BY <1>0, <2>0 DEF CallInv
    <3>2. "removed" \notin more /\ (rec'.kind = "value" => rec' = rec)
      BY <2>0, <2>1
    <3>3. CASE rec' = rec
      BY <3>1, <3>3 DEF Lasting, Stays, Rank
    <3>4. CASE rec'.kind = "none"
      BY <3>1, <3>4, Types DEF Lasting, Stays, Rank
    <3>5. CASE rec'.kind = "marker" /\ rec' # rec
      <4>1. Rank = 2 /\ Rank' = 1 /\ rec.kind = "value"
        BY <3>2, <3>5 DEF NewRec, Rank
      <4> QED
        BY <3>1, <4>1, Types DEF Lasting, Taking, Stays
    <3> QED
      BY <3>2, <3>3, <3>4, <3>5 DEF Stored
  <2> QED
    BY <1>1, <2>2, <2>3, <2>4, <2>5 DEF CallInv
<1> QED
  BY <1>2, <1>3

Results == {"ok", "notfound", "exists", "conflict", "unavailable"}

\* A call that returns: what is stored and kept keeps its type, the others are
\* not disturbed, and the port has answered.
LEMMA Returning ==
    ASSUME TypeOK, AdapterInv, NEW c \in Client, Pending(c), NEW res \in Results,
           NEW got \in Rev \cup {NoRev}, NEW x \in Stored, NEW more \in SUBSET {"removed"},
           Return(c, res, got, x, more), engine' = engine,
           NewRec(x, more), x.kind = "marker" => got # x.rev
    PROVE  TypeOK' /\ AdapterInv' /\ Port!Answer(c, res, got, Cell', more)
<1> USE AdapterAssumption
<1>1. /\ rec' = x
      /\ \A d \in Client \ {c} : Stays(d)
      /\ call'[c] = [op |-> "none", arg |-> NoRev, res |-> res, got |-> got]
      /\ pc'[c] = "idle" /\ round'[c] = 0 /\ expect'[c] = NoRev
      /\ ran'[c] = 0 /\ since'[c] = 0 /\ old'[c] = 0
  BY DEF Return, Store, TypeOK, Stays
<1>2. \A d \in Client : call'[d].res = "pending" <=> d # c /\ Pending(d)
  BY <1>1 DEF Pending, Results, Stays
<1>3. saw' = [d \in Client |-> IF d # c /\ Pending(d)
                               THEN saw[d] \cup {Port!View(Cell', call[d].arg)} \cup more ELSE {}]
  BY <1>2 DEF Return, Store
<1>4. Port!Answer(c, res, got, Cell', more)
  BY <1>3 DEF Port!Answer, Port!Become, Port!Pending, Pending, Return
<1>5. TypeOK'
  <2>1. rec' \in [kind : {"none", "value", "marker"}, rev : Rev \cup {NoRev}, left : -CallTime .. Life]
        /\ (rec'.kind = "none") = (rec'.rev = NoRev)
    BY <1>1 DEF Stored
  <2>2. call' \in [Client -> [op : Ops \cup {"none"}, arg : Rev \cup {NoRev}, got : Rev \cup {NoRev},
                            res : {"pending", "ok", "notfound", "exists", "conflict",
                                   "unavailable"}]]
    BY DEF Return, TypeOK, Results
  <2>3. /\ pc' \in [Client -> {"idle", "start", "failed", "reread", "create", "peek", "recreate",
                          "look", "replace", "swap", "why", "remove"}]
        /\ round' \in [Client -> 0 .. Rounds]
        /\ expect' \in [Client -> Rev \cup {NoRev}]
    BY DEF Return, TypeOK, Rounds
  <2>4. /\ ran' \in [Client -> 0 .. CallTime]
        /\ since' \in [Client -> 0 .. CallTime]
        /\ old' \in [Client -> 0 .. Life]
    BY DEF Return, TypeOK
  <2>5. \A d \in Client : Pending(d)' = (pc'[d] # "idle")
    BY <1>1, <1>2 DEF Pending, TypeOK, Stays
  <2>6. saw' \in [Client -> SUBSET {"gone", "same", "other", "late", "removed"}]
    BY <1>3 DEF TypeOK, Port!View
  <2> QED
    BY <2>1, <2>2, <2>3, <2>4, <2>5, <2>6 DEF TypeOK
<1>6. \A d \in Client : CallInv(d)'
  <2>1. ASSUME NEW d \in Client \ {c} PROVE CallInv(d)'
    <3>1. Sees(d, more)
      BY <1>3 DEF Sees
    <3> QED
      BY <1>1, <3>1, Undisturbed
  <2>2. CallInv(c)'
    BY <1>1, <1>2, <1>3 DEF CallInv, Caller, InTime, Naming, Taking, Lasting, Pending
  <2> QED
    BY <2>1, <2>2
<1>7. MarkerUnknown'
  BY <1>1 DEF MarkerUnknown, AdapterInv, NewRec, Stays, Stored
<1> QED
  BY <1>4, <1>5, <1>6, <1>7 DEF AdapterInv

\* A call that goes on to its next request: the port sees nothing of it.
LEMMA Proceeding ==
    ASSUME TypeOK, AdapterInv, NEW c \in Client, Pending(c), NEW rev \in Rev \cup {NoRev},
           NEW to \in {"create", "peek", "recreate", "look", "replace", "swap", "why", "remove"},
           NEW t \in {0, since[c]}, Proceed(c, to, rev, t), engine' = engine,
           NEW n \in 0 .. Rounds, round' = [round EXCEPT ![c] = n],
           (Naming(c) /\ Taking(c) /\ Lasting(c))'
    PROVE  TypeOK' /\ AdapterInv' /\ UNCHANGED <<Cell, call, saw>>
<1> USE AdapterAssumption
<1>1. /\ rec' = rec /\ call' = call /\ saw' = saw /\ ran' = ran /\ old' = old
      /\ pc'[c] = to /\ since'[c] = t
      /\ \A d \in Client \ {c} : Stays(d)
  BY DEF Proceed, TypeOK, Stays
<1>2. Cell' = Cell
  BY <1>1 DEF Cell
<1>3. TypeOK'
  <2>1. /\ pc' \in [Client -> {"idle", "start", "failed", "reread", "create", "peek", "recreate",
                          "look", "replace", "swap", "why", "remove"}]
        /\ round' \in [Client -> 0 .. Rounds]
        /\ expect' \in [Client -> Rev \cup {NoRev}]
        /\ since' \in [Client -> 0 .. CallTime]
    BY DEF Proceed, TypeOK
  <2>2. \A d \in Client : Pending(d)' = (pc'[d] # "idle")
    BY <1>1 DEF Pending, TypeOK, Stays
  <2> QED
    BY <1>1, <2>1, <2>2 DEF TypeOK
<1>4. \A d \in Client : CallInv(d)'
  <2>1. ASSUME NEW d \in Client \ {c} PROVE CallInv(d)'
    <3>1. Sees(d, {})
      BY <1>1, <1>2 DEF Sees, AdapterInv, CallInv, Caller
    <3>2. rec' \in Stored /\ NewRec(rec', {})
      BY <1>1 DEF Stored, TypeOK, NewRec
    <3> QED
      BY <1>1, <3>1, <3>2, Undisturbed
  <2>2. CallInv(c)'
    <3>1. Caller(c)'
      BY <1>1, <1>2, Types DEF AdapterInv, CallInv, Caller, Pending
    <3>2. InTime(c)'
      BY <1>1, Types DEF AdapterInv, CallInv, Caller, InTime, Pending, Port!View, Cell
    <3> QED
      BY <3>1, <3>2 DEF CallInv
  <2> QED
    BY <2>1, <2>2
<1>5. MarkerUnknown'
  BY <1>1 DEF MarkerUnknown, AdapterInv
<1> QED
  BY <1>1, <1>2, <1>3, <1>4, <1>5 DEF AdapterInv

\* Where nothing changes for the record, what is stored stays.
LEMMA SameRec ==
    ASSUME TypeOK PROVE rec \in Stored /\ NewRec(rec, {})
BY DEF TypeOK, Stored, NewRec

\* A refusal is an answer of the port, with the record as it is.
LEMMA Refusing ==
    ASSUME TypeOK, AdapterInv, NEW c \in Client, Pending(c), NEW res \in Results,
           Refuse(c, res), engine' = engine
    PROVE  TypeOK' /\ AdapterInv' /\ Port!Answer(c, res, NoRev, Cell, {})
<1>1. rec' = rec
  BY DEF Refuse, Return, Store
<1>2. Cell' = Cell
  BY <1>1 DEF Cell
<1>3. rec.kind = "marker" => NoRev # rec.rev
  BY DEF TypeOK
<1>4. TypeOK' /\ AdapterInv' /\ Port!Answer(c, res, NoRev, Cell', {})
  BY <1>3, SameRec, Returning DEF Refuse
<1> QED
  BY <1>2, <1>4

\* A write that the port allows is one of the port's.
LEMMA Writing ==
    ASSUME TypeOK, AdapterInv, NEW c \in Client, Pending(c), Written(c), engine' = engine,
           Port!MayWrite(c)
    PROVE  TypeOK' /\ AdapterInv' /\ Port!Write(c)
<1> USE AdapterAssumption
<1> DEFINE x == [kind |-> "value", rev |-> NewRev, left |-> Remaining(c)]
<1>1. Remaining(c) \in 1 .. Life
  BY Types DEF Remaining
<1>2. x \in Stored
  BY <1>1, NewRevIsNew DEF Stored
<1>3. NewRec(x, {})
  BY <1>1, NewRevIsNew DEF NewRec
<1>4. Return(c, "ok", NewRev, x, {}) \/ Return(c, "unavailable", call[c].arg, x, {})
  BY DEF Written, Lost
<1>5. Cell' = [rev |-> NewRev, left |-> Remaining(c)]
  <2>1. rec' = x
    BY <1>4 DEF Return, Store
  <2> QED
    BY <1>1, <2>1 DEF Cell
<1>6. Port!FreshRev(NewRev)
  BY NewRevIsNew DEF Port!FreshRev, Cell
<1> HIDE DEF x
<1>7. x.kind = "value"
  BY DEF x
<1>8. CASE Return(c, "ok", NewRev, x, {})
  <2>1. TypeOK' /\ AdapterInv' /\ Port!Answer(c, "ok", NewRev, Cell', {})
    BY <1>2, <1>3, <1>7, <1>8, NewRevIsNew, Returning DEF Results
  <2> QED
    BY <1>1, <1>5, <1>6, <2>1, NewRevIsNew DEF Port!Write, Port!Pending, Pending
<1>9. CASE Return(c, "unavailable", call[c].arg, x, {})
  <2>1. TypeOK' /\ AdapterInv' /\ Port!Answer(c, "unavailable", call[c].arg, Cell', {})
    BY <1>2, <1>3, <1>7, <1>9, Types, Returning DEF Results
  <2> QED
    BY <1>1, <1>5, <1>6, <2>1, NewRevIsNew DEF Port!Write, Port!Pending, Pending
<1> QED
  BY <1>4, <1>8, <1>9

\* So is a removal.
LEMMA Removing ==
    ASSUME TypeOK, AdapterInv, NEW c \in Client, Pending(c), Removed(c), engine' = engine,
           Port!MayDelete(c)
    PROVE  TypeOK' /\ AdapterInv' /\ Port!Remove(c)
<1> USE AdapterAssumption
<1> DEFINE x == IF engine = "nats" THEN Marker ELSE Nothing
<1>1. x \in Stored /\ x.kind # "value"
  BY NewRevIsNew DEF Stored, Marker, Nothing
<1>2. NewRec(x, {"removed"})
  BY NewRevIsNew DEF NewRec, Marker, Nothing
<1>3. Return(c, "ok", NoRev, x, {"removed"}) \/ Return(c, "unavailable", call[c].arg, x, {"removed"})
  BY DEF Removed, Lost
<1>4. x.kind = "marker" => NoRev # x.rev /\ call[c].arg # x.rev
  BY NewRevIsNew DEF Marker, Nothing
<1> HIDE DEF x
<1>5. Cell' = Port!Absent
  <2>1. rec' = x
    BY <1>3 DEF Return, Store
  <2> QED
    BY <1>1, <2>1 DEF Cell, Port!Absent
<1>8. CASE Return(c, "ok", NoRev, x, {"removed"})
  <2>1. TypeOK' /\ AdapterInv' /\ Port!Answer(c, "ok", NoRev, Cell', {"removed"})
    BY <1>1, <1>2, <1>4, <1>8, Returning DEF Results
  <2> QED
    BY <1>5, <2>1 DEF Port!Remove, Port!Pending, Pending
<1>9. CASE Return(c, "unavailable", call[c].arg, x, {"removed"})
  <2>1. TypeOK' /\ AdapterInv' /\ Port!Answer(c, "unavailable", call[c].arg, Cell', {"removed"})
    BY <1>1, <1>2, <1>4, <1>9, Types, Returning DEF Results
  <2> QED
    BY <1>5, <2>1 DEF Port!Remove, Port!Pending, Pending
<1> QED
  BY <1>3, <1>8, <1>9

----------------------------------------------------------------------------
\* What a step must do: keep the invariant, and be a step of the port.
Good == TypeOK' /\ AdapterInv' /\ (Port!PortNext \/ UNCHANGED <<Cell, call, saw>>)

\* What a pending call has seen of the record as it is now.
LEMMA SeesNow ==
    ASSUME TypeOK, AdapterInv, NEW c \in Client, Pending(c)
    PROVE  /\ ~Live => "gone" \in saw[c]
           /\ Live /\ rec.rev = call[c].arg => "same" \in saw[c]
           /\ Live /\ rec.rev # call[c].arg => "other" \in saw[c]
           /\ Live => rec.kind = "value" /\ Cell.rev = rec.rev /\ Cell.left > 0
           /\ ~Live => Cell.left = 0
BY Types DEF AdapterInv, CallInv, Caller, Live, Dead, Cell, Port!View

\* A record with the revision a conditional call names is a value.
LEMMA NamedIsValue ==
    ASSUME TypeOK, AdapterInv, NEW c \in Client, Pending(c), call[c].op \in Conditional,
           rec.rev = call[c].arg
    PROVE  Cell.rev = call[c].arg
BY Types DEF AdapterInv, CallInv, Caller, MarkerUnknown, Cell, TypeOK

\* The answers that refuse, as steps of the port.
LEMMA Refusals ==
    ASSUME TypeOK, AdapterInv, NEW c \in Client, Pending(c), engine' = engine,
           \/ Refuse(c, "notfound") /\ "gone" \in saw[c] /\ call[c].op \in Conditional \cup {"Get"}
           \/ Refuse(c, "notfound") /\ {"other", "late"} \subseteq saw[c] /\ call[c].op \in Conditional
           \/ /\ Refuse(c, "conflict") /\ call[c].op \in Conditional
              /\ "other" \in saw[c] \/ {"same", "gone"} \subseteq saw[c]
           \/ /\ Refuse(c, "exists") /\ call[c].op = "Create"
              /\ saw[c] \cap {"same", "other", "removed"} # {}
           \/ Refuse(c, "ok") /\ call[c].op = "Delete" /\ "gone" \in saw[c]
    PROVE  Good
<1>1. PICK res \in {"notfound", "conflict", "exists", "ok"} : Refuse(c, res)
  OBVIOUS
<1>2. \A r \in Results : Refuse(c, r) =>
         TypeOK' /\ AdapterInv' /\ Port!Answer(c, r, NoRev, Cell, {})
  BY Refusing
<1>3. TypeOK' /\ AdapterInv'
  BY <1>1, <1>2 DEF Results
<1>4. Port!Missing(c) \/ Port!Moved(c) \/ Port!Exists(c) \/ Port!NothingToDelete(c)
  BY <1>2 DEF Results, Port!Missing, Port!Moved, Port!Exists, Port!NothingToDelete, Port!Pending,
              Pending, Port!Conditional, Conditional
<1> QED
  BY <1>3, <1>4 DEF Good, Port!PortNext

\* A write at a moment the port allows one (Put, Create, Update) is a step of the port.
LEMMA GoodWrite ==
    ASSUME TypeOK, AdapterInv, NEW c \in Client, Pending(c), Written(c), engine' = engine,
           \/ call[c].op = "Put"
           \/ call[c].op = "Create" /\ Cell.left = 0
           \/ call[c].op = "Update" /\ Cell.rev = call[c].arg /\ "same" \in saw[c]
    PROVE  Good
<1>1. Port!MayWrite(c)
  BY DEF Port!MayWrite
<1> QED
  BY <1>1, Writing DEF Good, Port!PortNext

\* A removal at a moment the port allows one (Delete, DeleteIfRevision) is a step of the port.
LEMMA GoodRemoval ==
    ASSUME TypeOK, AdapterInv, NEW c \in Client, Pending(c), Removed(c), engine' = engine,
           \/ call[c].op = "Delete"
           \/ call[c].op = "DeleteIfRevision" /\ Cell.rev = call[c].arg /\ "same" \in saw[c]
    PROVE  Good
<1>1. Port!MayDelete(c)
  BY DEF Port!MayDelete
<1> QED
  BY <1>1, Removing DEF Good, Port!PortNext

\* The next request of a call, with the rounds of Create as they are or n.
LEMMA GoodProceed ==
    ASSUME TypeOK, AdapterInv, NEW c \in Client, Pending(c), NEW rev \in Rev \cup {NoRev},
           NEW to \in {"create", "peek", "recreate", "look", "replace", "swap", "why", "remove"},
           NEW t \in {0, since[c]}, Proceed(c, to, rev, t), engine' = engine,
           round' = round \/ \E n \in 0 .. Rounds : round' = [round EXCEPT ![c] = n],
           (Naming(c) /\ Taking(c) /\ Lasting(c))'
    PROVE  Good
<1>1. round = [round EXCEPT ![c] = round[c]] /\ round[c] \in 0 .. Rounds
  BY DEF TypeOK
<1>2. PICK n \in 0 .. Rounds : round' = [round EXCEPT ![c] = n]
  BY <1>1
<1> QED
  BY <1>2, Proceeding DEF Good

\* What a request of Create or of a conditional write knows when it is built.
LEMMA Built ==
    ASSUME TypeOK, NEW c \in Client, NEW to, NEW rev, NEW t, Proceed(c, to, rev, t)
    PROVE  /\ rec' = rec /\ call' = call /\ saw' = saw /\ Rank' = Rank
           /\ pc'[c] = to /\ expect'[c] = rev
BY DEF Proceed, TypeOK, Rank

----------------------------------------------------------------------------
\* What every engine does the same way: failing, reading, writing unconditionally.
LEMMA AnyEngine ==
    ASSUME TypeOK, AdapterInv, NEW c \in Client, Fail(c) \/ Get(c) \/ Put(c)
    PROVE  Good
<1>1. CASE Fail(c)
  <2>1. rec.kind = "marker" => call[c].arg # rec.rev
    BY DEF AdapterInv, MarkerUnknown
  <2>2. Return(c, "unavailable", call[c].arg, rec, {}) /\ engine' = engine /\ Pending(c)
    BY <1>1 DEF Fail, Lost
  <2>3. Cell' = Cell
    BY <2>2 DEF Return, Store, Cell
  <2>4. TypeOK' /\ AdapterInv' /\ Port!Answer(c, "unavailable", call[c].arg, Cell', {})
    BY <2>1, <2>2, SameRec, Types, Returning DEF Results
  <2> QED
    BY <2>2, <2>3, <2>4 DEF Good, Port!PortNext, Port!Unavailable, Port!Pending, Pending
<1>2. CASE Get(c)
  <2>0. Pending(c) /\ engine' = engine /\ call[c].op = "Get"
    BY <1>2 DEF Get, At
  <2>1. CASE Live /\ Return(c, "ok", rec.rev, rec, {})
    <3>1. Cell' = Cell
      BY <2>1 DEF Return, Store, Cell
    <3>2. Cell.rev = rec.rev /\ Cell.left > 0 /\ rec.kind = "value"
      BY <2>0, <2>1, SeesNow
    <3>3. TypeOK' /\ AdapterInv' /\ Port!Answer(c, "ok", rec.rev, Cell', {})
      BY <2>0, <2>1, <3>2, SameRec, Types, Returning DEF Results
    <3> QED
      BY <2>0, <3>1, <3>2, <3>3 DEF Good, Port!PortNext, Port!Read, Port!Pending, Pending
  <2>2. CASE ~Live /\ Refuse(c, "notfound")
    BY <2>0, <2>2, SeesNow, Refusals
  <2> QED
    BY <1>2, <2>1, <2>2 DEF Get
<1>3. CASE Put(c)
  BY <1>3, GoodWrite DEF Put, At
<1> QED
  BY <1>1, <1>2, <1>3

\* The memory engine's Create looks and writes under one lock.
LEMMA MemoryCreateGood ==
    ASSUME TypeOK, AdapterInv, NEW c \in Client, MemoryCreate(c)
    PROVE  Good
<1>0. Pending(c) /\ engine' = engine /\ call[c].op = "Create"
  BY DEF MemoryCreate, At
<1>1. CASE Live /\ Refuse(c, "exists")
  BY <1>0, <1>1, SeesNow, Refusals
<1>2. CASE ~Live /\ Written(c)
  BY <1>0, <1>2, SeesNow, GoodWrite
<1> QED
  BY <1>1, <1>2 DEF MemoryCreate

\* The memory engine's conditional calls compare and write under one lock.
LEMMA MemoryIfRevisionGood ==
    ASSUME TypeOK, AdapterInv, NEW c \in Client, NEW op \in Conditional, MemoryIfRevision(c, op)
    PROVE  Good
<1>0. Pending(c) /\ engine' = engine /\ call[c].op = op
  BY DEF MemoryIfRevision, At
<1>1. CASE ~Live /\ Refuse(c, "notfound")
  BY <1>0, <1>1, SeesNow, Refusals
<1>2. CASE Live /\ rec.rev # call[c].arg /\ Refuse(c, "conflict")
  BY <1>0, <1>2, SeesNow, Refusals
<1>3. CASE Live /\ rec.rev = call[c].arg /\ IF op = "Update" THEN Written(c) ELSE Removed(c)
  <2>1. Cell.rev = call[c].arg /\ "same" \in saw[c]
    BY <1>0, <1>3, SeesNow
  <2> QED
    BY <1>0, <1>3, <2>1, GoodWrite, GoodRemoval DEF Conditional
<1> QED
  BY <1>1, <1>2, <1>3 DEF MemoryIfRevision

\* Delete of memory and dynamodb, and the removal of nats.
LEMMA DeletesGood ==
    ASSUME TypeOK, AdapterInv, NEW c \in Client,
           MemoryDelete(c) \/ DynamoDelete(c) \/ NatsRemove(c)
    PROVE  Good
BY GoodRemoval DEF MemoryDelete, DynamoDelete, NatsRemove, At

\* nats.Delete leaves a marker where there was a value, or may have been.
LEMMA NatsDeleteGood ==
    ASSUME TypeOK, AdapterInv, NEW c \in Client, NatsDelete(c)
    PROVE  Good
<1>0. Pending(c) /\ engine' = engine /\ call[c].op = "Delete"
  BY DEF NatsDelete, At
<1>1. CASE rec.kind # "value" /\ Refuse(c, "ok")
  BY <1>0, <1>1, SeesNow, Refusals
<1>2. CASE Proceed(c, "remove", NoRev, 0) /\ UNCHANGED round
  BY <1>0, <1>2, Built, GoodProceed DEF Naming, Taking, Lasting
<1> QED
  BY <1>1, <1>2 DEF NatsDelete

----------------------------------------------------------------------------
\* dynamo.Create writes over what was expired when its request was built.
LEMMA DynamoCreateGood ==
    ASSUME TypeOK, AdapterInv, NEW c \in Client, DynamoCreate(c)
    PROVE  Good
<1>0. Pending(c) /\ engine' = engine /\ call[c].op = "Create"
  BY DEF DynamoCreate, At
<1>1. CASE Dead(since[c]) /\ Written(c)
  <2>1. Cell.left = 0
    BY <1>1, Types DEF Dead, Cell
  <2> QED
    BY <1>0, <1>1, <2>1, GoodWrite
<1>2. CASE ~Dead(since[c]) /\ Refuse(c, "exists")
  <2>1. saw[c] \cap {"same", "other"} # {}
    BY <1>0, <1>2, Types DEF Dead, AdapterInv, CallInv, InTime
  <2> QED
    BY <1>0, <1>2, <2>1, Refusals
<1> QED
  BY <1>1, <1>2 DEF DynamoCreate

\* dynamo's conditional request: its condition held when it was applied, or it is judged.
LEMMA DynamoIfRevisionGood ==
    ASSUME TypeOK, AdapterInv, NEW c \in Client, NEW op \in Conditional, DynamoIfRevision(c, op)
    PROVE  Good
<1> USE AdapterAssumption
<1>0. Pending(c) /\ engine' = engine /\ call[c].op = op /\ pc[c] = "start"
  BY DEF DynamoIfRevision, At
<1>1. CASE DynamoHolds(c) /\ IF op = "Update" THEN Written(c) ELSE Removed(c)
  <2>1. rec.rev = call[c].arg /\ "same" \in saw[c]
    BY <1>0, <1>1, Types DEF DynamoHolds, Dead, AdapterInv, CallInv, InTime
  <2>2. Cell.rev = call[c].arg
    BY <1>0, <2>1, NamedIsValue
  <2> QED
    BY <1>0, <1>1, <2>1, <2>2, GoodWrite, GoodRemoval DEF Conditional
<1>2. ASSUME ~DynamoHolds(c),
             pc' = [pc EXCEPT ![c] = IF rec.kind = "none" THEN "reread" ELSE "failed"],
             old' = [old EXCEPT ![c] = Cell.left],
             UNCHANGED <<rec, call, round, expect, ran, since, saw>>
      PROVE  Good
  <2>1. /\ pc'[c] = IF rec.kind = "none" THEN "reread" ELSE "failed"
        /\ old'[c] = Cell.left
        /\ \A d \in Client \ {c} : Stays(d)
    BY <1>2 DEF TypeOK, Stays
  <2>2. Cell' = Cell /\ Cell.left \in 0 .. Life
    BY <1>2, Types DEF Cell
  <2>3. TypeOK'
    <3>1. /\ pc' \in [Client -> {"idle", "start", "failed", "reread", "create", "peek", "recreate",
                          "look", "replace", "swap", "why", "remove"}]
          /\ old' \in [Client -> 0 .. Life]
      BY <1>2, <2>2 DEF TypeOK
    <3>2. \A d \in Client : Pending(d)' = (pc'[d] # "idle")
      BY <1>0, <1>2, <2>1 DEF Pending, TypeOK, Stays
    <3> QED
      BY <1>0, <1>2, <3>1, <3>2 DEF TypeOK
  <2>4. CallInv(c)'
    <3>1. Caller(c)' /\ InTime(c)'
      BY <1>0, <1>2, <2>2 DEF AdapterInv, CallInv, Caller, InTime, Pending
    <3>2. Taking(c)' /\ Lasting(c)'
      BY <2>1 DEF Taking, Lasting
    <3>3. ASSUME rec.kind = "none" PROVE Naming(c)'
      BY <1>0, <1>2, <2>1, <3>3 DEF Naming, TypeOK, AdapterInv, CallInv, Caller
    <3>4. ASSUME rec.kind # "none" PROVE Naming(c)'
      <4>1. Cell.left > 0 => Live /\ rec.rev # call[c].arg
        BY <1>2, <3>4, Types DEF DynamoHolds, Dead, Cell, Live
      <4>2. IF Cell.left > 0 THEN "other" \in saw[c] ELSE "gone" \in saw[c]
        BY <1>0, <4>1, <2>2, SeesNow
      <4> QED
        BY <1>2, <2>1, <3>4, <4>2 DEF Naming
    <3> QED
      BY <3>1, <3>2, <3>3, <3>4 DEF CallInv
  <2>5. \A d \in Client : CallInv(d)'
    <3>1. ASSUME NEW d \in Client \ {c} PROVE CallInv(d)'
      <4>1. Sees(d, {})
        BY <1>2, <2>2 DEF Sees, AdapterInv, CallInv, Caller
      <4>2. rec' \in Stored /\ NewRec(rec', {})
        BY <1>2, SameRec
      <4> QED
        BY <2>1, <4>1, <4>2, Undisturbed
    <3> QED
      BY <2>4, <3>1
  <2>6. MarkerUnknown'
    BY <1>2 DEF MarkerUnknown, AdapterInv
  <2> QED
    BY <1>2, <2>2, <2>3, <2>5, <2>6 DEF Good, AdapterInv
<1> QED
  BY <1>1, <1>2 DEF DynamoIfRevision

\* dynamo's refused condition is explained by the item returned, or by reading it again.
LEMMA DynamoAnswersGood ==
    ASSUME TypeOK, AdapterInv, NEW c \in Client, NEW op \in Conditional,
           DynamoJudge(c, op) \/ DynamoReread(c, op)
    PROVE  Good
<1>0. Pending(c) /\ engine' = engine /\ call[c].op = op
  BY DEF DynamoJudge, DynamoReread, At
<1>1. CASE DynamoJudge(c, op)
  <2>1. IF old[c] > 0 THEN "other" \in saw[c]
        ELSE "gone" \in saw[c] \/ {"other", "late"} \subseteq saw[c]
    BY <1>1 DEF DynamoJudge, At, AdapterInv, CallInv, Naming
  <2>2. CASE old[c] = 0
    BY <1>0, <1>1, <2>1, <2>2, Refusals DEF DynamoJudge
  <2>3. CASE old[c] # 0
    BY <1>0, <1>1, <2>1, <2>3, Types, Refusals DEF DynamoJudge
  <2> QED
    BY <2>2, <2>3
<1>2. CASE DynamoReread(c, op)
  <2>1. rec.rev # call[c].arg
    BY <1>2 DEF DynamoReread, At, AdapterInv, CallInv, Naming
  <2>2. CASE Live
    BY <1>0, <1>2, <2>1, <2>2, SeesNow, Refusals DEF DynamoReread
  <2>3. CASE ~Live
    BY <1>0, <1>2, <2>3, SeesNow, Refusals DEF DynamoReread
  <2> QED
    BY <2>2, <2>3
<1> QED
  BY <1>1, <1>2

----------------------------------------------------------------------------
\* Create of nats.
LEMMA AgainGood ==
    ASSUME TypeOK, AdapterInv, NEW c \in Client, Pending(c), engine' = engine,
           call[c].op = "Create", Again(c),
           saw[c] \cap {"same", "other", "removed"} = {} => round[c] >= 3 + Rank
    PROVE  Good
<1>0. Rank \in Nat /\ round[c] \in 0 .. Rounds
  BY DEF Rank, TypeOK
<1>1. CASE round[c] > 1 /\ round' = [round EXCEPT ![c] = @ - 1] /\ Proceed(c, "create", NoRev, 0)
  <2>1. round' = [round EXCEPT ![c] = round[c] - 1] /\ round[c] - 1 \in 0 .. Rounds
    BY <1>0, <1>1 DEF Rounds
  <2>2. round'[c] = round[c] - 1
    BY <2>1 DEF TypeOK
  <2>3. (Naming(c) /\ Taking(c) /\ Lasting(c))'
    BY <1>0, <1>1, <2>2, Built DEF Naming, Taking, Lasting
  <2> QED
    BY <1>1, <2>1, <2>3, GoodProceed
<1>2. CASE round[c] = 1 /\ Refuse(c, "exists")
  <2>1. saw[c] \cap {"same", "other", "removed"} # {}
    BY <1>0, <1>2
  <2> QED
    BY <1>2, <2>1, Refusals
<1> QED
  BY <1>1, <1>2 DEF Again

\* nats.Create sets out with all its rounds.
LEMMA NatsCreateGood ==
    ASSUME TypeOK, AdapterInv, NEW c \in Client, NatsCreate(c)
    PROVE  Good
<1>0. Pending(c) /\ engine' = engine /\ Proceed(c, "create", NoRev, 0)
      /\ round' = [round EXCEPT ![c] = Rounds] /\ Rounds \in 0 .. Rounds
  BY DEF NatsCreate, At, Rounds
<1>1. round'[c] = 4 /\ Rank <= 2 /\ Rank \in Nat
  BY <1>0 DEF TypeOK, Rounds, Rank
<1>2. (Naming(c) /\ Taking(c) /\ Lasting(c))'
  BY <1>0, <1>1, Built DEF Naming, Taking, Lasting
<1> QED
  BY <1>0, <1>2, GoodProceed

\* The bucket's create finds nothing, or says there is something.
LEMMA KVCreateGood ==
    ASSUME TypeOK, AdapterInv, NEW c \in Client, KVCreate(c)
    PROVE  Good
<1>0. Pending(c) /\ engine' = engine /\ call[c].op = "Create" /\ pc[c] = "create"
  BY DEF KVCreate, At
<1>1. CASE rec.kind = "none" /\ Written(c)
  BY <1>0, <1>1, GoodWrite DEF Cell
<1>2. CASE rec.kind # "none" /\ Proceed(c, "peek", NoRev, since[c]) /\ UNCHANGED round
  <2>1. Rank >= 1 /\ Rank \in Nat /\ round[c] \in Nat
    BY <1>2, Types DEF Rank
  <2>2. saw[c] \cap {"same", "other", "removed"} = {} => round[c] >= 2 + Rank
    BY <1>0 DEF AdapterInv, CallInv, Lasting
  <2>3. (Naming(c) /\ Taking(c) /\ Lasting(c))'
    BY <1>2, <2>1, <2>2, Built DEF Naming, Taking, Lasting
  <2> QED
    BY <1>0, <1>2, <2>3, GoodProceed
<1> QED
  BY <1>1, <1>2 DEF KVCreate

\* The bucket's create looks whether what it found is a marker.
LEMMA KVPeekGood ==
    ASSUME TypeOK, AdapterInv, NEW c \in Client, KVPeek(c)
    PROVE  Good
<1>0. Pending(c) /\ engine' = engine /\ call[c].op = "Create" /\ pc[c] = "peek" /\ round' = round
  BY DEF KVPeek, At
<1>1. /\ saw[c] \cap {"same", "other", "removed"} = {} => round[c] >= 3 /\ round[c] >= 2 + Rank
      /\ round[c] \in Nat
  BY <1>0, Types DEF AdapterInv, CallInv, Lasting
<1>2. CASE rec.kind = "marker" /\ Proceed(c, "recreate", rec.rev, since[c])
  <2>1. rec.rev # NoRev /\ rec.rev \in Rev \cup {NoRev}
    BY <1>2 DEF TypeOK
  <2>2. (Naming(c) /\ Taking(c) /\ Lasting(c))'
    BY <1>0, <1>1, <1>2, <2>1, Built DEF Naming, Taking, Lasting
  <2> QED
    BY <1>0, <1>2, <2>1, <2>2, GoodProceed
<1>3. CASE rec.kind # "marker" /\ Proceed(c, "look", NoRev, 0)
  <2>1. Rank \in {0, 2}
    BY <1>3 DEF Rank
  <2>2. (Naming(c) /\ Taking(c) /\ Lasting(c))'
    BY <1>0, <1>1, <1>3, <2>1, Built DEF Naming, Taking, Lasting
  <2> QED
    BY <1>0, <1>3, <2>2, GoodProceed
<1> QED
  BY <1>2, <1>3 DEF KVPeek

\* The bucket's create writes over the marker it saw, or starts over.
LEMMA KVRecreateGood ==
    ASSUME TypeOK, AdapterInv, NEW c \in Client, KVRecreate(c)
    PROVE  Good
<1>0. Pending(c) /\ engine' = engine /\ call[c].op = "Create" /\ pc[c] = "recreate"
  BY DEF KVRecreate, At
<1>1. CASE rec.rev = expect[c] /\ Written(c)
  <2>1. Cell.left = 0
    BY <1>0, <1>1 DEF Cell, AdapterInv, CallInv, Taking
  <2> QED
    BY <1>0, <1>1, <2>1, GoodWrite
<1>2. CASE rec.rev # expect[c] /\ Proceed(c, "look", NoRev, 0) /\ UNCHANGED round
  <2>1. saw[c] \cap {"same", "other", "removed"} = {} => round[c] >= 3 /\ Rank = 0
    BY <1>0, <1>2 DEF AdapterInv, CallInv, Lasting
  <2>2. (Naming(c) /\ Taking(c) /\ Lasting(c))'
    BY <1>2, <2>1, Built DEF Naming, Taking, Lasting
  <2> QED
    BY <1>0, <1>2, <2>2, GoodProceed
<1> QED
  BY <1>1, <1>2 DEF KVRecreate

\* nats.Create looks whether what is there has expired, and gives up when its rounds are used up.
LEMMA NatsLookGood ==
    ASSUME TypeOK, AdapterInv, NEW c \in Client, NatsLook(c)
    PROVE  Good
<1>0. Pending(c) /\ engine' = engine /\ call[c].op = "Create" /\ pc[c] = "look"
  BY DEF NatsLook, At
<1>1. /\ saw[c] \cap {"same", "other", "removed"} = {} =>
            round[c] >= 3 /\ (Rank > 0 => round[c] >= 4)
      /\ round[c] \in Nat
  BY <1>0, Types DEF AdapterInv, CallInv, Lasting
<1>2. CASE rec.kind # "value" /\ Again(c)
  <2>1. Rank \in {0, 1}
    BY <1>2 DEF Rank
  <2>2. saw[c] \cap {"same", "other", "removed"} = {} => round[c] >= 3 + Rank
    BY <1>1, <2>1
  <2> QED
    BY <1>0, <1>2, <2>2, AgainGood
<1>3. CASE Live /\ Refuse(c, "exists")
  BY <1>0, <1>3, SeesNow, Refusals
<1>4. CASE rec.kind = "value" /\ ~Live /\ Proceed(c, "replace", rec.rev, 0) /\ UNCHANGED round
  <2>1. rec.rev # NoRev /\ rec.rev \in Rev \cup {NoRev} /\ rec.left <= 0 /\ Rank = 2
    BY <1>4, Types DEF TypeOK, Live, Dead, Rank
  <2>2. (Naming(c) /\ Taking(c) /\ Lasting(c))'
    BY <1>1, <1>4, <2>1, Built DEF Naming, Taking, Lasting
  <2> QED
    BY <1>0, <1>4, <2>1, <2>2, GoodProceed
<1> QED
  BY <1>2, <1>3, <1>4 DEF NatsLook

\* nats.Create replaces the expired record it saw, or goes round again.
LEMMA NatsReplaceGood ==
    ASSUME TypeOK, AdapterInv, NEW c \in Client, NatsReplace(c)
    PROVE  Good
<1>0. Pending(c) /\ engine' = engine /\ call[c].op = "Create" /\ pc[c] = "replace"
  BY DEF NatsReplace, At
<1>1. CASE rec.rev = expect[c] /\ Written(c)
  <2>1. Cell.left = 0
    BY <1>0, <1>1, Types DEF Cell, AdapterInv, CallInv, Taking
  <2> QED
    BY <1>0, <1>1, <2>1, GoodWrite
<1>2. CASE rec.rev # expect[c] /\ Again(c)
  <2>1. saw[c] \cap {"same", "other", "removed"} = {} => round[c] >= 4 /\ Rank <= 1
    BY <1>0, <1>2 DEF AdapterInv, CallInv, Lasting
  <2>2. Rank \in Nat /\ round[c] \in Nat
    BY Types DEF Rank
  <2> QED
    BY <1>0, <1>2, <2>1, <2>2, AgainGood
<1> QED
  BY <1>1, <1>2 DEF NatsReplace

\* Update and DeleteIfRevision of nats.
LEMMA NatsConditionalGood ==
    ASSUME TypeOK, AdapterInv, NEW c \in Client, NEW op \in Conditional,
           NatsLive(c, op) \/ NatsSwap(c, op) \/ NatsWhy(c, op)
    PROVE  Good
<1>0. Pending(c) /\ engine' = engine /\ call[c].op = op /\ call[c].arg # NoRev
      /\ call[c].arg \in Rev \cup {NoRev}
  BY Types DEF NatsLive, NatsSwap, NatsWhy, At, AdapterInv, CallInv, Caller
<1>1. CASE NatsLive(c, op)
  <2>1. CASE ~Live /\ Refuse(c, "notfound")
    BY <1>0, <2>1, SeesNow, Refusals
  <2>2. CASE Live /\ rec.rev # call[c].arg /\ Refuse(c, "conflict")
    BY <1>0, <2>2, SeesNow, Refusals
  <2>3. CASE Live /\ rec.rev = call[c].arg /\ Proceed(c, "swap", rec.rev, 0) /\ UNCHANGED round
    <3>1. "same" \in saw[c]
      BY <1>0, <2>3, SeesNow
    <3>2. (Naming(c) /\ Taking(c) /\ Lasting(c))'
      BY <2>3, <3>1, Built DEF Naming, Taking, Lasting
    <3> QED
      BY <1>0, <2>3, <3>2, GoodProceed
  <2> QED
    BY <1>1, <2>1, <2>2, <2>3 DEF NatsLive
<1>2. CASE NatsSwap(c, op)
  <2>1. expect[c] = call[c].arg /\ "same" \in saw[c]
    BY <1>2 DEF NatsSwap, At, AdapterInv, CallInv, Naming
  <2>2. CASE rec.rev = expect[c] /\ IF op = "Update" THEN Written(c) ELSE Removed(c)
    <3>1. Cell.rev = call[c].arg
      BY <1>0, <2>1, <2>2, NamedIsValue
    <3> QED
      BY <1>0, <2>1, <2>2, <3>1, GoodWrite, GoodRemoval DEF Conditional
  <2>3. CASE rec.rev # expect[c] /\ Proceed(c, "why", NoRev, 0) /\ UNCHANGED round
    <3>1. (Naming(c) /\ Taking(c) /\ Lasting(c))'
      BY <1>0, <2>1, <2>3, Built DEF Naming, Taking, Lasting
    <3> QED
      BY <1>0, <2>3, <3>1, GoodProceed
  <2> QED
    BY <1>2, <2>2, <2>3 DEF NatsSwap
<1>3. CASE NatsWhy(c, op)
  <2>1. rec.rev # call[c].arg /\ "same" \in saw[c]
    BY <1>3 DEF NatsWhy, At, AdapterInv, CallInv, Naming
  <2>2. CASE Live
    BY <1>0, <1>3, <2>1, <2>2, SeesNow, Refusals DEF NatsWhy
  <2>3. CASE ~Live
    BY <1>0, <1>3, <2>1, <2>3, SeesNow, Refusals DEF NatsWhy
  <2> QED
    BY <2>2, <2>3
<1> QED
  BY <1>1, <1>2, <1>3

----------------------------------------------------------------------------
\* A call starts knowing what there is.
LEMMA BeginGood ==
    ASSUME TypeOK, AdapterInv, NEW c \in Client, NEW op \in Ops, Begin(c, op)
    PROVE  Good
<1> USE AdapterAssumption
<1> DEFINE arg == IF op \in Conditional THEN call[c].got ELSE NoRev
<1>1. arg \in Rev \cup {NoRev} /\ (op \in Conditional <=> arg # NoRev)
  BY Types DEF Begin
<1>2. /\ ~Pending(c)
      /\ call' = [call EXCEPT ![c] = [op |-> op, arg |-> arg, res |-> "pending", got |-> NoRev]]
      /\ saw' = [saw EXCEPT ![c] = {Port!View(Cell, arg)}]
      /\ pc' = [pc EXCEPT ![c] = "start"]
      /\ rec' = rec /\ engine' = engine /\ round' = round /\ expect' = expect /\ ran' = ran
      /\ since' = since /\ old' = old
  BY DEF Begin
<1>3. rec.kind = "marker" => arg # rec.rev
  BY DEF AdapterInv, MarkerUnknown, TypeOK
<1> HIDE DEF arg
<1>4. /\ call'[c] = [op |-> op, arg |-> arg, res |-> "pending", got |-> NoRev]
      /\ saw'[c] = {Port!View(Cell, arg)} /\ pc'[c] = "start"
      /\ \A d \in Client \ {c} : Stays(d) /\ saw'[d] = saw[d]
  BY <1>2 DEF TypeOK, Stays
<1>5. Cell' = Cell
  BY <1>2 DEF Cell
<1>6. TypeOK'
  <2>1. call' \in [Client -> [op : Ops \cup {"none"}, arg : Rev \cup {NoRev}, got : Rev \cup {NoRev},
                            res : {"pending", "ok", "notfound", "exists", "conflict",
                                   "unavailable"}]]
    BY <1>1, <1>2 DEF TypeOK
  <2>2. pc' \in [Client -> {"idle", "start", "failed", "reread", "create", "peek", "recreate",
                          "look", "replace", "swap", "why", "remove"}]
    BY <1>2 DEF TypeOK
  <2>3. \A d \in Client : Pending(d)' = (pc'[d] # "idle")
    BY <1>4 DEF Pending, TypeOK, Stays
  <2>4. saw' \in [Client -> SUBSET {"gone", "same", "other", "late", "removed"}]
    BY <1>2 DEF TypeOK, Port!View
  <2> QED
    BY <1>2, <2>1, <2>2, <2>3, <2>4 DEF TypeOK
<1>7. CallInv(c)'
  <2>1. Caller(c)'
    BY <1>1, <1>2, <1>4, <1>5 DEF AdapterInv, CallInv, Caller, Pending
  <2>2. since'[c] = 0
    BY <1>2 DEF AdapterInv, CallInv, Caller
  <2>3. InTime(c)'
    BY <1>2, <1>4, <2>2, Types DEF InTime, Pending, Port!View, Cell
  <2>4. Naming(c)' /\ Taking(c)' /\ Lasting(c)'
    BY <1>4 DEF Naming, Taking, Lasting
  <2> QED
    BY <2>1, <2>3, <2>4 DEF CallInv
<1>8. ASSUME NEW d \in Client \ {c} PROVE CallInv(d)'
  <2>1. Sees(d, {})
    BY <1>4, <1>5 DEF Sees, AdapterInv, CallInv, Caller
  <2> QED
    BY <1>2, <1>4, <2>1, SameRec, Undisturbed
<1>9. MarkerUnknown'
  BY <1>2, <1>3, <1>4 DEF MarkerUnknown, AdapterInv, TypeOK, Stays
<1>10. Port!Begin(c, op, arg)
  BY <1>2, <1>5 DEF Port!Begin, Port!Pending, Pending
<1> QED
  BY <1>1, <1>6, <1>7, <1>8, <1>9, <1>10 DEF Good, AdapterInv, Port!PortNext, Port!Op, Ops

\* The store dropping an expired record changes nothing the port shows.
LEMMA ReapGood ==
    ASSUME TypeOK, AdapterInv, Reap
    PROVE  Good
<1> USE AdapterAssumption
<1> DEFINE x == IF engine = "nats" /\ rec.kind = "value" THEN Marker ELSE Nothing
<1>1. x \in Stored /\ NewRec(x, {}) /\ x.kind # "value"
  BY NewRevIsNew DEF Reap, Stored, NewRec, Marker, Nothing
<1>2. /\ rec' = x /\ ~Live
      /\ engine' = engine /\ call' = call /\ pc' = pc /\ round' = round /\ expect' = expect
      /\ ran' = ran /\ since' = since /\ old' = old
      /\ saw' = [c \in Client |-> IF Pending(c)
                                  THEN saw[c] \cup {Port!View(Cell', call[c].arg)} \cup {} ELSE {}]
  BY DEF Reap, Store, Pending
<1> HIDE DEF x
<1>3. Cell' = Port!Absent /\ Cell.left = 0
  BY <1>1, <1>2 DEF Cell, Port!Absent, Live, Dead, TypeOK
<1>4. TypeOK'
  <2>1. saw' \in [Client -> SUBSET {"gone", "same", "other", "late", "removed"}]
    BY <1>2 DEF TypeOK, Port!View
  <2>2. rec' \in [kind : {"none", "value", "marker"}, rev : Rev \cup {NoRev}, left : -CallTime .. Life]
        /\ (rec'.kind = "none") = (rec'.rev = NoRev)
    BY <1>1, <1>2 DEF Stored
  <2> QED
    BY <1>2, <2>1, <2>2 DEF TypeOK, Pending
<1>5. ASSUME NEW c \in Client PROVE CallInv(c)'
  <2>1. Stays(c) /\ Sees(c, {})
    BY <1>2 DEF Stays, Sees
  <2> QED
    BY <1>1, <1>2, <2>1, Undisturbed
<1>6. MarkerUnknown'
  BY <1>1, <1>2 DEF MarkerUnknown, AdapterInv, NewRec
<1>7. Port!Forget
  BY <1>2, <1>3 DEF Port!Forget, Port!Become, Port!Pending, Pending
<1> QED
  BY <1>4, <1>5, <1>6, <1>7 DEF Good, AdapterInv, Port!PortNext

\* Time passing is seen by every call under way.
LEMMA TickGood ==
    ASSUME TypeOK, AdapterInv, Tick
    PROVE  Good
<1> USE AdapterAssumption
<1>1. /\ engine' = engine /\ call' = call /\ pc' = pc /\ round' = round /\ expect' = expect
      /\ saw' = [c \in Client |-> IF Pending(c)
                                  THEN saw[c] \cup {Port!View(Cell', call[c].arg)} \cup {"late"}
                                  ELSE {}]
  BY DEF Tick, Store, Pending
<1>2. /\ rec' \in Stored /\ rec'.kind = rec.kind /\ rec'.rev = rec.rev
      /\ rec.kind = "value" => rec'.left = IF rec.left > -CallTime THEN rec.left - 1 ELSE -CallTime
      /\ rec'.left \in Int
  <2>1. CASE rec.kind = "value"
    <3>1. rec' = [rec EXCEPT !.left = Sooner(rec.left, -CallTime)]
      BY <2>1 DEF Tick, Store
    <3>2. Sooner(rec.left, -CallTime) \in -CallTime .. Life
      BY DEF Sooner, TypeOK
    <3> QED
      BY <2>1, <3>1, <3>2 DEF TypeOK, Stored, Sooner
  <2>2. CASE rec.kind # "value"
    BY <2>2 DEF Tick, Store, TypeOK, Stored
  <2> QED
    BY <2>1, <2>2
<1>3. ASSUME NEW c \in Client
      PROVE  /\ Pending(c) => ran'[c] = ran[c] + 1 /\ since'[c] = since[c] + 1 /\ ran[c] < CallTime
             /\ ~Pending(c) => ran'[c] = 0 /\ since'[c] = 0
             /\ old'[c] = IF old[c] > 0 THEN old[c] - 1 ELSE 0
             /\ since[c] <= ran[c]
  BY DEF Tick, Older, Sooner, AdapterInv, CallInv, Caller
<1>4. TypeOK'
  <2>1. saw' \in [Client -> SUBSET {"gone", "same", "other", "late", "removed"}]
    BY <1>1 DEF TypeOK, Port!View
  <2>2. rec' \in [kind : {"none", "value", "marker"}, rev : Rev \cup {NoRev}, left : -CallTime .. Life]
        /\ (rec'.kind = "none") = (rec'.rev = NoRev)
    BY <1>2 DEF Stored
  <2>3. \A c \in Client : ran'[c] \in 0 .. CallTime /\ since'[c] \in 0 .. CallTime /\ old'[c] \in 0 .. Life
    BY <1>3, Types
  <2>4. ran' \in [Client -> 0 .. CallTime] /\ since' \in [Client -> 0 .. CallTime]
        /\ old' \in [Client -> 0 .. Life]
    BY <2>3 DEF Tick
  <2> QED
    BY <1>1, <2>1, <2>2, <2>4 DEF TypeOK, Pending
<1>5. ASSUME NEW c \in Client PROVE CallInv(c)'
  <2>0. CallInv(c)
    BY DEF AdapterInv
  <2>1. Caller(c)'
    BY <1>1, <1>3, <2>0, Types DEF CallInv, Caller, Pending
  <2>2. saw[c] \subseteq saw'[c] /\ (Pending(c) => "late" \in saw'[c])
    BY <1>1, <2>0 DEF CallInv, Caller
  <2>3. InTime(c)'
    BY <1>1, <1>2, <1>3, <2>0, <2>2, Types DEF CallInv, InTime, Pending
  <2>4. Naming(c)'
    <3>1. pc[c] = "failed" => Pending(c)
      BY DEF TypeOK
    <3> QED
      BY <1>1, <1>2, <1>3, <2>0, <2>2, <3>1, Types DEF CallInv, Naming
  <2>5. Taking(c)'
    BY <1>1, <1>2, <2>0, Types DEF CallInv, Taking
  <2>6. Lasting(c)'
    BY <1>1, <1>2, <2>0, <2>2 DEF CallInv, Lasting, Rank
  <2> QED
    BY <2>1, <2>3, <2>4, <2>5, <2>6 DEF CallInv
<1>6. MarkerUnknown'
  BY <1>1, <1>2 DEF MarkerUnknown, AdapterInv
<1>7. Cell' = [Cell EXCEPT !.left = IF Cell.left = 0 THEN 0 ELSE Cell.left - 1]
  BY <1>2, Types DEF Cell, TypeOK
<1>8. Port!Age
  BY <1>1, <1>7 DEF Port!Age, Port!Become, Port!Pending, Pending
<1> QED
  BY <1>4, <1>5, <1>6, <1>8 DEF Good, AdapterInv, Port!PortNext

----------------------------------------------------------------------------
\* There is nothing in the store and nobody calls it.
LEMMA InitGood == Init => TypeOK /\ AdapterInv /\ Port!PortInit
<1> SUFFICES ASSUME Init PROVE TypeOK /\ AdapterInv /\ Port!PortInit
  OBVIOUS
<1> USE AdapterAssumption
<1>1. TypeOK
  BY DEF Init, TypeOK, Nothing, Rounds, Pending
<1>2. AdapterInv
  BY DEF Init, AdapterInv, CallInv, Caller, InTime, Naming, Taking, Lasting, MarkerUnknown,
         Nothing, Pending
<1>3. Port!PortInit
  BY DEF Init, Port!PortInit, Port!Absent, Cell, Nothing
<1> QED
  BY <1>1, <1>2, <1>3

\* Every step of an adapter is a step of the port, or none.
LEMMA NextGood == TypeOK /\ AdapterInv /\ [Next]_vars => Good
<1> SUFFICES ASSUME TypeOK, AdapterInv, [Next]_vars PROVE Good
  OBVIOUS
<1>1. CASE UNCHANGED vars
  BY <1>1 DEF vars, Good, TypeOK, AdapterInv, CallInv, Caller, InTime, Naming, Taking, Lasting,
              MarkerUnknown, Pending, Cell, Rank
<1>2. ASSUME NEW c \in Client, NEW op \in Ops, Begin(c, op) PROVE Good
  BY <1>2, BeginGood
<1>3. ASSUME NEW c \in Client, NEW op \in Conditional,
             \/ MemoryIfRevision(c, op)
             \/ DynamoIfRevision(c, op) \/ DynamoJudge(c, op) \/ DynamoReread(c, op)
             \/ NatsLive(c, op) \/ NatsSwap(c, op) \/ NatsWhy(c, op)
      PROVE Good
  BY <1>3, MemoryIfRevisionGood, DynamoIfRevisionGood, DynamoAnswersGood, NatsConditionalGood
<1>4. ASSUME NEW c \in Client,
             \/ Fail(c) \/ Get(c) \/ Put(c)
             \/ MemoryCreate(c) \/ MemoryDelete(c)
             \/ DynamoCreate(c) \/ DynamoDelete(c)
             \/ NatsCreate(c) \/ KVCreate(c) \/ KVPeek(c) \/ KVRecreate(c)
             \/ NatsLook(c) \/ NatsReplace(c) \/ NatsDelete(c) \/ NatsRemove(c)
      PROVE Good
  BY <1>4, AnyEngine, MemoryCreateGood, DeletesGood, DynamoCreateGood, NatsCreateGood,
     KVCreateGood, KVPeekGood, KVRecreateGood, NatsLookGood, NatsReplaceGood, NatsDeleteGood
<1>5. CASE Reap
  BY <1>5, ReapGood
<1>6. CASE Tick
  BY <1>6, TickGood
<1> QED
  BY <1>1, <1>2, <1>3, <1>4, <1>5, <1>6 DEF Next

\* Every variable of the adapters keeps its type.
THEOREM TypeCorrect == Spec => []TypeOK
<1>1. Init => TypeOK /\ AdapterInv
  BY InitGood
<1>2. TypeOK /\ AdapterInv /\ [Next]_vars => (TypeOK /\ AdapterInv)'
  BY NextGood DEF Good
<1> QED
  BY <1>1, <1>2, PTL DEF Spec

\* The adapters implement the port: every call of memory.Store, nats.Store and
\* dynamodb.Store acts at one moment and only on the record it names, whatever
\* the other callers, the clock, the engine's reaping and lost answers do.
THEOREM Implements == Spec => Contract
<1>1. Init => TypeOK /\ AdapterInv /\ Port!PortInit
  BY InitGood
<1>2. TypeOK /\ AdapterInv /\ [Next]_vars => (TypeOK /\ AdapterInv)'
  BY NextGood DEF Good
<1>3. TypeOK /\ AdapterInv /\ [Next]_vars => [Port!PortNext]_(Port!portVars)
  BY NextGood DEF Good, Port!portVars
<1> QED
  BY <1>1, <1>2, <1>3, PTL DEF Spec, Contract, Port!PortSpec

=============================================================================
