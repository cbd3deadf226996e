----------------------------- MODULE PortState -----------------------------
(***************************************************************************)
(* What port.State (internal/port/port.go) promises of one key, as its     *)
(* callers see it: a call is made, takes effect at one moment, and is      *)
(* answered.                                                               *)
(*                                                                         *)
(* A refusal changes nothing, so any moment of the call justifies it: saw  *)
(* keeps what the record has looked like to a call since it began.  A      *)
(* conditional write is allowed one thing the interface's comment does not *)
(* mention: it may still act on the record it names when that record's     *)
(* lifetime ended during the call, provided nothing was written since.     *)
(* Both engines do so, because they judge expiry by a clock read earlier.  *)
(* One that finds its record gone may be answered ErrConflict, when it was *)
(* there as the call began: nats says so if it cannot read what became of  *)
(* it.  And a Create may be answered ErrExists where no record was live,   *)
(* when a removal took effect during the call: nats gives up after four    *)
(* rounds, and the markers that removals leave can use them up.            *)
(***************************************************************************)
EXTENDS Naturals

CONSTANTS
    Client,     \* the callers
    Rev,        \* the revisions a store can hand out
    NoRev,      \* no revision
    MaxLife     \* the longest lifetime a record is written with

VARIABLES
    cell,       \* the record: its revision and the time it has left
    call,       \* each caller's call, and its answer once there is one
    saw         \* what the record has looked like to the call so far

portVars == <<cell, call, saw>>

Op == {"Get", "Put", "Create", "Update", "Delete", "DeleteIfRevision"}

Conditional == {"Update", "DeleteIfRevision"}

Result == {"pending", "ok", "notfound", "exists", "conflict", "unavailable"}

Call == [op : Op \cup {"none"}, arg : Rev \cup {NoRev}, res : Result, got : Rev \cup {NoRev}]

Absent == [rev |-> NoRev, left |-> 0]

\* How record x looks to a call that names revision arg.
View(x, arg) ==
    IF x.left = 0 THEN "gone" ELSE IF x.rev = arg THEN "same" ELSE "other"

Pending(c) == call[c].res = "pending"

\* A revision nobody remembers.
FreshRev(v) ==
    /\ v \in Rev
    /\ v # cell.rev
    /\ \A c \in Client : v # call[c].arg /\ v # call[c].got

\* The record becomes x, before the eyes of every call still pending.
Become(x, pending, more) ==
    /\ cell' = x
    /\ saw' = [c \in Client |->
                 IF c \in pending THEN saw[c] \cup {View(x, call[c].arg)} \cup more ELSE {}]

\* Call c is answered, and the record becomes x; got is the revision the
\* caller holds afterwards: one not answered may be tried again.
Answer(c, res, got, x, more) ==
    /\ call' = [call EXCEPT ![c] = [op |-> "none", arg |-> NoRev, res |-> res, got |-> got]]
    /\ Become(x, {d \in Client \ {c} : Pending(d)}, more)

PortInit ==
    /\ cell = Absent
    /\ call = [c \in Client |-> [op |-> "none", arg |-> NoRev, res |-> "ok", got |-> NoRev]]
    /\ saw = [c \in Client |-> {}]

----------------------------------------------------------------------------
Begin(c, op, arg) ==
    /\ ~Pending(c)
    /\ call' = [call EXCEPT ![c] = [op |-> op, arg |-> arg, res |-> "pending", got |-> NoRev]]
    /\ saw' = [saw EXCEPT ![c] = {View(cell, arg)}]
    /\ UNCHANGED cell

Read(c) ==
    /\ Pending(c)
    /\ call[c].op = "Get"
    /\ cell.left > 0
    /\ Answer(c, "ok", cell.rev, cell, {})

\* The condition under which a write of call c may take effect.
MayWrite(c) ==
    CASE call[c].op = "Put" -> TRUE
      [] call[c].op = "Create" -> cell.left = 0
      [] call[c].op = "Update" -> cell.rev = call[c].arg /\ "same" \in saw[c]
      [] OTHER -> FALSE

\* A write takes effect; its answer carries the revision, or is lost.
Write(c) ==
    /\ Pending(c)
    /\ MayWrite(c)
    /\ \E v \in Rev, n \in 1 .. MaxLife :
          /\ FreshRev(v)
          /\ \/ Answer(c, "ok", v, [rev |-> v, left |-> n], {})
             \/ Answer(c, "unavailable", call[c].arg, [rev |-> v, left |-> n], {})

MayDelete(c) ==
    \/ call[c].op = "Delete"
    \/ /\ call[c].op = "DeleteIfRevision"
       /\ cell.rev = call[c].arg
       /\ "same" \in saw[c]

Remove(c) ==
    /\ Pending(c)
    /\ MayDelete(c)
    /\ \/ Answer(c, "ok", NoRev, Absent, {"removed"})
       \/ Answer(c, "unavailable", call[c].arg, Absent, {"removed"})

\* Delete of a key that was absent.
NothingToDelete(c) ==
    /\ Pending(c)
    /\ call[c].op = "Delete"
    /\ "gone" \in saw[c]
    /\ Answer(c, "ok", NoRev, cell, {})

\* ErrNotFound; one that lost to another write may be answered so when time
\* passed during the call, for the record it lost to may have expired.
Missing(c) ==
    /\ Pending(c)
    /\ \/ call[c].op \in Conditional \cup {"Get"} /\ "gone" \in saw[c]
       \/ call[c].op \in Conditional /\ {"other", "late"} \subseteq saw[c]
    /\ Answer(c, "notfound", NoRev, cell, {})

\* ErrConflict: another record is there, or the one named went meanwhile.
Moved(c) ==
    /\ Pending(c)
    /\ call[c].op \in Conditional
    /\ "other" \in saw[c] \/ {"same", "gone"} \subseteq saw[c]
    /\ Answer(c, "conflict", NoRev, cell, {})

\* ErrExists
Exists(c) ==
    /\ Pending(c)
    /\ call[c].op = "Create"
    /\ saw[c] \cap {"same", "other", "removed"} # {}
    /\ Answer(c, "exists", NoRev, cell, {})

\* The store was not reached: nothing happened.
Unavailable(c) ==
    /\ Pending(c)
    /\ Answer(c, "unavailable", call[c].arg, cell, {})

\* Time passes for the record.
Age ==
    /\ Become([cell EXCEPT !.left = IF @ = 0 THEN 0 ELSE @ - 1],
              {c \in Client : Pending(c)}, {"late"})
    /\ UNCHANGED call

\* What is left of a record that expired is forgotten.
Forget ==
    /\ cell.left = 0
    /\ Become(Absent, {c \in Client : Pending(c)}, {})
    /\ UNCHANGED call

PortNext ==
    \/ \E c \in Client :
          \/ \E op \in Op, arg \in Rev \cup {NoRev} : Begin(c, op, arg)
          \/ Read(c) \/ Write(c) \/ Remove(c) \/ NothingToDelete(c)
          \/ Missing(c) \/ Moved(c) \/ Exists(c) \/ Unavailable(c)
    \/ Age
    \/ Forget

PortSpec == PortInit /\ [][PortNext]_portVars

=============================================================================
