----------------------------- MODULE GitHubPass -----------------------------
(***************************************************************************)
(* One GitHub organisation's pass: read the links, the operators'          *)
(* confirmation, GitHub and the directory, decide, hold what an            *)
(* organisation-wide rule forbids, act one change at a time, record what   *)
(* is newly held and publish the report.                                   *)
(*                                                                         *)
(* Each read is a step, and people join, leave, link and are suspended     *)
(* between any two.  Passes run one at a time (the lease); the process     *)
(* between two of them may be another, which knows the last report only.   *)
(* A group is what it feeds: the organisation, or a role in a team.        *)
(* Invitations by address, made by hand, and the addresses and logins the  *)
(* policy ignores, are left out.                                           *)
(***************************************************************************)
EXTENDS Naturals, FiniteSets, FiniteSetsExt

CONSTANTS
    Login,     \* GitHub accounts
    Email,     \* work addresses
    Team,      \* bound teams
    Org,       \* the organisation itself, as a place to be in
    MaxSeats,  \* bound: the seats the organisation has bought
    MaxEvents, \* bound: changes in the world, failed calls, crashes
    None

IgnoredAfter == 2

Scope == Team \cup {Org}
Role  == {"member", "maintainer"}
Group == {<<Org, "member">>} \cup (Team \X Role)

ASSUME GitHubPassAssumption ==
    /\ IsFiniteSet(Login)
    /\ Org \notin Team
    /\ None \notin Login \cup Email \cup Team \cup Role \cup {Org}
    /\ MaxSeats \in Nat /\ MaxEvents \in Nat

VARIABLES
    \* the directory, as the console knows it
    has,       \* addresses of live people
    holds,     \* the groups an address holds
    \* GitHub
    member, owner,
    seats,     \* the seats the organisation has bought
    teams,     \* the bound teams that exist
    roles,     \* each team's members and their roles
    invited,   \* where a pending invitation would put the account
    shows,     \* addresses the organisation discloses of a member
    expired,   \* invitations an account let expire since it last linked, up to IgnoredAfter
    \* the console's records
    links,     \* the stored links: active, lost, or none
    confirmed, \* the removal set an operator confirmed
    report,    \* the published report: what it shows held, and the breaker's set
    \* the controller's process
    enabled, ledger, last,
    \* the pass under way
    at, d, actions, rows,
    \* history
    was,       \* addresses gone, or without a team's groups, at some moment of this pass
    trail,     \* the held rows: recorded since they became held, or excused
    approved,  \* removal sets an operator confirmed
    events

directory  == <<has, holds>>
github     == <<member, owner, seats, teams, roles, invited, shows, expired>>
console    == <<links, confirmed, report>>
process    == <<enabled, ledger, last>>
pass       == <<at, d, actions, rows>>
vars == <<directory, github, console, process, pass, was, trail, approved, events>>

LinkState == {"none", "active", "lost"}
RowState  == {"synced", "pending", "invited", "notlinked", "leaving",
              "held", "retrying", "reported", "ignored"}
Kind      == {"invite", "add", "setrole", "remove"}

LinkRecord   == [state: LinkState, emails: SUBSET Email]
RowRecord    == [scope: Scope, email: Email \cup {None}, login: Login \cup {None},
                 state: RowState, action: Kind \cup {""}]
ActionRecord == [kind: Kind, scope: Scope, login: Login, role: Role \cup {None}]
ReportRecord == [held: SUBSET RowRecord, breaker: SUBSET ActionRecord]
AnswerRecord == [sure: BOOLEAN, live: BOOLEAN, holds: SUBSET Group]
TeamRoles    == [Team -> [Login -> Role \cup {None}]]

NoLink   == [state |-> "none", emails |-> {}]
NoReport == [held |-> {}, breaker |-> {}]
Quiet    == [gone |-> {}, lacked |-> {}]
Untold   == [told |-> {}, excused |-> {}, stale |-> FALSE]

\* What a pass has read; nothing yet.
Nothing == [links |-> [l \in Login |-> NoLink], confirmed |-> {}, members |-> {}, owner |-> {},
            shows |-> [l \in Login |-> {}], teams |-> {},
            roles |-> [t \in Team |-> [l \in Login |-> None]], invited |-> {},
            listed |-> {}, holders |-> [g \in Group |-> {}], free |-> 0, expired |-> [l \in Login |-> 0],
            said |-> << >>, breaker |-> {}]

Reads == [links: [Login -> LinkRecord], confirmed: SUBSET ActionRecord, members: SUBSET Login,
          owner: SUBSET Login, shows: [Login -> SUBSET Email], teams: SUBSET Team,
          roles: TeamRoles, invited: SUBSET Login,
          listed: SUBSET Group, holders: [Group -> SUBSET Email], free: Nat, expired: [Login -> 0..IgnoredAfter],
          said: UNION {[asked -> AnswerRecord] : asked \in SUBSET Email},
          breaker: SUBSET ActionRecord]

-----------------------------------------------------------------------------
(* Derive: who is who, who is wanted where, and who must be asked about.   *)

EmailsOf(l) ==
    IF l \notin d.members THEN {}
    ELSE d.shows[l] \cup (IF d.links[l].state = "active" THEN d.links[l].emails ELSE {})

\* A member whose link is lost and who shows no address of their own.
Lost == {l \in d.members : EmailsOf(l) = {} /\ d.links[l].state = "lost"}

Claimants(e) == {l \in d.members : e \in EmailsOf(l)}
LoginOf(e)   == IF Cardinality(Claimants(e)) = 1 THEN CHOOSE l \in Login : l \in Claimants(e) ELSE None

\* Linked accounts that are not members, which is who an invitation goes to.
Outside(e) == {l \in Login \ d.members : d.links[l].state = "active" /\ e \in d.links[l].emails}
Ambiguous(e) == Cardinality(Claimants(e)) > 1 \/ Cardinality(Outside(e)) > 1

\* The role an address has in a scope; the wider role wins.
Desired(s, e) ==
    IF s # Org /\ e \in d.holders[<<s, "maintainer">>] THEN "maintainer"
    ELSE IF e \in d.holders[<<s, "member">>] THEN "member" ELSE None

Wants(s, emails)      == \E e \in emails : Desired(s, e) # None
WantsAnywhere(emails) == \E s \in Scope : Wants(s, emails)
RoleIn(t, l)          == IF t \in d.teams THEN d.roles[t][l] ELSE None

Candidates ==
    UNION {EmailsOf(l) : l \in {m \in d.members :
        \/ ~WantsAnywhere(EmailsOf(m))
        \/ \E t \in Team : RoleIn(t, m) # None /\ m \notin d.owner /\ ~Wants(t, EmailsOf(m))}}

-----------------------------------------------------------------------------
(* Decide: the rows of the report and the changes to make.                 *)

Asked(e) == e \in DOMAIN d.said

\* Mutant: whatever the console says will do.
GoneUnvouched(e) == Asked(e) /\ ~d.said[e].live

Gone(e) == Asked(e) /\ d.said[e].sure /\ ~d.said[e].live

\* Nobody leaves a team unless every address was vouched for and holds none of its groups.
Removal(t, emails) ==
    \A e \in emails :
        Asked(e) /\ d.said[e].sure /\ ~(d.said[e].live /\ d.said[e].holds \cap ({t} \X Role) # {})

Row(s, e, l, state, action) == [scope |-> s, email |-> e, login |-> l, state |-> state, action |-> action]
Act(kind, s, l, role)       == [kind |-> kind, scope |-> s, login |-> l, role |-> role]

\* Who is wanted and may be invited: as the one account that proves the address.
Invitable(e) == /\ WantsAnywhere({e}) /\ LoginOf(e) = None /\ ~Ambiguous(e)
                /\ Outside(e) \ d.invited # {}

\* This never creates a team.
NoTeam(s) == s # Org /\ s \notin d.teams

\* The row of a wanted address, and the change it asks for.
Wanted(s, e) ==
    LET l    == LoginOf(e)
        out  == IF Outside(e) = {} THEN None ELSE CHOOSE x \in Outside(e) : TRUE
        role == Desired(s, e) IN
    IF NoTeam(s)                        THEN Row(s, e, l, "held", "add")
    ELSE IF l = None /\ out \in d.invited THEN Row(s, e, out, "invited", "")
    ELSE IF l = None /\ Ambiguous(e)     THEN Row(s, e, out, "held", "invite")
    ELSE IF l = None /\ out = None       THEN Row(s, e, None, "notlinked", "")
    ELSE IF l = None                     THEN Row(s, e, out, "pending", "invite")
    ELSE IF s = Org                      THEN Row(s, e, l, "synced", "")
    ELSE IF RoleIn(s, l) = None          THEN Row(s, e, l, "pending", "add")
    ELSE IF l \in d.owner /\ RoleIn(s, l) = "maintainer" /\ role = "member"
                                         THEN Row(s, e, l, "reported", "")
    ELSE IF RoleIn(s, l) # role          THEN Row(s, e, l, "pending", "setrole")
    ELSE                                      Row(s, e, l, "synced", "")

WantedRows == {Wanted(p[1], p[2]) : p \in {q \in Scope \X Email : Desired(q[1], q[2]) # None}}

\* A team's members nothing wants.
Surplus == {p \in d.teams \X Login : /\ p[2] \in d.members /\ RoleIn(p[1], p[2]) # None
                                     /\ EmailsOf(p[2]) # {} /\ ~Wants(p[1], EmailsOf(p[2]))}

AnyOf(S) == IF S = {} THEN None ELSE CHOOSE x \in S : TRUE

SurplusRow(t, l) ==
    LET e == AnyOf(EmailsOf(l)) IN
    IF l \in d.owner                THEN Row(t, e, l, "reported", "")
    ELSE IF Removal(t, EmailsOf(l)) THEN Row(t, e, l, "leaving", "remove")
    ELSE IF \E x \in EmailsOf(l) : ~Asked(x) \/ ~d.said[x].sure
                                    THEN Row(t, e, l, "retrying", "remove")
    ELSE                                 Row(t, e, l, "synced", "")

\* Who leaves the organisation: only somebody the directory no longer has, or an
\* account whose link is gone; never an owner.
Leavers == Lost \cup {l \in d.members : /\ EmailsOf(l) # {} /\ ~WantsAnywhere(EmailsOf(l))
                                        /\ \A e \in EmailsOf(l) : Gone(e)}

LeaverRow(l) ==
    IF l \in d.owner THEN Row(Org, AnyOf(EmailsOf(l) \cup d.links[l].emails), l, "reported", "")
    ELSE Row(Org, AnyOf(EmailsOf(l) \cup d.links[l].emails), l, "leaving", "remove")

DecidedRows == WantedRows \cup {SurplusRow(p[1], p[2]) : p \in Surplus} \cup {LeaverRow(l) : l \in Leavers}

\* Leaving the organisation takes them out of every team: no team work for a leaver.
DecidedActions ==
    LET leaving  == Leavers \ d.owner
        invites  == {Act("invite", Org, AnyOf(Outside(e)), "member") : e \in {x \in Email : Invitable(x)}}
        teamwork == {Act(r.action, r.scope, r.login, Desired(r.scope, r.email)) :
                        r \in {x \in WantedRows : x.state = "pending" /\ x.action \in {"add", "setrole"}}}
        surplus  == {Act("remove", p[1], p[2], None) :
                        p \in {q \in Surplus : q[2] \notin d.owner /\ Removal(q[1], EmailsOf(q[2]))}}
    IN  invites \cup {a \in teamwork \cup surplus : a.login \notin leaving}
                \cup {Act("remove", Org, l, None) : l \in leaving}

-----------------------------------------------------------------------------
(* Guard: the organisation-wide rules, and the rows a change concerns.     *)

Concerns(r, a) ==
    /\ r.action = a.kind /\ r.login = a.login
    /\ a.kind = "invite" \/ a.scope = Org \/ r.scope = a.scope

Marked(rs, as, state, action) ==
    {IF \E a \in as : Concerns(r, a)
     THEN [r EXCEPT !.state = state, !.action = IF action = "same" THEN @ ELSE action] ELSE r : r \in rs}

Removals(as) == {a \in as : a.kind = "remove"}
Affected(as) == {a.login : a \in Removals(as)}

\* Mutant: any confirmation opens the breaker.
BreaksAny(as) == Cardinality(Affected(as)) * 2 > Cardinality(d.members) /\ d.confirmed = {}

\* More than half of the members at once, and not the very set an operator confirmed.
Breaks(as) == Cardinality(Affected(as)) * 2 > Cardinality(d.members) /\ d.confirmed # Removals(as)

\* Which invitations get the free seats is the order of their addresses.
Guard(as, rs) ==
    LET tired == {a \in as : a.kind = "invite" /\ d.expired[a.login] >= IgnoredAfter}
        fresh == {a \in as : a.kind = "invite"} \ tired IN
    \E seated \in kSubset(IF Cardinality(fresh) < d.free THEN Cardinality(fresh) ELSE d.free, fresh) :
        LET fits  == (as \ tired) \ (fresh \ seated)
            rows1 == Marked(Marked(rs, tired, "ignored", ""), fresh \ seated, "held", "same")
            over  == Cardinality(Affected(fits)) * 2 > Cardinality(d.members) IN
        /\ d' = [d EXCEPT !.breaker = IF over THEN Removals(fits) ELSE {}]
        /\ IF Breaks(fits)
           THEN actions' = fits \ Removals(fits) /\ rows' = Marked(rows1, Removals(fits), "held", "same")
           ELSE actions' = fits /\ rows' = rows1

-----------------------------------------------------------------------------
(* The pass.                                                               *)

Event == events < MaxEvents /\ events' = events + 1

Without(t, e)  == e \notin has \/ holds[e] \cap ({t} \X Role) = {}
NowGone        == Email \ has
NowLacking     == {p \in Team \X Email : Without(p[1], p[2])}

\* The lease is this pass's.  It reads the links as the link check left them, and what an
\* operator confirmed: a confirmation that cannot be read confirms nothing.  (What a call
\* fails to say is an event, here and below.)
StoredLinksAndConfirmations ==
    /\ at = "idle"
    /\ at' = "members"
    /\ \/ d' = [d EXCEPT !.links = links, !.confirmed = confirmed] /\ UNCHANGED events
       \/ d' = [d EXCEPT !.links = links] /\ confirmed # {} /\ Event
    /\ was' = [gone |-> NowGone, lacked |-> NowLacking]
    /\ UNCHANGED <<directory, github, console, process, actions, rows, trail, approved>>

ReadMembers ==
    /\ at = "members"
    /\ at' = "teams"
    /\ d' = [d EXCEPT !.members = member, !.owner = owner, !.shows = shows]
    /\ UNCHANGED <<directory, github, console, process, actions, rows, was, trail, approved, events>>

ReadInvitationsAndTeams ==
    /\ at = "teams"
    /\ at' = "holders"
    /\ d' = [d EXCEPT !.invited = {l \in Login : invited[l] # {}}, !.teams = teams, !.roles = roles]
    /\ UNCHANGED <<directory, github, console, process, actions, rows, was, trail, approved, events>>

\* A member nobody linked whose public profile shows a live work address no other link
\* proves is linked to it, in the store and in this pass.
MatchProfiles ==
    /\ at = "holders" /\ d.listed = {}
    /\ \E l \in d.members, e \in has :
         /\ d.links[l].state = "none" /\ d.shows[l] = {}
         /\ links[l].state # "active"
         /\ \A x \in Login : links[x].state = "active" => e \notin links[x].emails
         /\ links' = [links EXCEPT ![l] = [state |-> "active", emails |-> {e}]]
         /\ d' = [d EXCEPT !.links = [@ EXCEPT ![l] = links'[l]]]
    /\ Event
    /\ UNCHANGED <<at, actions, rows, directory, github, confirmed, report, process, was, trail, approved>>

\* Who holds each bound group, live, under this policy, one group after another; the
\* list may be cut short.
Holders(g) ==
    /\ at = "holders" /\ g \in Group \ d.listed
    /\ g = CHOOSE x \in Group \ d.listed : TRUE   \* the order is that of their names
    /\ at' = IF d.listed \cup {g} = Group THEN "plan" ELSE at
    /\ \E list \in SUBSET {e \in has : g \in holds[e]} :
         /\ IF list = {e \in has : g \in holds[e]} THEN UNCHANGED events ELSE Event
         /\ d' = [d EXCEPT !.listed = @ \cup {g}, !.holders = [@ EXCEPT ![g] = list]]
    /\ UNCHANGED <<directory, github, console, process, actions, rows, was, trail, approved>>

\* Mutant: an invitation waiting to be accepted takes no seat.
FreeUnheld(filled, pending) == IF filled > seats THEN 0 ELSE seats - filled

Free(filled, pending) == IF filled + pending > seats THEN 0 ELSE seats - filled - pending

\* Seats that cannot be read leave none free; failed invitations that cannot be read count
\* as none.
ReadGuards ==
    /\ at = "plan"
    /\ at' = "ask"
    /\ LET free == Free(Cardinality(member), Cardinality(d.invited)) IN
       \/ d' = [d EXCEPT !.free = free, !.expired = expired] /\ UNCHANGED events
       \/ d' = [d EXCEPT !.free = free] /\ expired # d.expired /\ Event
       \/ d' = [d EXCEPT !.expired = expired] /\ free # 0 /\ Event
    /\ UNCHANGED <<directory, github, console, process, actions, rows, was, trail, approved>>

\* Explain is asked about one candidate after another.  No answer, or one under another
\* policy, leaves the address out; the directory vouches for what it says, or does not.
Vouch(e) ==
    /\ at = "ask" /\ e \in Candidates \ DOMAIN d.said
    /\ \E sure \in BOOLEAN :
         /\ IF sure THEN UNCHANGED events ELSE Event
         /\ d' = [d EXCEPT !.said = [x \in DOMAIN @ \cup {e} |->
                  IF x # e THEN @[x]
                  ELSE [sure |-> sure, live |-> sure /\ e \in has, holds |-> IF sure THEN holds[e] ELSE {}]]]
    /\ UNCHANGED <<at, actions, rows, directory, github, console, process, was, trail, approved>>

\* Asked about all of them, answered or not.
DecideAndGuard ==
    /\ at = "ask"
    /\ at' = "act"
    /\ IF Candidates \subseteq DOMAIN d.said THEN UNCHANGED events ELSE Event
    /\ Guard(DecidedActions, DecidedRows)
    /\ UNCHANGED <<directory, github, console, process, was, trail, approved>>

InviteTeams(l) == {t \in d.teams : \E e \in d.links[l].emails : Invitable(e) /\ Desired(t, e) # None}

\* GitHub takes a change only of somebody who is where it says.
Possible(a) ==
    CASE a.kind = "invite"                  -> a.login \notin member
      [] a.kind = "remove" /\ a.scope # Org -> roles[a.scope][a.login] # None
      [] OTHER                              -> a.login \in member

OutOfTeams(l) == [t \in Team |-> [roles[t] EXCEPT ![l] = None]]

Change(a) ==
    /\ Possible(a)
    /\ invited' = IF a.kind # "invite" THEN invited
                  ELSE [invited EXCEPT ![a.login] = {Org} \cup InviteTeams(a.login)]
    /\ IF a.kind = "remove" /\ a.scope = Org
       THEN member' = member \ {a.login} /\ owner' = owner \ {a.login} /\ roles' = OutOfTeams(a.login)
       ELSE /\ roles' = IF a.kind = "invite" THEN roles ELSE [roles EXCEPT ![a.scope] = [@ EXCEPT ![a.login] = a.role]]
            /\ UNCHANGED <<member, owner>>

Done(a) == IF a.kind = "invite" THEN "invited" ELSE IF a.kind = "remove" THEN "leaving" ELSE "synced"

\* One change after another, where the organisation is enabled; one GitHub refuses is
\* tried again next pass.
Apply(a) ==
    /\ at = "act" /\ enabled /\ a \in actions
    /\ actions' = actions \ {a}
    /\ \/ Change(a) /\ rows' = Marked(rows, {a}, Done(a), IF a.kind = "remove" THEN "same" ELSE "")
          /\ UNCHANGED events
       \/ /\ IF Possible(a) THEN Event ELSE UNCHANGED events
          /\ rows' = Marked(rows, {a}, "retrying", "same")
          /\ UNCHANGED <<member, owner, roles, invited>>
    /\ UNCHANGED <<at, d, seats, teams, shows, expired, directory, console, process, was, trail, approved>>

HeldRows(rs) == {r \in rs : r.state \in {"held", "reported"}}
Only(S)      == CHOOSE x \in S : TRUE

\* The last report this process published or, failing that, the stored one, if it reads.
Previous == IF last # {} THEN {Only(last)} ELSE {report, NoReport}

\* Mutant: a new process takes everything for recorded.
FreshOwn(now, seed) == IF ledger # {} THEN now \ Only(ledger) ELSE {}

\* The held rows that are new since the last pass.
Fresh(now, seed) == IF ledger # {} THEN now \ Only(ledger) ELSE now \ seed.held

\* A row's record is lost, and only logged, or the report that a new process starts from
\* shows it already and is not that of the last pass: nothing more is recorded.
Recorded(now, seed, lost) ==
    [told    |-> (trail.told \cap now) \cup (Fresh(now, seed) \ lost),
     excused |-> now \cap (trail.excused \cup lost \cup (IF ledger = {} /\ trail.stale THEN seed.held ELSE {})),
     stale   |-> TRUE]

\* All done: what is newly held is recorded, and the report is remembered.
RecordNewlyHeld ==
    /\ at = "act" /\ (enabled => actions = {})
    /\ at' = "publish"
    /\ IF enabled
       THEN /\ \E seed \in Previous : \E lost \in SUBSET Fresh(HeldRows(rows), seed) :
                 /\ trail' = Recorded(HeldRows(rows), seed, lost)
                 /\ IF lost = {} THEN UNCHANGED events ELSE Event
            /\ ledger' = {HeldRows(rows)}
       ELSE /\ trail' = [told |-> trail.told \cap HeldRows(rows),
                         excused |-> trail.excused \cap HeldRows(rows), stale |-> TRUE]
            /\ UNCHANGED <<ledger, events>>
    /\ last' = {[held |-> HeldRows(rows), breaker |-> d.breaker]}
    /\ UNCHANGED <<enabled, d, actions, rows, directory, github, console, was, approved>>

EndPass == at' = "idle" /\ d' = Nothing /\ actions' = {} /\ rows' = {} /\ was' = Quiet

\* The stored report is now that of the last pass; one that acted has recorded its rows.
Store == report' = Only(last) /\ trail' = [trail EXCEPT !.stale = ~enabled]

\* A report the store does not take is logged, and the next pass publishes again.
Publish ==
    /\ at = "publish"
    /\ \/ Store /\ UNCHANGED events
       \/ Event /\ UNCHANGED <<report, trail>>
    /\ EndPass
    /\ UNCHANGED <<links, confirmed, process, directory, github, approved>>

\* A read that failed, or an answer under another policy: the failure is reported over
\* what was last known, if the store takes it.
Fail ==
    /\ at \in {"members", "teams", "holders"}
    /\ Event
    /\ \/ last # {} /\ Store
       \/ last = {} /\ report' \in Previous /\ UNCHANGED trail
       \/ UNCHANGED <<report, trail>>
    /\ EndPass
    /\ UNCHANGED <<links, confirmed, process, directory, github, approved>>

\* The process dies, or hands the organisation to a new one, enabled or not.
Restart ==
    /\ Event
    /\ ledger' = {} /\ last' = {}
    /\ enabled' \in BOOLEAN
    /\ EndPass
    /\ UNCHANGED <<console, directory, github, trail, approved>>

-----------------------------------------------------------------------------
(* What happens meanwhile.                                                 *)

world == <<process, pass, trail, approved>>

\* What the pass's justification is measured by: the directory at each of its moments.
Witnessed == was' = IF at = "idle" THEN Quiet
                    ELSE [gone |-> was.gone \cup NowGone', lacked |-> was.lacked \cup NowLacking']

DirectoryChanges ==
    /\ Event
    /\ \E e \in Email :
         \/ has' = has \ {e} /\ e \in has /\ UNCHANGED holds
         \/ has' = has \cup {e} /\ e \notin has /\ UNCHANGED holds
         \/ \E g \in Group : /\ holds' = [holds EXCEPT ![e] = (@ \ {g}) \cup ({g} \ @)]
                             /\ UNCHANGED has
    /\ Witnessed
    /\ UNCHANGED <<github, console, world>>

\* A person links: the addresses come off every other link, and one left with none is lost.
Link(l, emails) ==
    /\ emails # {} /\ emails \subseteq has
    /\ Event
    /\ links' = [x \in Login |->
          IF x = l THEN [state |-> "active", emails |-> emails]
          ELSE IF links[x].state # "active" \/ links[x].emails \cap emails = {} THEN links[x]
          ELSE [state |-> IF links[x].emails \subseteq emails THEN "lost" ELSE "active",
                emails |-> links[x].emails \ emails]]
    /\ links' # links
    /\ expired' = [expired EXCEPT ![l] = 0]
    /\ UNCHANGED <<directory, member, owner, seats, teams, roles, invited, shows, confirmed, report, world, was>>

\* The link check finds a link lost, or can no longer check it.
LinkChecked(l) ==
    /\ links[l].state = "active"
    /\ Event
    /\ \/ links' = [links EXCEPT ![l] = [@ EXCEPT !.state = "lost"]]
       \/ links' = [links EXCEPT ![l] = NoLink]
    /\ UNCHANGED <<directory, github, confirmed, report, world, was>>

Accept(l) ==
    /\ invited[l] # {}
    /\ member' = member \cup {l}
    /\ roles' = [t \in Team |-> [roles[t] EXCEPT ![l] = IF t \in invited[l] THEN "member" ELSE @]]
    /\ invited' = [invited EXCEPT ![l] = {}]
    /\ UNCHANGED <<directory, owner, seats, teams, shows, expired, console, world, was, events>>

Expire(l) ==
    /\ invited[l] # {}
    /\ Event
    /\ invited' = [invited EXCEPT ![l] = {}]
    /\ expired' = [expired EXCEPT ![l] = IF @ < IgnoredAfter THEN @ + 1 ELSE @]
    /\ UNCHANGED <<directory, member, owner, seats, teams, roles, shows, console, world, was>>

\* Somebody leaves, is made an owner, or shows an address of theirs.
MemberChanges(l) ==
    /\ l \in member
    /\ Event
    /\ \/ /\ member' = member \ {l} /\ owner' = owner \ {l} /\ roles' = OutOfTeams(l)
          /\ UNCHANGED shows
       \/ l \notin owner /\ owner' = owner \cup {l} /\ UNCHANGED <<member, roles, shows>>
       \/ /\ \E e \in Email : e \notin shows[l] /\ shows' = [shows EXCEPT ![l] = @ \cup {e}]
          /\ UNCHANGED <<member, owner, roles>>
    /\ UNCHANGED <<directory, seats, teams, invited, expired, console, world, was>>

\* An operator confirms the removals the latest report shows; it lapses after a day.
ConfirmGitHubRemovals ==
    /\ report.breaker \notin {{}, confirmed}
    /\ confirmed' = report.breaker
    /\ approved' = approved \cup {report.breaker}
    /\ UNCHANGED <<directory, github, links, report, process, pass, trail, was, events>>

Lapse ==
    /\ confirmed # {}
    /\ Event
    /\ confirmed' = {}
    /\ UNCHANGED <<directory, github, links, report, world, was>>

-----------------------------------------------------------------------------
TypeOK ==
    /\ has \subseteq Email /\ holds \in [Email -> SUBSET Group]
    /\ member \subseteq Login /\ owner \subseteq member /\ seats \in Nat
    /\ teams \subseteq Team /\ roles \in TeamRoles
    /\ \A t \in Team, l \in Login : roles[t][l] # None => l \in member /\ t \in teams
    /\ invited \in [Login -> SUBSET (teams \cup {Org})] /\ shows \in [Login -> SUBSET Email]
    /\ expired \in [Login -> 0..IgnoredAfter]
    /\ links \in [Login -> LinkRecord]
    /\ confirmed \subseteq ActionRecord /\ report \in ReportRecord
    /\ enabled \in BOOLEAN
    /\ ledger \subseteq SUBSET RowRecord /\ Cardinality(ledger) <= 1
    /\ last \subseteq ReportRecord /\ Cardinality(last) <= 1
    /\ at \in {"idle", "members", "teams", "holders", "plan", "ask", "act", "publish"}
    /\ d \in Reads
    /\ actions \subseteq ActionRecord /\ rows \subseteq RowRecord
    /\ was \in [gone: SUBSET Email, lacked: SUBSET (Team \X Email)]
    /\ trail \in [told: SUBSET RowRecord, excused: SUBSET RowRecord, stale: BOOLEAN] /\ approved \subseteq SUBSET ActionRecord
    /\ events \in 0..MaxEvents

\* An organisation in which each account is linked to one address of its own.
Init ==
    /\ has = Email
    /\ \E g \in Group : holds = [e \in Email |-> {g}]
    /\ teams \in {{}, Team}
    /\ links \in {f \in [Login -> [state: {"active"}, emails: {{e} : e \in Email}]] :
                    \A x, y \in Login : x # y => f[x] # f[y]}
    /\ member \in SUBSET Login \ {{}} /\ seats \in 1..MaxSeats /\ Cardinality(member) <= seats
    /\ owner \in SUBSET member /\ Cardinality(owner) <= 1
    /\ roles = [t \in Team |-> [l \in Login |->
                  IF t \in teams /\ l \in member /\ <<t, "member">> \in holds[Only(links[l].emails)]
                  THEN "member" ELSE None]]
    /\ invited = [l \in Login |-> {}] /\ shows = [l \in Login |-> {}] /\ expired = [l \in Login |-> 0]
    /\ confirmed = {} /\ report = NoReport
    /\ enabled \in BOOLEAN
    /\ ledger = {} /\ last = {}
    /\ at = "idle" /\ d = Nothing /\ actions = {} /\ rows = {}
    /\ was = Quiet /\ trail = Untold /\ approved = {}
    /\ events = 0

PassStep ==
    \/ StoredLinksAndConfirmations \/ ReadMembers \/ ReadInvitationsAndTeams \/ MatchProfiles
    \/ (\E g \in Group : Holders(g)) \/ ReadGuards \/ (\E e \in Email : Vouch(e)) \/ DecideAndGuard
    \/ (\E a \in actions : Apply(a)) \/ RecordNewlyHeld \/ Publish \/ Fail

Next ==
    \/ PassStep \/ Restart
    \/ DirectoryChanges
    \/ \E l \in Login : \/ \E emails \in SUBSET Email : Link(l, emails)
                         \/ LinkChecked(l) \/ Accept(l) \/ Expire(l) \/ MemberChanges(l)
    \/ ConfirmGitHubRemovals \/ Lapse

Spec == Init /\ [][Next]_vars

-----------------------------------------------------------------------------
(* What must hold.                                                         *)

\* "A removal never rests on absence" (Decide, Removal, Vouch): nobody an owner as read is
\* removed; whoever leaves the organisation had a lost link, or addresses each of which
\* the directory did not have at some moment of the pass; and whoever leaves a team, no
\* address that held its groups throughout.  An incomplete list, an answer nobody
\* vouches for or no answer at all removes nobody.
RemovalJustified ==
    at = "act" => \A a \in Removals(actions) :
        /\ a.login \notin d.owner
        /\ \/ a.scope = Org /\ a.login \in Lost
           \/ a.scope = Org /\ EmailsOf(a.login) # {} /\ EmailsOf(a.login) \subseteq was.gone
           \/ a.scope # Org /\ \A e \in EmailsOf(a.login) : <<a.scope, e>> \in was.lacked

\* A pass that removes more than half of the members removes the very set an operator
\* saw in a report and confirmed (breakMassRemoval, ConfirmGitHubRemovals): a confirmed
\* set that changed since lets nobody go.
BreakerHolds ==
    [][at = "ask" /\ at' = "act" =>
         \/ Cardinality(Affected(actions')) * 2 <= Cardinality(d.members)
         \/ Removals(actions') \in approved]_vars

\* The controller never invites past the last seat (fitSeats), whoever accepts or leaves
\* between its reads.
SeatsKept == Cardinality(member) + Cardinality({l \in Login : invited[l] # {}}) <= seats

\* Every held or reported row of an enabled organisation was handed to the audit trail,
\* since it became held, when its report goes out (recordNewlyHeld, Ledger.Fresh), across
\* restarts, switches, reports that could not be written or read, and failed passes: but
\* for a record that was lost, and for a row a new process found in a stored report that
\* was not that of the last pass, or not of one that acted.
HeldRecorded ==
    at = "publish" /\ enabled => HeldRows(rows) \subseteq trail.told \cup trail.excused

-----------------------------------------------------------------------------
(* What a comment or a doc says without exception; it fails.  See the README. *)

\* StatusReader: "a restarted controller knows which held and reported rows it recorded
\* already"; recordNewlyHeld "records each action that is held now and was not last pass".
HeldAlwaysRecorded == at = "publish" /\ enabled => HeldRows(rows) \subseteq trail.told

\* "A holder of a maintainer group is a maintainer even when a member group also names
\* them": no change makes a member of somebody one of whose addresses is to be a maintainer.
WiderRoleWins ==
    at = "act" => \A a \in actions : a.kind \in {"add", "setrole"} /\ a.role = "member" =>
        \A e \in EmailsOf(a.login) : Desired(a.scope, e) # "maintainer"
=============================================================================
