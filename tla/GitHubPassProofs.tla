-------------------------- MODULE GitHubPassProofs --------------------------
(***************************************************************************)
(* Proofs about GitHubPass, for any finite set of accounts, any addresses, *)
(* teams and seats, and any number of events: nobody is removed without a  *)
(* reason that was true during the pass, no large removal goes unconfirmed,*)
(* no invitation goes past the last seat, and what is held is recorded.    *)
(***************************************************************************)
EXTENDS GitHubPass, FiniteSetTheorems, TLAPS

\* What each kind of change looks like, the teams read being T.
Shaped(a, T) ==
    /\ a.kind = "invite" => a.scope = Org /\ a.role = "member"
    /\ a.kind \in {"add", "setrole"} => a.scope \in T /\ a.role \in Role
    /\ a.kind = "remove" => a.scope \in T \cup {Org} /\ a.role = None

\* A pass works on the teams that exist, and knows nothing before it starts.
Shape ==
    /\ d.teams \subseteq teams
    /\ \A a \in actions : Shaped(a, d.teams)
    /\ at \notin {"ask", "act", "publish"} => d.free = 0 /\ d.said = << >>
    /\ at = "publish" => last # {}

TypeInv == TypeOK /\ Shape

\* What an answer, when it is vouched for, says of some moment of the pass.
True(e, answer, gone, lacked) ==
    answer.sure =>
        /\ ~answer.live => e \in gone
        /\ \A t \in Team : ~(answer.live /\ answer.holds \cap ({t} \X Role) # {}) => <<t, e>> \in lacked

\* Every answer was true at some moment of the pass, and the pass's moments include now.
Witness ==
    /\ at # "idle" => NowGone \subseteq was.gone /\ NowLacking \subseteq was.lacked
    /\ \A e \in DOMAIN d.said : True(e, d.said[e], was.gone, was.lacked)

\* What the console has as confirmed, and what a pass read of it, an operator confirmed.
ApprovalInv ==
    /\ confirmed \in approved \cup {{}}
    /\ d.confirmed \in approved \cup {{}}

Inviting == {l \in Login : invited[l] # {}}
Invites(as) == {a \in as : a.kind = "invite"}

\* Who is invited when the seats are counted was invited when the pass read it; what it
\* may still invite fits beside those.
SeatInv ==
    /\ Cardinality(member) + Cardinality(Inviting) <= seats
    /\ at \in {"holders", "plan"} => Inviting \subseteq d.invited
    /\ at = "ask" => Cardinality(member) + Cardinality(Inviting) + d.free <= seats
    /\ at = "act" => /\ IsFiniteSet(Invites(actions))
                     /\ Cardinality(member) + Cardinality(Inviting) + Cardinality(Invites(actions)) <= seats

\* The rows that were recorded, or excused.
Settled == trail.told \cup trail.excused

\* Whatever a later pass may take as recorded, was, or is excused: what an enabled process
\* remembers, and the stored report while it is that of the last pass.
TrailInv ==
    /\ \A held \in ledger : enabled /\ held \subseteq Settled
    /\ enabled => \A r \in last : ledger = {r.held}
    /\ ~trail.stale => report.held \subseteq Settled
    /\ at = "publish" => last # {} /\ (enabled => ledger = {HeldRows(rows)})

-----------------------------------------------------------------------------
(* What is read.                                                           *)

USE GitHubPassAssumption

\* What a pass starts from has the type of what it reads.
LEMMA NothingReads == Nothing \in Reads
<1>1. << >> \in [{} -> AnswerRecord]
  OBVIOUS
<1>2. << >> \in UNION {[asked -> AnswerRecord] : asked \in SUBSET Email}
  BY <1>1
<1>3. NoLink \in LinkRecord
  BY DEF NoLink, LinkRecord, LinkState
<1>. QED
  BY <1>2, <1>3 DEF Nothing, Reads, TeamRoles, IgnoredAfter

\* The fields of what is read keep their types.
LEMMA ReadsFields ==
    ASSUME NEW r \in Reads
    PROVE  /\ r.links \in [Login -> LinkRecord] /\ r.confirmed \subseteq ActionRecord
           /\ r.members \subseteq Login /\ r.owner \subseteq Login
           /\ r.shows \in [Login -> SUBSET Email] /\ r.teams \subseteq Team
           /\ r.roles \in TeamRoles /\ r.invited \subseteq Login
           /\ r.listed \subseteq Group /\ r.holders \in [Group -> SUBSET Email] /\ r.free \in Nat
           /\ r.expired \in [Login -> 0..IgnoredAfter]
           /\ DOMAIN r.said \subseteq Email /\ \A e \in DOMAIN r.said : r.said[e] \in AnswerRecord
           /\ r.breaker \subseteq ActionRecord
<1>1. PICK asked \in SUBSET Email : r.said \in [asked -> AnswerRecord]
  BY DEF Reads
<1>. QED
  BY <1>1 DEF Reads

-----------------------------------------------------------------------------
(* Types.                                                                  *)

\* The first state has the types.
LEMMA InitType == Init => TypeInv
<1>. SUFFICES ASSUME Init PROVE TypeInv
  OBVIOUS
<1>1. d \in Reads /\ d.teams = {} /\ d.free = 0 /\ d.said = << >>
  BY NothingReads DEF Init, Nothing
<1>2. /\ has \subseteq Email /\ holds \in [Email -> SUBSET Group]
      /\ member \subseteq Login /\ owner \subseteq member /\ seats \in Nat
      /\ teams \subseteq Team 
  BY DEF Init
<1>3. roles \in TeamRoles
  BY DEF Init, Role, TeamRoles
<1>4. \A t \in Team, l \in Login : roles[t][l] # None => l \in member /\ t \in teams
  BY DEF Init
<1>5. /\ invited \in [Login -> SUBSET (teams \cup {Org})] /\ shows \in [Login -> SUBSET Email]
      /\ expired \in [Login -> 0..IgnoredAfter]
  BY DEF Init, IgnoredAfter
<1>6. links \in [Login -> LinkRecord]
  BY DEF Init, LinkRecord, LinkState
<1>7. confirmed \subseteq ActionRecord /\ report \in ReportRecord
  BY DEF Init, NoReport, ReportRecord
<1>8. /\ ledger \subseteq SUBSET RowRecord /\ Cardinality(ledger) <= 1
      /\ last \subseteq ReportRecord /\ Cardinality(last) <= 1
  BY FS_EmptySet DEF Init
<1>9. enabled \in BOOLEAN
  BY DEF Init
<1>10. /\ at = "idle" /\ actions \subseteq ActionRecord /\ rows \subseteq RowRecord /\ actions = {}
       /\ was \in [gone: SUBSET Email, lacked: SUBSET (Team \X Email)]
       /\ trail \in [told: SUBSET RowRecord, excused: SUBSET RowRecord, stale: BOOLEAN]
       /\ approved \subseteq SUBSET ActionRecord /\ events \in 0..MaxEvents
  BY DEF Init, Quiet, Untold
<1>. QED
  BY <1>1, <1>2, <1>3, <1>4, <1>5, <1>6, <1>7, <1>8, <1>9, <1>10 DEF TypeInv, TypeOK, Shape

\* The reads, one after the other, and what each leaves of what was read before.
LEMMA StoredReads ==
    ASSUME TypeInv, StoredLinksAndConfirmations
    PROVE  /\ d' \in Reads /\ d'.teams = d.teams /\ d'.free = d.free /\ d'.said = d.said
           /\ d'.invited = d.invited /\ d'.confirmed \in {d.confirmed, confirmed}
<1>0. d \in Reads /\ links \in [Login -> LinkRecord] /\ confirmed \in SUBSET ActionRecord
  BY DEF TypeInv, TypeOK
<1>1. CASE d' = [d EXCEPT !.links = links, !.confirmed = confirmed]
  <2>1. PICK c : c = confirmed
    OBVIOUS
  <2>2. d' = [d EXCEPT !.links = links, !.confirmed = c]
    BY <1>1, <2>1
  <2>3. d' \in Reads /\ d'.teams = d.teams /\ d'.free = d.free /\ d'.said = d.said
    BY <1>0, <2>1, <2>2 DEF Reads
  <2>4. d'.invited = d.invited /\ d'.confirmed = c
    BY <1>0, <2>1, <2>2 DEF Reads
  <2>. QED
    BY <2>1, <2>3, <2>4
<1>2. CASE d' = [d EXCEPT !.links = links]
  <2>1. PICK f \in [Login -> LinkRecord] : d' = [d EXCEPT !.links = f]
    BY <1>0, <1>2
  <2>2. d' \in Reads /\ d'.teams = d.teams /\ d'.free = d.free /\ d'.said = d.said
    BY <1>0, <2>1 DEF Reads
  <2>3. d'.invited = d.invited /\ d'.confirmed = d.confirmed
    BY <1>0, <2>1 DEF Reads
  <2>. QED
    BY <2>2, <2>3
<1>. QED
  BY <1>1, <1>2 DEF StoredLinksAndConfirmations

\* Reading the links and the confirmation keeps the types.
LEMMA StoredType ==
    TypeInv /\ StoredLinksAndConfirmations => TypeInv'
<1>. SUFFICES ASSUME TypeInv, StoredLinksAndConfirmations PROVE TypeInv'
  OBVIOUS
<1>1. d' \in Reads /\ d'.teams = d.teams /\ d'.free = d.free /\ d'.said = d.said
  BY StoredReads
<1>2. events' \in 0..MaxEvents
  BY DEF StoredLinksAndConfirmations, Event, TypeInv, TypeOK
<1>. QED
  BY <1>1, <1>2 DEF StoredLinksAndConfirmations, NowGone, NowLacking, TypeInv, TypeOK, Shape, directory, github, console, process

\* The read of the members is about the members only.
LEMMA MembersReads ==
    ASSUME TypeInv, ReadMembers
    PROVE  /\ d' \in Reads /\ d'.teams = d.teams /\ d'.free = d.free /\ d'.said = d.said
           /\ d'.invited = d.invited /\ d'.confirmed = d.confirmed
<1>0. d \in Reads /\ member \in SUBSET Login /\ owner \in SUBSET Login /\ shows \in [Login -> SUBSET Email]
  BY DEF TypeInv, TypeOK
<1>1. PICK m \in SUBSET Login, o \in SUBSET Login, w \in [Login -> SUBSET Email] :
         d' = [d EXCEPT !.members = m, !.owner = o, !.shows = w]
  BY <1>0 DEF ReadMembers
<1>2. d' \in Reads
  BY <1>0, <1>1 DEF Reads
<1>3. d'.teams = d.teams /\ d'.free = d.free /\ d'.said = d.said
  BY <1>0, <1>1 DEF Reads
<1>4. d'.invited = d.invited /\ d'.confirmed = d.confirmed
  BY <1>0, <1>1 DEF Reads
<1>. QED
  BY <1>2, <1>3, <1>4

\* Reading the members keeps the types.
LEMMA MembersType ==
    TypeInv /\ ReadMembers => TypeInv'
<1>. SUFFICES ASSUME TypeInv, ReadMembers PROVE TypeInv'
  OBVIOUS
<1>1. d' \in Reads /\ d'.teams = d.teams /\ d'.free = d.free /\ d'.said = d.said
  BY MembersReads
<1>. QED
  BY <1>1 DEF ReadMembers, TypeInv, TypeOK, Shape, directory, github, console, process

\* The read of the teams is also of who is invited at that moment.
LEMMA TeamsReads ==
    ASSUME TypeInv, ReadInvitationsAndTeams
    PROVE  /\ d' \in Reads /\ d'.teams = teams /\ d'.free = d.free /\ d'.said = d.said
           /\ d'.invited = Inviting /\ d'.confirmed = d.confirmed
<1>0. /\ d \in Reads /\ teams \in SUBSET Team /\ roles \in TeamRoles
      /\ Inviting \in SUBSET Login
      /\ d' = [d EXCEPT !.invited = Inviting, !.teams = teams, !.roles = roles]
  BY DEF TypeInv, TypeOK, ReadInvitationsAndTeams, Inviting
<1>1. PICK i : i = Inviting
  OBVIOUS
<1>2. PICK r : r = roles
  OBVIOUS
<1>3. d' = [d EXCEPT !.invited = i, !.teams = teams, !.roles = r]
  BY <1>0, <1>1, <1>2
<1>4. d' \in Reads
  BY <1>0, <1>1, <1>2, <1>3 DEF Reads
<1>5. d'.teams = teams /\ d'.free = d.free /\ d'.said = d.said
  BY <1>0, <1>1, <1>2, <1>3 DEF Reads
<1>6. d'.invited = i /\ d'.confirmed = d.confirmed
  BY <1>0, <1>1, <1>2, <1>3 DEF Reads
<1>. QED
  BY <1>1, <1>4, <1>5, <1>6

\* Reading the teams keeps the types.
LEMMA TeamsType ==
    TypeInv /\ ReadInvitationsAndTeams => TypeInv'
<1>. SUFFICES ASSUME TypeInv, ReadInvitationsAndTeams PROVE TypeInv'
  OBVIOUS
<1>1. d' \in Reads /\ d'.teams = teams /\ d'.free = d.free /\ d'.said = d.said
  BY TeamsReads
<1>2. \A a \in actions : Shaped(a, d'.teams)
  BY <1>1 DEF Shaped, TypeInv, Shape
<1>. QED
  BY <1>1, <1>2 DEF ReadInvitationsAndTeams, TypeInv, TypeOK, Shape, directory, github, console, process

\* A profile that matches is a link, in the store and in the pass.
LEMMA MatchReads ==
    ASSUME TypeInv, MatchProfiles
    PROVE  /\ d' \in Reads /\ d'.teams = d.teams /\ d'.free = d.free /\ d'.said = d.said
           /\ d'.invited = d.invited /\ d'.confirmed = d.confirmed
           /\ links' \in [Login -> LinkRecord]
<1>1. PICK l \in d.members, e \in has :
         /\ links' = [links EXCEPT ![l] = [state |-> "active", emails |-> {e}]]
         /\ d' = [d EXCEPT !.links = [@ EXCEPT ![l] = links'[l]]]
  BY DEF MatchProfiles
<1>2. /\ d \in Reads /\ d.links \in [Login -> LinkRecord] /\ d.members \subseteq Login
      /\ links \in [Login -> LinkRecord] /\ e \in Email
  BY ReadsFields DEF TypeInv, TypeOK
<1>3. [state |-> "active", emails |-> {e}] \in LinkRecord
  BY <1>2 DEF LinkRecord, LinkState
<1>4. links' \in [Login -> LinkRecord]
  BY <1>1, <1>2, <1>3
<1>5. [d.links EXCEPT ![l] = links'[l]] \in [Login -> LinkRecord]
  BY <1>2, <1>4
<1>6. PICK f \in [Login -> LinkRecord] : d' = [d EXCEPT !.links = f]
  BY <1>1, <1>5
<1>7. d' \in Reads
  BY <1>2, <1>6 DEF Reads
<1>8. d'.teams = d.teams /\ d'.free = d.free /\ d'.said = d.said
  BY <1>2, <1>6 DEF Reads
<1>9. d'.invited = d.invited /\ d'.confirmed = d.confirmed
  BY <1>2, <1>6 DEF Reads
<1>. QED
  BY <1>4, <1>7, <1>8, <1>9

\* Matching profiles keeps the types.
LEMMA MatchType ==
    TypeInv /\ MatchProfiles => TypeInv'
<1>. SUFFICES ASSUME TypeInv, MatchProfiles PROVE TypeInv'
  OBVIOUS
<1>1. d' \in Reads /\ d'.teams = d.teams /\ d'.free = d.free /\ d'.said = d.said
      /\ links' \in [Login -> LinkRecord]
  BY MatchReads
<1>2. events' \in 0..MaxEvents
  BY DEF MatchProfiles, Event, TypeInv, TypeOK
<1>. QED
  BY <1>1, <1>2 DEF MatchProfiles, TypeInv, TypeOK, Shape, directory, github, process

\* The read of the holders is about the holders only.
LEMMA HoldersReads ==
    ASSUME TypeInv, NEW g \in Group, Holders(g)
    PROVE  /\ d' \in Reads /\ d'.teams = d.teams /\ d'.free = d.free /\ d'.said = d.said
           /\ d'.invited = d.invited /\ d'.confirmed = d.confirmed
<1>1. PICK list \in SUBSET {e \in has : g \in holds[e]} :
         d' = [d EXCEPT !.listed = @ \cup {g}, !.holders = [@ EXCEPT ![g] = list]]
  BY DEF Holders
<1>2. /\ d \in Reads /\ d.listed \cup {g} \in SUBSET Group
      /\ d.holders \in [Group -> SUBSET Email] /\ list \subseteq Email
  BY ReadsFields DEF TypeInv, TypeOK
<1>3. [d.holders EXCEPT ![g] = list] \in [Group -> SUBSET Email]
  BY <1>2
<1>4. PICK n \in SUBSET Group, f \in [Group -> SUBSET Email] : d' = [d EXCEPT !.listed = n, !.holders = f]
  BY <1>1, <1>2, <1>3
<1>5. d' \in Reads
  BY <1>2, <1>4 DEF Reads
<1>6. d'.teams = d.teams /\ d'.free = d.free /\ d'.said = d.said
  BY <1>2, <1>4 DEF Reads
<1>7. d'.invited = d.invited /\ d'.confirmed = d.confirmed
  BY <1>2, <1>4 DEF Reads
<1>. QED
  BY <1>5, <1>6, <1>7

\* Reading who holds a group keeps the types.
LEMMA HoldersType ==
    ASSUME NEW g \in Group
    PROVE  TypeInv /\ Holders(g) => TypeInv'
<1>. SUFFICES ASSUME TypeInv, Holders(g) PROVE TypeInv'
  OBVIOUS
<1>1. d' \in Reads /\ d'.teams = d.teams /\ d'.free = d.free /\ d'.said = d.said
  BY HoldersReads
<1>2. events' \in 0..MaxEvents
  BY DEF Holders, Event, TypeInv, TypeOK
<1>3. at' \in {"holders", "plan"}
  BY DEF Holders
<1>. QED
  BY <1>1, <1>2, <1>3 DEF Holders, TypeInv, TypeOK, Shape, directory, github, console, process

\* Accounts can be counted.
LEMMA CardNat ==
    ASSUME NEW S, S \subseteq Login
    PROVE  IsFiniteSet(S) /\ Cardinality(S) \in Nat
  BY FS_Subset, FS_CardinalityType

\* There are never fewer than no seats free.
LEMMA FreeNat ==
    ASSUME NEW n \in Nat, NEW p \in Nat, seats \in Nat
    PROVE  Free(n, p) \in Nat
  BY DEF Free

\* The seats left are none, or what GitHub and the pass count.
LEMMA GuardsReads ==
    ASSUME TypeInv, ReadGuards
    PROVE  /\ d' \in Reads /\ d'.teams = d.teams /\ d'.said = d.said
           /\ d'.invited = d.invited /\ d'.confirmed = d.confirmed
           /\ d'.free \in {d.free, Free(Cardinality(member), Cardinality(d.invited))}
<1>. DEFINE free == Free(Cardinality(member), Cardinality(d.invited))
<1>1. /\ d \in Reads /\ d.invited \subseteq Login /\ member \subseteq Login /\ seats \in Nat
      /\ expired \in [Login -> 0..IgnoredAfter]
  BY ReadsFields DEF TypeInv, TypeOK
<1>2. free \in Nat
  BY <1>1, CardNat, FreeNat
<1>. HIDE DEF free
<1>3. CASE d' = [d EXCEPT !.free = free, !.expired = expired]
  <2>1. PICK x : x = expired
    OBVIOUS
  <2>2. d' = [d EXCEPT !.free = free, !.expired = x]
    BY <1>3, <2>1
  <2>3. d' \in Reads /\ d'.teams = d.teams /\ d'.said = d.said
    BY <1>1, <1>2, <2>1, <2>2 DEF Reads
  <2>4. d'.invited = d.invited /\ d'.confirmed = d.confirmed /\ d'.free = free
    BY <1>1, <1>2, <2>1, <2>2 DEF Reads
  <2>. QED
    BY <2>3, <2>4 DEF free
<1>4. CASE d' = [d EXCEPT !.free = free]
  <2>1. d' \in Reads /\ d'.teams = d.teams /\ d'.said = d.said
    BY <1>1, <1>2, <1>4 DEF Reads
  <2>2. d'.invited = d.invited /\ d'.confirmed = d.confirmed /\ d'.free = free
    BY <1>1, <1>2, <1>4 DEF Reads
  <2>. QED
    BY <2>1, <2>2 DEF free
<1>5. CASE d' = [d EXCEPT !.expired = expired]
  <2>1. PICK x \in [Login -> 0..IgnoredAfter] : d' = [d EXCEPT !.expired = x]
    BY <1>1, <1>5
  <2>2. d' \in Reads /\ d'.teams = d.teams /\ d'.said = d.said
    BY <1>1, <2>1 DEF Reads
  <2>3. d'.invited = d.invited /\ d'.confirmed = d.confirmed /\ d'.free = d.free
    BY <1>1, <2>1 DEF Reads
  <2>. QED
    BY <2>2, <2>3
<1>. QED
  BY <1>3, <1>4, <1>5 DEF ReadGuards, free

\* Reading the seats keeps the types.
LEMMA GuardsType ==
    TypeInv /\ ReadGuards => TypeInv'
<1>. SUFFICES ASSUME TypeInv, ReadGuards PROVE TypeInv'
  OBVIOUS
<1>1. d' \in Reads /\ d'.teams = d.teams /\ d'.said = d.said
  BY GuardsReads
<1>2. events' \in 0..MaxEvents
  BY DEF ReadGuards, Event, TypeInv, TypeOK
<1>. QED
  BY <1>1, <1>2 DEF ReadGuards, TypeInv, TypeOK, Shape, directory, github, console, process

\* What a vouched answer adds to what was said.
LEMMA VouchDoes ==
    ASSUME TypeInv, NEW e \in Email, Vouch(e)
    PROVE  \E sure \in BOOLEAN :
             /\ d' \in Reads /\ d'.teams = d.teams /\ d'.confirmed = d.confirmed /\ d'.free = d.free
             /\ DOMAIN d'.said = DOMAIN d.said \cup {e}
             /\ \A x \in DOMAIN d.said : x # e => d'.said[x] = d.said[x]
             /\ d'.said[e] = [sure |-> sure, live |-> sure /\ e \in has,
                              holds |-> IF sure THEN holds[e] ELSE {}]
<1>1. PICK sure \in BOOLEAN :
         d' = [d EXCEPT !.said = [x \in DOMAIN @ \cup {e} |->
                  IF x # e THEN @[x]
                  ELSE [sure |-> sure, live |-> sure /\ e \in has, holds |-> IF sure THEN holds[e] ELSE {}]]]
  BY DEF Vouch
<1>. DEFINE ans == [sure |-> sure, live |-> sure /\ e \in has, holds |-> IF sure THEN holds[e] ELSE {}]
            new == [x \in DOMAIN d.said \cup {e} |-> IF x # e THEN d.said[x] ELSE ans]
<1>2. d \in Reads /\ holds[e] \subseteq Group /\ DOMAIN d.said \subseteq Email
      /\ \A x \in DOMAIN d.said : d.said[x] \in AnswerRecord
  BY ReadsFields DEF TypeInv, TypeOK
<1>3. ans \in AnswerRecord
  BY <1>2 DEF AnswerRecord
<1>4. d' = [d EXCEPT !.said = new]
  BY <1>1, <1>2
<1>. HIDE DEF ans
<1>5. new \in [DOMAIN d.said \cup {e} -> AnswerRecord]
  BY <1>2, <1>3
<1>6. new \in UNION {[asked -> AnswerRecord] : asked \in SUBSET Email}
  BY <1>2, <1>5
<1>7. DOMAIN new = DOMAIN d.said \cup {e} /\ new[e] = ans /\ \A x \in DOMAIN d.said : x # e => new[x] = d.said[x]
  OBVIOUS
<1>. HIDE DEF new
<1>8. d' \in Reads /\ d'.said = new /\ d'.teams = d.teams /\ d'.confirmed = d.confirmed /\ d'.free = d.free
  <2>1. d' \in Reads
    BY <1>2, <1>4, <1>6 DEF Reads
  <2>2. d'.said = new /\ d'.teams = d.teams /\ d'.confirmed = d.confirmed /\ d'.free = d.free
    BY <1>2, <1>4, <1>6 DEF Reads
  <2>. QED
    BY <2>1, <2>2
<1>9. d'.said[e] = ans
  BY <1>7, <1>8
<1>. QED
  BY <1>7, <1>8, <1>9 DEF ans

\* An answer keeps the types.
LEMMA VouchType ==
    ASSUME NEW e \in Email
    PROVE  TypeInv /\ Vouch(e) => TypeInv'
<1>. SUFFICES ASSUME TypeInv, Vouch(e) PROVE TypeInv'
  OBVIOUS
<1>1. d' \in Reads /\ d'.teams = d.teams
  BY VouchDoes
<1>2. events' \in 0..MaxEvents
  BY DEF Vouch, Event, TypeInv, TypeOK
<1>. QED
  BY <1>1, <1>2 DEF Vouch, TypeInv, TypeOK, Shape, directory, github, console, process

-----------------------------------------------------------------------------
(* What is decided.                                                        *)

\* An account has work addresses,
LEMMA EmailsOfType ==
    ASSUME d \in Reads, NEW l
    PROVE  EmailsOf(l) \subseteq Email
<1>1. d.links \in [Login -> LinkRecord] /\ d.members \subseteq Login /\ d.shows \in [Login -> SUBSET Email]
  BY ReadsFields
<1>. QED
  BY <1>1 DEF EmailsOf, LinkRecord

\* and an address at most one account that can act for it.
LEMMA LoginOfType ==
    ASSUME d \in Reads, NEW e
    PROVE  LoginOf(e) \in Login \cup {None}
<1>1. Claimants(e) \subseteq Login
  BY ReadsFields DEF Claimants
<1>2. IsFiniteSet(Claimants(e))
  BY <1>1, CardNat
<1>3. ASSUME Cardinality(Claimants(e)) = 1 PROVE \E l \in Login : l \in Claimants(e)
  BY <1>1, <1>2, <1>3, FS_Singleton
<1>. QED
  BY <1>3 DEF LoginOf

\* The role an address is to have is a role, or none.
LEMMA DesiredType ==
    ASSUME NEW s, NEW e
    PROVE  Desired(s, e) \in Role \cup {None}
  BY DEF Desired, Role

\* The row of a wanted address is a row, and work in a team only where there is the team and
\* an account.
LEMMA WantedType ==
    ASSUME d \in Reads, NEW s \in Scope, NEW e \in Email
    PROVE  /\ Wanted(s, e) \in RowRecord
           /\ Wanted(s, e).scope = s /\ Wanted(s, e).email = e
           /\ Wanted(s, e).state = "pending" /\ Wanted(s, e).action \in {"add", "setrole"} =>
                s \in d.teams /\ Wanted(s, e).login \in Login
<1>. DEFINE l == LoginOf(e)
            out == IF Outside(e) = {} THEN None ELSE CHOOSE x \in Outside(e) : TRUE
<1>1. l \in Login \cup {None}
  BY LoginOfType
<1>2. out \in Login \cup {None}
  BY DEF Outside
<1>. HIDE DEF l, out
<1>4. \/ Wanted(s, e) = Row(s, e, l, "held", "add")
      \/ Wanted(s, e) = Row(s, e, out, "invited", "")
      \/ Wanted(s, e) = Row(s, e, out, "held", "invite")
      \/ Wanted(s, e) = Row(s, e, None, "notlinked", "")
      \/ Wanted(s, e) = Row(s, e, out, "pending", "invite")
      \/ Wanted(s, e) = Row(s, e, l, "synced", "")
      \/ ~NoTeam(s) /\ l # None /\ s # Org /\ Wanted(s, e) = Row(s, e, l, "pending", "add")
      \/ Wanted(s, e) = Row(s, e, l, "reported", "")
      \/ ~NoTeam(s) /\ l # None /\ s # Org /\ Wanted(s, e) = Row(s, e, l, "pending", "setrole")
  BY Zenon DEF Wanted, l, out
<1>5. ASSUME NEW o \in Login \cup {None}, NEW st \in RowState, NEW act \in Kind \cup {""},
             st = "pending" /\ act \in {"add", "setrole"} => s \in d.teams /\ o \in Login,
             NEW w, w = Row(s, e, o, st, act)
      PROVE  /\ w \in RowRecord
             /\ w.scope = s /\ w.email = e
             /\ w.state = "pending" /\ w.action \in {"add", "setrole"} =>
                  s \in d.teams /\ w.login \in Login
  <2>1. w = Row(s, e, o, st, act)
    BY <1>5
  <2>2. e \in Email \cup {None}
    OBVIOUS
  <2>3. /\ w \in RowRecord /\ w.scope = s /\ w.email = e
        /\ w.state = st /\ w.action = act /\ w.login = o
    <3>1. w \in RowRecord
      BY <2>1, <2>2 DEF Row, RowRecord
    <3>2. w.scope = s /\ w.email = e
      BY <2>1 DEF Row
    <3>3. w.state = st
      BY <2>1 DEF Row
    <3>4. w.action = act
      BY <2>1 DEF Row
    <3>5. w.login = o
      BY <2>1 DEF Row
    <3>. QED
      BY <3>1, <3>2, <3>3, <3>4, <3>5
  <2>. QED
    BY <2>3, <1>5
<1>6. ~NoTeam(s) /\ l # None /\ s # Org => s \in d.teams /\ l \in Login
  BY <1>1 DEF NoTeam
<1>n. /\ {"held", "invited", "notlinked", "pending", "synced", "reported"} \subseteq RowState
      /\ {"add", "invite", "setrole", ""} \subseteq Kind \cup {""}
      /\ None \in Login \cup {None}
      /\ \A st \in {"held", "invited", "notlinked", "synced", "reported"} : st # "pending"
      /\ "invite" \notin {"add", "setrole"}
  BY DEF RowState, Kind
<1>7. CASE Wanted(s, e) = Row(s, e, l, "held", "add")
  BY <1>1, <1>2, <1>5, <1>6, <1>n, <1>7
<1>8. CASE Wanted(s, e) = Row(s, e, out, "invited", "")
  BY <1>1, <1>2, <1>5, <1>6, <1>n, <1>8
<1>9. CASE Wanted(s, e) = Row(s, e, out, "held", "invite")
  BY <1>1, <1>2, <1>5, <1>6, <1>n, <1>9
<1>10. CASE Wanted(s, e) = Row(s, e, None, "notlinked", "")
  BY <1>5, <1>n, <1>10
<1>11. CASE Wanted(s, e) = Row(s, e, out, "pending", "invite")
  BY <1>1, <1>2, <1>5, <1>6, <1>n, <1>11
<1>12. CASE Wanted(s, e) = Row(s, e, l, "synced", "")
  BY <1>1, <1>2, <1>5, <1>6, <1>n, <1>12
<1>13. CASE ~NoTeam(s) /\ l # None /\ s # Org /\ Wanted(s, e) = Row(s, e, l, "pending", "add")
  BY <1>1, <1>2, <1>5, <1>6, <1>n, <1>13
<1>14. CASE Wanted(s, e) = Row(s, e, l, "reported", "")
  BY <1>1, <1>2, <1>5, <1>6, <1>n, <1>14
<1>15. CASE ~NoTeam(s) /\ l # None /\ s # Org /\ Wanted(s, e) = Row(s, e, l, "pending", "setrole")
  BY <1>1, <1>2, <1>5, <1>6, <1>n, <1>15
<1>. QED
  BY <1>4, <1>7, <1>8, <1>9, <1>10, <1>11, <1>12, <1>13, <1>14, <1>15

\* So are all the rows of wanted addresses,
LEMMA WantedRowsType ==
    ASSUME d \in Reads
    PROVE  WantedRows \subseteq RowRecord
  BY WantedType DEF WantedRows

\* (any element of a set is one of it, or there is none)
LEMMA AnyOfType ==
    ASSUME NEW S, NEW T, S \subseteq T
    PROVE  AnyOf(S) \in T \cup {None}
  BY DEF AnyOf

\* the rows of those in a team nothing wants in it,
LEMMA SurplusRowType ==
    ASSUME d \in Reads, NEW p \in Surplus
    PROVE  SurplusRow(p[1], p[2]) \in RowRecord
<1>1. p[1] \in Scope /\ p[2] \in Login
  BY ReadsFields DEF Surplus, Scope
<1>2. AnyOf(EmailsOf(p[2])) \in Email \cup {None}
  BY EmailsOfType, AnyOfType
<1>. DEFINE e == AnyOf(EmailsOf(p[2]))
<1>3. \A st \in RowState, act \in Kind \cup {""} : Row(p[1], e, p[2], st, act) \in RowRecord
  BY <1>1, <1>2 DEF Row, RowRecord
<1>. HIDE DEF e
<1>4. \/ SurplusRow(p[1], p[2]) = Row(p[1], e, p[2], "reported", "")
      \/ SurplusRow(p[1], p[2]) = Row(p[1], e, p[2], "leaving", "remove")
      \/ SurplusRow(p[1], p[2]) = Row(p[1], e, p[2], "retrying", "remove")
      \/ SurplusRow(p[1], p[2]) = Row(p[1], e, p[2], "synced", "")
  BY DEF SurplusRow, e
<1>. QED
  BY <1>3, <1>4 DEF RowState, Kind

\* the rows of those who leave,
LEMMA LeaverRowType ==
    ASSUME d \in Reads, NEW l \in Leavers
    PROVE  LeaverRow(l) \in RowRecord
<1>1. l \in Login
  BY ReadsFields DEF Leavers, Lost
<1>2. EmailsOf(l) \cup d.links[l].emails \subseteq Email
  BY <1>1, EmailsOfType, ReadsFields DEF LinkRecord
<1>3. AnyOf(EmailsOf(l) \cup d.links[l].emails) \in Email \cup {None}
  BY <1>2, AnyOfType
<1>. DEFINE e == AnyOf(EmailsOf(l) \cup d.links[l].emails)
<1>4. \A st \in RowState, act \in Kind \cup {""} : Row(Org, e, l, st, act) \in RowRecord
  BY <1>1, <1>3 DEF Row, RowRecord, Scope
<1>. HIDE DEF e
<1>5. \/ LeaverRow(l) = Row(Org, e, l, "reported", "")
      \/ LeaverRow(l) = Row(Org, e, l, "leaving", "remove")
  BY DEF LeaverRow, e
<1>. QED
  BY <1>4, <1>5 DEF RowState, Kind

\* and so all the rows.
LEMMA DecidedRowsType ==
    ASSUME d \in Reads
    PROVE  DecidedRows \subseteq RowRecord
  BY WantedRowsType, SurplusRowType, LeaverRowType DEF DecidedRows

\* Every change decided is an invitation, a change in a team that exists, or a removal
\* that has its reason.
LEMMA DecidedDoes ==
    ASSUME d \in Reads, NEW a \in DecidedActions
    PROVE  /\ a \in ActionRecord
           /\ Shaped(a, d.teams)
           /\ a.kind = "remove" =>
                /\ a.login \notin d.owner
                /\ \/ a.scope = Org /\ a.login \in Leavers
                   \/ a.scope # Org /\ Removal(a.scope, EmailsOf(a.login))
<1>. DEFINE leaving == Leavers \ d.owner
<1>0. /\ d.teams \subseteq Team /\ d.members \subseteq Login
  BY ReadsFields
<1>1. \A k \in Kind, s \in Scope, l \in Login, r \in Role \cup {None} :
        /\ Act(k, s, l, r) \in ActionRecord
        /\ Act(k, s, l, r).kind = k /\ Act(k, s, l, r).scope = s
        /\ Act(k, s, l, r).login = l /\ Act(k, s, l, r).role = r
  BY DEF Act, ActionRecord
<1>2. \/ \E e \in Email : Invitable(e) /\ a = Act("invite", Org, AnyOf(Outside(e)), "member")
      \/ \E r \in WantedRows : /\ r.state = "pending" /\ r.action \in {"add", "setrole"}
                               /\ a = Act(r.action, r.scope, r.login, Desired(r.scope, r.email))
      \/ \E p \in Surplus : /\ p[2] \notin d.owner /\ Removal(p[1], EmailsOf(p[2]))
                            /\ a = Act("remove", p[1], p[2], None)
      \/ \E l \in leaving : a = Act("remove", Org, l, None)
  BY DEF DecidedActions
<1>3. CASE \E e \in Email : Invitable(e) /\ a = Act("invite", Org, AnyOf(Outside(e)), "member")
  <2>1. PICK e \in Email : Invitable(e) /\ a = Act("invite", Org, AnyOf(Outside(e)), "member")
    BY <1>3
  <2>2. Outside(e) # {} /\ Outside(e) \subseteq Login
    BY <2>1 DEF Invitable, Outside
  <2>3. AnyOf(Outside(e)) \in Login
    BY <2>2 DEF AnyOf
  <2>. QED
    BY <1>1, <2>1, <2>3 DEF Shaped, Kind, Scope, Role
<1>4. CASE \E r \in WantedRows : /\ r.state = "pending" /\ r.action \in {"add", "setrole"}
                                 /\ a = Act(r.action, r.scope, r.login, Desired(r.scope, r.email))
  <2>1. PICK r \in WantedRows : /\ r.state = "pending" /\ r.action \in {"add", "setrole"}
                                /\ a = Act(r.action, r.scope, r.login, Desired(r.scope, r.email))
    BY <1>4
  <2>2. PICK s \in Scope, e \in Email : Desired(s, e) # None /\ r = Wanted(s, e)
    BY <2>1 DEF WantedRows
  <2>3. r.scope = s /\ r.email = e /\ s \in d.teams /\ r.login \in Login
    BY <2>1, <2>2, WantedType
  <2>4. Desired(s, e) \in Role
    BY <2>2, DesiredType
  <2>5. a.kind \in {"add", "setrole"} /\ a.scope \in d.teams /\ a.role \in Role /\ a \in ActionRecord
    BY <1>1, <2>1, <2>2, <2>3, <2>4 DEF Kind
  <2>. QED
    BY <2>5 DEF Shaped
<1>5. CASE \E p \in Surplus : /\ p[2] \notin d.owner /\ Removal(p[1], EmailsOf(p[2]))
                              /\ a = Act("remove", p[1], p[2], None)
  <2>1. PICK p \in Surplus : /\ p[2] \notin d.owner /\ Removal(p[1], EmailsOf(p[2]))
                             /\ a = Act("remove", p[1], p[2], None)
    BY <1>5
  <2>2. p[1] \in d.teams /\ p[1] \in Scope /\ p[1] # Org /\ p[2] \in Login
    BY <1>0 DEF Surplus, Scope
  <2>3. a \in ActionRecord /\ a.kind = "remove" /\ a.scope = p[1] /\ a.login = p[2] /\ a.role = None
    BY <1>1, <2>1, <2>2 DEF Kind
  <2>. QED
    BY <2>1, <2>2, <2>3 DEF Shaped
<1>6. CASE \E l \in leaving : a = Act("remove", Org, l, None)
  <2>1. PICK l \in leaving : a = Act("remove", Org, l, None)
    BY <1>6
  <2>2. l \in Login /\ l \in Leavers /\ l \notin d.owner
    BY <1>0 DEF Leavers, Lost
  <2>3. a \in ActionRecord /\ a.kind = "remove" /\ a.scope = Org /\ a.login = l /\ a.role = None
    BY <1>1, <2>1, <2>2 DEF Kind, Scope
  <2>. QED
    BY <2>2, <2>3 DEF Shaped
<1>. QED
  BY <1>2, <1>3, <1>4, <1>5, <1>6

\* A mark changes the state and the action of rows, nothing else.
LEMMA MarkedType ==
    ASSUME NEW rs, rs \subseteq RowRecord, NEW as, NEW st \in RowState, NEW act \in Kind \cup {"", "same"}
    PROVE  Marked(rs, as, st, act) \subseteq RowRecord
<1>1. ASSUME NEW r \in RowRecord
      PROVE  [r EXCEPT !.state = st, !.action = IF act = "same" THEN @ ELSE act] \in RowRecord
  BY DEF RowRecord, Kind
<1>. QED
  BY <1>1 DEF Marked

\* The changes and rows a guard lets through: a part of the changes decided, with no more
\* invitations than there are free seats, and either no removals or removals few enough or
\* confirmed.
LEMMA GuardDoes ==
    ASSUME TypeInv, NEW as, as \subseteq ActionRecord, NEW rs, rs \subseteq RowRecord, Guard(as, rs)
    PROVE  /\ d' \in Reads
           /\ d'.links = d.links /\ d'.confirmed = d.confirmed /\ d'.members = d.members
           /\ d'.owner = d.owner /\ d'.shows = d.shows /\ d'.teams = d.teams
           /\ d'.free = d.free /\ d'.said = d.said
           /\ actions' \subseteq as /\ rows' \subseteq RowRecord
           /\ \/ Removals(actions') = {}
              \/ ~Breaks(actions')
           /\ IsFiniteSet(Invites(as)) => /\ IsFiniteSet(Invites(actions'))
                                          /\ Cardinality(Invites(actions')) <= d.free
<1>. DEFINE tired == {a \in as : a.kind = "invite" /\ d.expired[a.login] >= IgnoredAfter}
            fresh == {a \in as : a.kind = "invite"} \ tired
            room == IF Cardinality(fresh) < d.free THEN Cardinality(fresh) ELSE d.free
            fits(seated) == (as \ tired) \ (fresh \ seated)
            rows1(seated) == Marked(Marked(rs, tired, "ignored", ""), fresh \ seated, "held", "same")
            over(seated) == Cardinality(Affected(fits(seated))) * 2 > Cardinality(d.members)
<1>1. PICK seated \in kSubset(room, fresh) :
        /\ d' = [d EXCEPT !.breaker = IF over(seated) THEN Removals(fits(seated)) ELSE {}]
        /\ IF Breaks(fits(seated))
           THEN /\ actions' = fits(seated) \ Removals(fits(seated))
                /\ rows' = Marked(rows1(seated), Removals(fits(seated)), "held", "same")
           ELSE actions' = fits(seated) /\ rows' = rows1(seated)
  BY DEF Guard
<1>2. d \in Reads /\ d.free \in Nat
  BY ReadsFields DEF TypeInv, TypeOK
<1>3. seated \subseteq fresh /\ Cardinality(seated) = room
  BY DEF kSubset
<1>4. fits(seated) \subseteq as /\ Invites(fits(seated)) \subseteq seated
  BY DEF Invites
<1>5. rows1(seated) \subseteq RowRecord
  <2>1. Marked(rs, tired, "ignored", "") \subseteq RowRecord
    BY MarkedType DEF RowState
  <2>. QED
    BY <2>1, MarkedType DEF RowState
<1>. HIDE DEF tired, fresh, room, fits, rows1, over
<1>6. Removals(fits(seated)) \subseteq ActionRecord
  BY <1>4 DEF Removals
<1>7. /\ d' \in Reads
      /\ d'.links = d.links /\ d'.confirmed = d.confirmed /\ d'.members = d.members
      /\ d'.owner = d.owner /\ d'.shows = d.shows /\ d'.teams = d.teams
      /\ d'.free = d.free /\ d'.said = d.said
  <2>1. PICK b \in SUBSET ActionRecord : d' = [d EXCEPT !.breaker = b]
    BY <1>1, <1>6
  <2>2. d' \in Reads
    BY <1>2, <2>1 DEF Reads
  <2>3. d'.links = d.links /\ d'.confirmed = d.confirmed /\ d'.members = d.members
    BY <1>2, <2>1 DEF Reads
  <2>4. d'.owner = d.owner /\ d'.shows = d.shows /\ d'.teams = d.teams
    BY <1>2, <2>1 DEF Reads
  <2>5. d'.free = d.free /\ d'.said = d.said
    BY <1>2, <2>1 DEF Reads
  <2>. QED
    BY <2>2, <2>3, <2>4, <2>5
<1>8. actions' \subseteq fits(seated) /\ rows' \subseteq RowRecord
  <2>1. Marked(rows1(seated), Removals(fits(seated)), "held", "same") \subseteq RowRecord
    BY <1>5, MarkedType DEF RowState
  <2>. QED
    BY <1>1, <1>5, <2>1
<1>9. \/ Removals(actions') = {}
      \/ ~Breaks(actions')
  BY <1>1 DEF Removals
<1>10. ASSUME IsFiniteSet(Invites(as))
       PROVE  IsFiniteSet(Invites(actions')) /\ Cardinality(Invites(actions')) <= d.free
  <2>1. fresh \subseteq Invites(as)
    BY DEF Invites, fresh
  <2>2. IsFiniteSet(fresh) /\ Cardinality(fresh) \in Nat
    BY <1>10, <2>1, FS_Subset, FS_CardinalityType
  <2>3. room <= d.free
    BY <1>2, <2>2 DEF room
  <2>4. IsFiniteSet(seated) /\ Cardinality(seated) \in Nat
    BY <1>3, <2>2, FS_Subset, FS_CardinalityType
  <2>5. Invites(actions') \subseteq seated
    BY <1>4, <1>8 DEF Invites
  <2>6. IsFiniteSet(Invites(actions')) /\ Cardinality(Invites(actions')) <= Cardinality(seated)
        /\ Cardinality(Invites(actions')) \in Nat
    BY <2>4, <2>5, FS_Subset, FS_CardinalityType
  <2>. QED
    BY <1>2, <1>3, <2>3, <2>4, <2>6
<1>. QED
  BY <1>4, <1>7, <1>8, <1>9, <1>10

\* What deciding and guarding leave of the pass, and what they let through.
LEMMA DecideDoes ==
    ASSUME TypeInv, DecideAndGuard
    PROVE  /\ d' \in Reads
           /\ d'.links = d.links /\ d'.confirmed = d.confirmed /\ d'.members = d.members
           /\ d'.owner = d.owner /\ d'.shows = d.shows /\ d'.teams = d.teams
           /\ d'.free = d.free /\ d'.said = d.said
           /\ actions' \subseteq DecidedActions /\ rows' \subseteq RowRecord
           /\ \/ Removals(actions') = {}
              \/ ~Breaks(actions')
           /\ IsFiniteSet(Invites(actions'))
           /\ Cardinality(Invites(actions')) <= d.free
<1>1. d \in Reads /\ DecidedActions \subseteq ActionRecord /\ DecidedRows \subseteq RowRecord
  BY DecidedDoes, DecidedRowsType DEF TypeInv, TypeOK
<1>2. IsFiniteSet(Invites(DecidedActions))
  <2>. DEFINE I == Invites(DecidedActions)
              f == [a \in I |-> a.login]
  <2>1. \A a \in I : a \in ActionRecord /\ a.kind = "invite" /\ a.scope = Org /\ a.role = "member"
    BY <1>1, DecidedDoes DEF Invites, Shaped
  <2>2. \A a \in I : a.login \in Login
    BY <2>1 DEF ActionRecord
  <2>3. f \in [I -> Login]
    BY <2>2
  <2>4. \A a, b \in I : a.login = b.login => a = b
    BY <2>1 DEF ActionRecord
  <2>5. f \in Injection(I, Login)
    BY <2>3, <2>4 DEF Injection, IsInjective
  <2>. QED
    BY <2>5, FS_Injection
<1>3. Guard(DecidedActions, DecidedRows)
  BY DEF DecideAndGuard
<1>. HIDE DEF DecidedActions, DecidedRows
<1>. QED
  BY <1>1, <1>2, <1>3, GuardDoes

\* Deciding keeps the types.
LEMMA DecideType ==
    TypeInv /\ DecideAndGuard => TypeInv'
<1>. SUFFICES ASSUME TypeInv, DecideAndGuard PROVE TypeInv'
  OBVIOUS
<1>1. d' \in Reads /\ d'.teams = d.teams /\ rows' \subseteq RowRecord
  BY DecideDoes
<1>2. actions' \subseteq ActionRecord /\ \A a \in actions' : Shaped(a, d.teams)
  BY DecideDoes, DecidedDoes DEF TypeInv, TypeOK
<1>3. events' \in 0..MaxEvents
  BY DEF DecideAndGuard, Event, TypeInv, TypeOK
<1>. QED
  BY <1>1, <1>2, <1>3 DEF DecideAndGuard, TypeInv, TypeOK, Shape, directory, github, console, process

\* An invitation is to teams that exist.
LEMMA InviteTeamsType ==
    ASSUME TypeInv, NEW l
    PROVE  {Org} \cup InviteTeams(l) \subseteq teams \cup {Org}
  BY DEF InviteTeams, TypeInv, Shape

\* GitHub's own rules: who leaves the organisation leaves its teams.
LEMMA OutOfTeamsType ==
    ASSUME TypeInv, NEW l \in Login
    PROVE  /\ OutOfTeams(l) \in TeamRoles
           /\ \A t \in Team, m \in Login : OutOfTeams(l)[t][m] = IF m = l THEN None ELSE roles[t][m]
<1>1. \A t \in Team : roles[t] \in [Login -> Role \cup {None}]
  BY DEF TypeInv, TypeOK, TeamRoles
<1>. QED
  BY <1>1 DEF OutOfTeams, TeamRoles

\* What a change does to GitHub keeps it well formed.
LEMMA ChangeType ==
    ASSUME TypeInv, NEW a \in actions, Change(a), UNCHANGED teams
    PROVE  /\ member' \subseteq member /\ owner' \subseteq member'
           /\ roles' \in TeamRoles
           /\ \A t \in Team, l \in Login : roles'[t][l] # None => l \in member' /\ t \in teams
           /\ invited' \in [Login -> SUBSET (teams \cup {Org})]
<1>0. /\ a \in ActionRecord /\ a.login \in Login /\ Shaped(a, d.teams)
      /\ roles \in TeamRoles /\ invited \in [Login -> SUBSET (teams \cup {Org})]
      /\ owner \subseteq member /\ d.teams \subseteq teams /\ teams \subseteq Team
      /\ \A t \in Team, l \in Login : roles[t][l] # None => l \in member /\ t \in teams
  BY DEF TypeInv, TypeOK, Shape, ActionRecord
<1>1. CASE a.kind = "invite"
  <2>1. invited' \in [Login -> SUBSET (teams \cup {Org})]
    BY <1>0, <1>1, InviteTeamsType DEF Change
  <2>2. UNCHANGED <<member, owner, roles>>
    BY <1>1 DEF Change
  <2>. QED
    BY <1>0, <2>1, <2>2
<1>2. CASE a.kind = "remove" /\ a.scope = Org
  <2>1. member' = member \ {a.login} /\ owner' = owner \ {a.login} /\ roles' = OutOfTeams(a.login) /\ invited' = invited
    BY <1>2 DEF Change
  <2>. QED
    BY <1>0, <2>1, OutOfTeamsType
<1>3. CASE a.kind # "invite" /\ ~(a.kind = "remove" /\ a.scope = Org)
  <2>1. /\ roles' = [roles EXCEPT ![a.scope] = [@ EXCEPT ![a.login] = a.role]]
        /\ invited' = invited /\ member' = member /\ owner' = owner
    BY <1>3 DEF Change
  <2>2. a.kind \in {"add", "setrole", "remove"}
    BY <1>0, <1>3 DEF ActionRecord, Kind
  <2>3. a.scope \in teams /\ a.scope \in Team /\ a.role \in Role \cup {None}
    BY <1>0, <1>3, <2>2 DEF Shaped
  <2>4. a.role # None => a.login \in member
    BY <1>0, <1>3, <2>2 DEF Change, Possible, Shaped
  <2>5. /\ roles[a.scope] \in [Login -> Role \cup {None}] /\ roles \in [Team -> [Login -> Role \cup {None}]]
    BY <1>0, <2>3 DEF TeamRoles
  <2>6. [roles[a.scope] EXCEPT ![a.login] = a.role] \in [Login -> Role \cup {None}]
    BY <1>0, <2>3, <2>5
  <2>7. roles' \in TeamRoles
    BY <2>1, <2>3, <2>5, <2>6 DEF TeamRoles
  <2>8. \A t \in Team, l \in Login :
           roles'[t][l] = IF t = a.scope /\ l = a.login THEN a.role ELSE roles[t][l]
    BY <1>0, <2>1, <2>3, <2>5
  <2>. QED
    BY <1>0, <2>1, <2>3, <2>4, <2>7, <2>8
<1>. QED
  BY <1>1, <1>2, <1>3

\* One change keeps the types, done or refused.
LEMMA ApplyType ==
    ASSUME NEW a \in actions
    PROVE  TypeInv /\ Apply(a) => TypeInv'
<1>. SUFFICES ASSUME TypeInv, Apply(a) PROVE TypeInv'
  OBVIOUS
<1>1. /\ member' \subseteq Login /\ owner' \subseteq member' /\ roles' \in TeamRoles
      /\ \A t \in Team, l \in Login : roles'[t][l] # None => l \in member' /\ t \in teams
      /\ invited' \in [Login -> SUBSET (teams \cup {Org})]
  <2>1. CASE Change(a)
    BY <2>1, ChangeType DEF Apply, TypeInv, TypeOK
  <2>2. CASE UNCHANGED <<member, owner, roles, invited>>
    BY <2>2 DEF TypeInv, TypeOK
  <2>. QED
    BY <2>1, <2>2 DEF Apply
<1>2. rows' \subseteq RowRecord
  <2>1. rows \subseteq RowRecord
    BY DEF TypeInv, TypeOK
  <2>2. Done(a) \in RowState /\ "retrying" \in RowState
    BY DEF Done, RowState
  <2>3. \A x \in {"", "same"} : /\ Marked(rows, {a}, Done(a), x) \subseteq RowRecord
                                /\ Marked(rows, {a}, "retrying", x) \subseteq RowRecord
    BY <2>1, <2>2, MarkedType
  <2>. QED
    BY <2>3 DEF Apply
<1>3. events' \in 0..MaxEvents
  <2>1. UNCHANGED events \/ Event
    BY DEF Apply
  <2>. QED
    BY <2>1 DEF Event, TypeInv, TypeOK
<1>4. /\ actions' \subseteq actions /\ teams' = teams /\ d' = d
      /\ UNCHANGED <<seats, shows, expired, at>>
      /\ UNCHANGED <<directory, console, process, was, trail, approved>>
  BY DEF Apply
<1>. QED
  BY <1>1, <1>2, <1>3, <1>4 DEF TypeInv, TypeOK, Shape, directory, console, process

\* What is held makes a report.
LEMMA HeldRowsType ==
    ASSUME TypeInv
    PROVE  HeldRows(rows) \subseteq RowRecord /\ [held |-> HeldRows(rows), breaker |-> d.breaker] \in ReportRecord
<1>1. d.breaker \subseteq ActionRecord /\ rows \subseteq RowRecord
  BY ReadsFields DEF TypeInv, TypeOK
<1>. QED
  BY <1>1 DEF HeldRows, ReportRecord

\* A process remembers one thing at most.
LEMMA OneElement == \A x : Cardinality({x}) <= 1
<1>1. \A x : Cardinality({x}) = 1
  BY FS_Singleton
<1>. QED
  BY <1>1

\* Recording keeps the types.
LEMMA RecordType ==
    TypeInv /\ RecordNewlyHeld => TypeInv'
<1>. SUFFICES ASSUME TypeInv, RecordNewlyHeld PROVE TypeInv'
  OBVIOUS
<1>1. trail' \in [told: SUBSET RowRecord, excused: SUBSET RowRecord, stale: BOOLEAN]
  <2>1. \A seed : Fresh(HeldRows(rows), seed) \subseteq RowRecord
    BY HeldRowsType DEF Fresh
  <2>2. trail.told \subseteq RowRecord /\ trail.excused \subseteq RowRecord
    BY DEF TypeInv, TypeOK
  <2>3. CASE enabled
    <3>1. PICK seed \in Previous : \E lost \in SUBSET Fresh(HeldRows(rows), seed) :
                 trail' = Recorded(HeldRows(rows), seed, lost)
      BY <2>3 DEF RecordNewlyHeld
    <3>. QED
      BY <2>1, <2>2, <3>1, HeldRowsType DEF Recorded
  <2>4. CASE ~enabled
    <3>1. trail' = [told |-> trail.told \cap HeldRows(rows), excused |-> trail.excused \cap HeldRows(rows),
                    stale |-> TRUE]
      BY <2>4 DEF RecordNewlyHeld
    <3>2. trail.told \cap HeldRows(rows) \subseteq RowRecord /\ trail.excused \cap HeldRows(rows) \subseteq RowRecord
      BY <2>2
    <3>. QED
      BY <3>1, <3>2
  <2>. QED
    BY <2>3, <2>4
<1>4. events' \in 0..MaxEvents
  BY DEF RecordNewlyHeld, Event, TypeInv, TypeOK
<1>2. ledger' \subseteq SUBSET RowRecord /\ Cardinality(ledger') <= 1
  <2>1. CASE enabled
    BY <2>1, HeldRowsType, OneElement DEF RecordNewlyHeld
  <2>2. CASE ~enabled
    BY <2>2 DEF RecordNewlyHeld, TypeInv, TypeOK
  <2>. QED
    BY <2>1, <2>2
<1>3. last' \subseteq ReportRecord /\ Cardinality(last') <= 1
  BY HeldRowsType, OneElement DEF RecordNewlyHeld
<1>5. last' # {} /\ at' = "publish"
  BY DEF RecordNewlyHeld
<1>. QED
  BY <1>1, <1>2, <1>3, <1>4, <1>5 DEF RecordNewlyHeld, TypeInv, TypeOK, Shape, directory, github, console

\* A pass that ends leaves nothing of what it read.
LEMMA EndPassType ==
    ASSUME EndPass
    PROVE  /\ d' \in Reads /\ d'.teams = {} /\ d'.free = 0 /\ d'.said = << >> /\ d'.confirmed = {}
           /\ at' = "idle" /\ actions' = {} /\ rows' = {}
           /\ was' \in [gone: SUBSET Email, lacked: SUBSET (Team \X Email)]
<1>1. d' \in Reads
  BY NothingReads DEF EndPass
<1>2. d'.teams = {} /\ d'.free = 0 /\ d'.said = << >> /\ d'.confirmed = {}
  BY DEF EndPass, Nothing
<1>. QED
  BY <1>1, <1>2 DEF EndPass, Quiet

\* The last report is a report.
LEMMA PreviousType ==
    ASSUME TypeInv
    PROVE  Previous \subseteq ReportRecord /\ (last # {} => Only(last) \in ReportRecord)
<1>1. NoReport \in ReportRecord
  BY DEF NoReport, ReportRecord
<1>. QED
  BY <1>1 DEF Previous, Only, TypeInv, TypeOK

\* A report the store takes is a report.
LEMMA StoreType ==
    ASSUME TypeInv, last # {}, Store
    PROVE  /\ report' \in ReportRecord
           /\ trail' \in [told: SUBSET RowRecord, excused: SUBSET RowRecord, stale: BOOLEAN]
<1>1. (~enabled) \in BOOLEAN
  OBVIOUS
<1>2. PICK b \in BOOLEAN : trail' = [trail EXCEPT !.stale = b]
  BY <1>1, Zenon DEF Store
<1>3. trail' \in [told: SUBSET RowRecord, excused: SUBSET RowRecord, stale: BOOLEAN]
  BY <1>2 DEF TypeInv, TypeOK
<1>. QED
  BY <1>3, PreviousType DEF Store

\* Publishing keeps the types.
LEMMA PublishType ==
    TypeInv /\ Publish => TypeInv'
<1>. SUFFICES ASSUME TypeInv, Publish PROVE TypeInv'
  OBVIOUS
<1>1. /\ report' \in ReportRecord
      /\ trail' \in [told: SUBSET RowRecord, excused: SUBSET RowRecord, stale: BOOLEAN]
  <2>1. last # {} /\ (Store \/ UNCHANGED <<report, trail>>)
    BY DEF Publish, TypeInv, Shape
  <2>. QED
    BY <2>1, StoreType DEF TypeInv, TypeOK
<1>2. events' \in 0..MaxEvents
  BY DEF Publish, Event, TypeInv, TypeOK
<1>3. EndPass
  BY DEF Publish
<1>. QED
  BY <1>1, <1>2, <1>3, EndPassType DEF Publish, TypeInv, TypeOK, Shape, directory, github, process

\* A pass that fails keeps the types.
LEMMA FailType ==
    TypeInv /\ Fail => TypeInv'
<1>. SUFFICES ASSUME TypeInv, Fail PROVE TypeInv'
  OBVIOUS
<1>1. /\ report' \in ReportRecord
      /\ trail' \in [told: SUBSET RowRecord, excused: SUBSET RowRecord, stale: BOOLEAN]
  <2>1. CASE last # {} /\ Store
    BY <2>1, StoreType
  <2>2. CASE report' \in Previous /\ UNCHANGED trail
    BY <2>2, PreviousType DEF TypeInv, TypeOK
  <2>3. CASE UNCHANGED <<report, trail>>
    BY <2>3 DEF TypeInv, TypeOK
  <2>. QED
    BY <2>1, <2>2, <2>3 DEF Fail
<1>2. events' \in 0..MaxEvents
  BY DEF Fail, Event, TypeInv, TypeOK
<1>3. EndPass
  BY DEF Fail
<1>. QED
  BY <1>1, <1>2, <1>3, EndPassType DEF Fail, TypeInv, TypeOK, Shape, directory, github, process

\* A new process keeps the types.
LEMMA RestartType ==
    TypeInv /\ Restart => TypeInv'
<1>. SUFFICES ASSUME TypeInv, Restart PROVE TypeInv'
  OBVIOUS
<1>1. enabled' \in BOOLEAN
  BY DEF Restart, TypeInv, TypeOK
<1>2. events' \in 0..MaxEvents
  BY DEF Restart, Event, TypeInv, TypeOK
<1>3. EndPass
  BY DEF Restart
<1>4. ledger' = {} /\ last' = {} /\ Cardinality({}) <= 1
  BY FS_EmptySet DEF Restart
<1>. QED
  BY <1>1, <1>2, <1>3, <1>4, EndPassType DEF Restart, TypeInv, TypeOK, Shape, directory, github, console

\* What was seen at the moments of a pass are addresses and teams.
LEMMA WitnessedType ==
    ASSUME TypeInv, Witnessed, has' \subseteq Email
    PROVE  was' \in [gone: SUBSET Email, lacked: SUBSET (Team \X Email)]
<1>1. was.gone \subseteq Email /\ was.lacked \subseteq Team \X Email
  BY DEF TypeInv, TypeOK
<1>2. NowGone' \subseteq Email /\ NowLacking' \subseteq Team \X Email
  BY DEF NowGone, NowLacking
<1>. QED
  BY <1>1, <1>2 DEF Witnessed, Quiet

\* A change in the directory keeps the types.
LEMMA DirectoryType ==
    TypeInv /\ DirectoryChanges => TypeInv'
<1>. SUFFICES ASSUME TypeInv, DirectoryChanges PROVE TypeInv'
  OBVIOUS
<1>1. has' \subseteq Email /\ holds' \in [Email -> SUBSET Group]
  BY DEF DirectoryChanges, TypeInv, TypeOK
<1>2. was' \in [gone: SUBSET Email, lacked: SUBSET (Team \X Email)]
  BY <1>1, WitnessedType DEF DirectoryChanges
<1>3. events' \in 0..MaxEvents
  BY DEF DirectoryChanges, Event, TypeInv, TypeOK
<1>. QED
  BY <1>1, <1>2, <1>3 DEF DirectoryChanges, TypeInv, TypeOK, Shape, github, console, world, process, pass

\* A new link keeps the types.
LEMMA LinkType ==
    ASSUME NEW l \in Login, NEW emails \in SUBSET Email
    PROVE  TypeInv /\ Link(l, emails) => TypeInv'
<1>. SUFFICES ASSUME TypeInv, Link(l, emails) PROVE TypeInv'
  OBVIOUS
<1>1. links \in [Login -> LinkRecord] /\ expired \in [Login -> 0..IgnoredAfter]
  BY DEF TypeInv, TypeOK
<1>2. \A x \in Login : /\ links[x] \in LinkRecord
                       /\ [state |-> "active", emails |-> emails] \in LinkRecord
                       /\ [state |-> IF links[x].emails \subseteq emails THEN "lost" ELSE "active",
                           emails |-> links[x].emails \ emails] \in LinkRecord
  BY <1>1 DEF LinkRecord, LinkState
<1>3. links' \in [Login -> LinkRecord]
  BY <1>2 DEF Link
<1>4. expired' \in [Login -> 0..IgnoredAfter]
  BY <1>1 DEF Link, IgnoredAfter
<1>5. events' \in 0..MaxEvents
  BY DEF Link, Event, TypeInv, TypeOK
<1>. QED
  BY <1>3, <1>4, <1>5 DEF Link, TypeInv, TypeOK, Shape, directory, world, process, pass

\* A link found lost keeps the types.
LEMMA LinkCheckedType ==
    ASSUME NEW l \in Login
    PROVE  TypeInv /\ LinkChecked(l) => TypeInv'
<1>. SUFFICES ASSUME TypeInv, LinkChecked(l) PROVE TypeInv'
  OBVIOUS
<1>1. links \in [Login -> LinkRecord]
  BY DEF TypeInv, TypeOK
<1>2. [links[l] EXCEPT !.state = "lost"] \in LinkRecord /\ NoLink \in LinkRecord
  BY <1>1 DEF LinkRecord, LinkState, NoLink
<1>3. links' \in [Login -> LinkRecord]
  BY <1>1, <1>2 DEF LinkChecked
<1>4. events' \in 0..MaxEvents
  BY DEF LinkChecked, Event, TypeInv, TypeOK
<1>. QED
  BY <1>3, <1>4 DEF LinkChecked, TypeInv, TypeOK, Shape, directory, github, world, process, pass

\* An invitation accepted keeps the types.
LEMMA AcceptType ==
    ASSUME NEW l \in Login
    PROVE  TypeInv /\ Accept(l) => TypeInv'
<1>. SUFFICES ASSUME TypeInv, Accept(l) PROVE TypeInv'
  OBVIOUS
<1>1. /\ member \subseteq Login /\ owner \subseteq member /\ roles \in TeamRoles
      /\ invited \in [Login -> SUBSET (teams \cup {Org})]
      /\ \A t \in Team, x \in Login : roles[t][x] # None => x \in member /\ t \in teams
  BY DEF TypeInv, TypeOK
<1>2. \A t \in Team : roles[t] \in [Login -> Role \cup {None}]
  BY <1>1 DEF TeamRoles
<1>3. \A t \in Team : [roles[t] EXCEPT ![l] = IF t \in invited[l] THEN "member" ELSE @]
                         \in [Login -> Role \cup {None}]
  BY <1>2 DEF Role
<1>4. roles' \in TeamRoles
  BY <1>3 DEF Accept, TeamRoles
<1>5. \A t \in Team, x \in Login :
         roles'[t][x] = IF x = l /\ t \in invited[l] THEN "member" ELSE roles[t][x]
  BY <1>2 DEF Accept
<1>6. \A t \in Team, x \in Login : roles'[t][x] # None => x \in member' /\ t \in teams
  BY <1>1, <1>5 DEF Accept
<1>7. invited' \in [Login -> SUBSET (teams \cup {Org})] /\ member' \subseteq Login /\ owner' \subseteq member'
  BY <1>1 DEF Accept
<1>. QED
  BY <1>4, <1>6, <1>7 DEF Accept, TypeInv, TypeOK, Shape, directory, console, world, process, pass

\* An invitation that expires keeps the types.
LEMMA ExpireType ==
    ASSUME NEW l \in Login
    PROVE  TypeInv /\ Expire(l) => TypeInv'
<1>. SUFFICES ASSUME TypeInv, Expire(l) PROVE TypeInv'
  OBVIOUS
<1>1. expired \in [Login -> 0..IgnoredAfter] /\ invited \in [Login -> SUBSET (teams \cup {Org})]
  BY DEF TypeInv, TypeOK
<1>2. expired' \in [Login -> 0..IgnoredAfter] /\ invited' \in [Login -> SUBSET (teams \cup {Org})]
  BY <1>1 DEF Expire, IgnoredAfter
<1>3. events' \in 0..MaxEvents
  BY DEF Expire, Event, TypeInv, TypeOK
<1>. QED
  BY <1>2, <1>3 DEF Expire, TypeInv, TypeOK, Shape, directory, console, world, process, pass

\* A member who leaves, or changes, keeps the types.
LEMMA MemberChangesType ==
    ASSUME NEW l \in Login
    PROVE  TypeInv /\ MemberChanges(l) => TypeInv'
<1>. SUFFICES ASSUME TypeInv, MemberChanges(l) PROVE TypeInv'
  OBVIOUS
<1>1. /\ member' \subseteq Login /\ owner' \subseteq member' /\ roles' \in TeamRoles
      /\ \A t \in Team, x \in Login : roles'[t][x] # None => x \in member' /\ t \in teams
  <2>1. CASE member' = member \ {l} /\ owner' = owner \ {l} /\ roles' = OutOfTeams(l)
    BY <2>1, OutOfTeamsType DEF TypeInv, TypeOK
  <2>2. CASE owner' = owner \cup {l} /\ UNCHANGED <<member, roles>>
    BY <2>2 DEF MemberChanges, TypeInv, TypeOK
  <2>3. CASE UNCHANGED <<member, owner, roles>>
    BY <2>3 DEF TypeInv, TypeOK
  <2>. QED
    BY <2>1, <2>2, <2>3 DEF MemberChanges
<1>2. shows' \in [Login -> SUBSET Email]
  BY DEF MemberChanges, TypeInv, TypeOK
<1>3. events' \in 0..MaxEvents
  BY DEF MemberChanges, Event, TypeInv, TypeOK
<1>. QED
  BY <1>1, <1>2, <1>3 DEF MemberChanges, TypeInv, TypeOK, Shape, directory, console, world, process, pass

\* A confirmation keeps the types.
LEMMA ConfirmType ==
    TypeInv /\ ConfirmGitHubRemovals => TypeInv'
<1>. SUFFICES ASSUME TypeInv, ConfirmGitHubRemovals PROVE TypeInv'
  OBVIOUS
<1>1. report.breaker \subseteq ActionRecord
  BY DEF TypeInv, TypeOK, ReportRecord
<1>. QED
  BY <1>1 DEF ConfirmGitHubRemovals, TypeInv, TypeOK, Shape, directory, github, process, pass

\* A confirmation that lapses keeps the types.
LEMMA LapseType ==
    TypeInv /\ Lapse => TypeInv'
  BY DEF Lapse, Event, TypeInv, TypeOK, Shape, directory, github, world, process, pass

\* Every step keeps the types.
LEMMA StepType ==
    TypeInv /\ [Next]_vars => TypeInv'
<1>1. CASE UNCHANGED vars
  BY <1>1 DEF vars, TypeInv, TypeOK, Shape, directory, github, console, process, pass
<1>2. CASE PassStep
  BY <1>2, StoredType, MembersType, TeamsType, MatchType, HoldersType, GuardsType, VouchType, DecideType,
     ApplyType, RecordType, PublishType, FailType DEF PassStep
<1>3. CASE Next /\ ~PassStep
  BY <1>3, RestartType, DirectoryType, LinkType, LinkCheckedType, AcceptType, ExpireType, MemberChangesType,
     ConfirmType, LapseType DEF Next
<1>. QED
  BY <1>1, <1>2, <1>3

\* Every state of the pass, of GitHub and of the console's records has its type: a role in a
\* team is a member's in a team that exists, a pass remembers one report at most, and every
\* row and change it decides is well formed.
THEOREM TypeCorrect == Spec => []TypeOK
<1>1. Spec => []TypeInv
  BY InitType, StepType, PTL DEF Spec
<1>2. TypeInv => TypeOK
  BY DEF TypeInv
<1>. QED
  BY <1>1, <1>2, PTL

-----------------------------------------------------------------------------
(* The breaker.                                                            *)

\* A removal set counts as confirmed only once an operator confirmed it.
LEMMA StepApproval ==
    TypeInv /\ ApprovalInv /\ [Next]_vars => ApprovalInv'
<1>. SUFFICES ASSUME TypeInv, ApprovalInv, [Next]_vars PROVE ApprovalInv'
  OBVIOUS
<1>. USE DEF ApprovalInv
<1>1. CASE UNCHANGED vars
  BY <1>1 DEF vars, console, pass
<1>2. CASE StoredLinksAndConfirmations
  BY <1>2, StoredReads DEF StoredLinksAndConfirmations, console
<1>3. CASE ReadMembers
  BY <1>3, MembersReads DEF ReadMembers, console
<1>4. CASE ReadInvitationsAndTeams
  BY <1>4, TeamsReads DEF ReadInvitationsAndTeams, console
<1>5. CASE MatchProfiles
  BY <1>5, MatchReads DEF MatchProfiles
<1>6. ASSUME NEW g \in Group, Holders(g) PROVE ApprovalInv'
  BY <1>6, HoldersReads DEF Holders, console
<1>7. CASE ReadGuards
  BY <1>7, GuardsReads DEF ReadGuards, console
<1>8. ASSUME NEW e \in Email, Vouch(e) PROVE ApprovalInv'
  BY <1>8, VouchDoes DEF Vouch, console
<1>9. CASE DecideAndGuard
  BY <1>9, DecideDoes DEF DecideAndGuard, console
<1>10. ASSUME NEW a \in actions, Apply(a) PROVE ApprovalInv'
  BY <1>10 DEF Apply, console
<1>11. CASE RecordNewlyHeld
  BY <1>11 DEF RecordNewlyHeld, console
<1>12. CASE Publish \/ Fail \/ Restart
  BY <1>12, EndPassType DEF Publish, Fail, Restart, console
<1>13. CASE DirectoryChanges
  BY <1>13 DEF DirectoryChanges, console, world, pass
<1>14. ASSUME NEW l \in Login,
              \/ \E emails \in SUBSET Email : Link(l, emails)
              \/ LinkChecked(l) \/ Accept(l) \/ Expire(l) \/ MemberChanges(l)
       PROVE  ApprovalInv'
  BY <1>14 DEF Link, LinkChecked, Accept, Expire, MemberChanges, console, world, pass
<1>15. CASE ConfirmGitHubRemovals
  BY <1>15 DEF ConfirmGitHubRemovals, pass
<1>16. CASE Lapse
  BY <1>16 DEF Lapse, world, pass
<1>. QED
  BY <1>1, <1>2, <1>3, <1>4, <1>5, <1>6, <1>7, <1>8, <1>9, <1>10, <1>11, <1>12, <1>13, <1>14, <1>15, <1>16
     DEF Next, PassStep

\* The step that decides removes more than half of the members only on a confirmed set.
LEMMA BreakerStep ==
    TypeInv /\ ApprovalInv /\ [Next]_vars =>
      (at = "ask" /\ at' = "act" =>
         \/ Cardinality(Affected(actions')) * 2 <= Cardinality(d.members)
         \/ Removals(actions') \in approved)
<1>. SUFFICES ASSUME TypeInv, ApprovalInv, [Next]_vars, at = "ask", at' = "act"
              PROVE  \/ Cardinality(Affected(actions')) * 2 <= Cardinality(d.members)
                     \/ Removals(actions') \in approved
  OBVIOUS
<1>1. DecideAndGuard
  BY DEF Next, PassStep, StoredLinksAndConfirmations, ReadMembers, ReadInvitationsAndTeams, MatchProfiles,
         Holders, ReadGuards, Vouch, Apply, RecordNewlyHeld, Publish, Fail, Restart, EndPass, DirectoryChanges,
         Link, LinkChecked, Accept, Expire, MemberChanges, ConfirmGitHubRemovals, Lapse, world, pass, vars
<1>2. Affected(actions') \subseteq Login /\ d.members \subseteq Login
  <2>1. TypeInv'
    BY StepType
  <2>2. actions' \subseteq ActionRecord
    BY <2>1 DEF TypeInv, TypeOK
  <2>3. d.members \subseteq Login
    BY ReadsFields DEF TypeInv, TypeOK
  <2>. QED
    BY <2>2, <2>3 DEF Affected, Removals, ActionRecord
<1>3. Cardinality(Affected(actions')) \in Nat /\ Cardinality(d.members) \in Nat
  BY <1>2, CardNat
<1>4. Removals(actions') = {} => Cardinality(Affected(actions')) = 0
  BY FS_EmptySet DEF Affected
<1>5. CASE Removals(actions') = {}
  BY <1>3, <1>4, <1>5
<1>6. CASE ~Breaks(actions') /\ Removals(actions') # {}
  BY <1>3, <1>6 DEF Breaks, ApprovalInv
<1>. QED
  BY <1>1, <1>5, <1>6, DecideDoes

\* A pass that removes more than half of the members removes the very set an operator
\* saw in a report and confirmed (breakMassRemoval, ConfirmGitHubRemovals), whatever
\* changes between the reads, and across restarts.
THEOREM BreakerHolding == Spec => BreakerHolds
<1>1. Init => ApprovalInv
  BY DEF Init, ApprovalInv, Nothing
<1>2. Spec => []TypeInv
  BY InitType, StepType, PTL DEF Spec
<1>3. Spec => []ApprovalInv
  BY <1>1, <1>2, StepApproval, PTL DEF Spec
<1>. QED
  BY <1>2, <1>3, BreakerStep, PTL DEF Spec, BreakerHolds

-----------------------------------------------------------------------------
(* Removals.                                                               *)

\* Nobody was asked yet.
LEMMA NothingSaid == DOMAIN << >> = {}
  OBVIOUS

\* More moments make no answer less true.
LEMMA TrueStays ==
    ASSUME NEW e, NEW answer, NEW gone, NEW lacked, NEW gone2, NEW lacked2,
           True(e, answer, gone, lacked), gone \subseteq gone2, lacked \subseteq lacked2
    PROVE  True(e, answer, gone2, lacked2)
  BY DEF True

\* What is vouched for is so at the moment it is asked.
LEMMA TrueNow ==
    ASSUME NEW e \in Email, NEW sure \in BOOLEAN, NowGone \subseteq was.gone, NowLacking \subseteq was.lacked
    PROVE  True(e, [sure |-> sure, live |-> sure /\ e \in has, holds |-> IF sure THEN holds[e] ELSE {}],
                was.gone, was.lacked)
<1>1. e \notin has => e \in was.gone
  BY DEF NowGone
<1>2. \A t \in Team : Without(t, e) => <<t, e>> \in was.lacked
  BY DEF NowLacking
<1>. QED
  BY <1>1, <1>2 DEF True, Without

\* A step that leaves the directory and the answers alone leaves the answers true.
LEMMA WitnessKept ==
    ASSUME Witness, UNCHANGED <<has, holds, was>>, d'.said = d.said, at # "idle"
    PROVE  Witness'
  BY DEF Witness, NowGone, NowLacking, Without

\* Every answer stays true of some moment of the pass.
LEMMA StepWitness ==
    TypeInv /\ Witness /\ [Next]_vars => Witness'
<1>. SUFFICES ASSUME TypeInv, Witness, [Next]_vars PROVE Witness'
  OBVIOUS
<1>0. ASSUME UNCHANGED <<has, holds, was>>, UNCHANGED <<at, d>> PROVE Witness'
  BY <1>0 DEF Witness, NowGone, NowLacking, Without
<1>1. CASE UNCHANGED vars
  BY <1>0, <1>1 DEF vars, directory, pass
<1>2. CASE StoredLinksAndConfirmations
  <2>1. DOMAIN d'.said = {}
    BY <1>2, StoredReads, NothingSaid DEF StoredLinksAndConfirmations, TypeInv, Shape
  <2>2. UNCHANGED <<has, holds>> /\ was' = [gone |-> NowGone, lacked |-> NowLacking]
    BY <1>2 DEF StoredLinksAndConfirmations, directory
  <2>3. NowGone' = NowGone /\ NowLacking' = NowLacking
    BY <2>2 DEF NowGone, NowLacking, Without
  <2>. QED
    BY <2>1, <2>2, <2>3 DEF Witness
<1>3. CASE ReadMembers
  BY <1>3, MembersReads, WitnessKept DEF ReadMembers, directory
<1>4. CASE ReadInvitationsAndTeams
  BY <1>4, TeamsReads, WitnessKept DEF ReadInvitationsAndTeams, directory
<1>5. CASE MatchProfiles
  BY <1>5, MatchReads, WitnessKept DEF MatchProfiles, directory
<1>6. ASSUME NEW g \in Group, Holders(g) PROVE Witness'
  <2>1. d'.said = d.said /\ at # "idle" /\ at' # "idle" /\ UNCHANGED <<has, holds, was>>
    BY <1>6, HoldersReads DEF Holders, directory
  <2>. QED
    BY <2>1, WitnessKept
<1>7. CASE ReadGuards
  BY <1>7, GuardsReads, WitnessKept DEF ReadGuards, directory
<1>8. ASSUME NEW e \in Email, Vouch(e) PROVE Witness'
  <2>1. PICK sure \in BOOLEAN :
             /\ DOMAIN d'.said = DOMAIN d.said \cup {e}
             /\ \A x \in DOMAIN d.said : x # e => d'.said[x] = d.said[x]
             /\ d'.said[e] = [sure |-> sure, live |-> sure /\ e \in has,
                              holds |-> IF sure THEN holds[e] ELSE {}]
    BY <1>8, VouchDoes
  <2>2. UNCHANGED <<at, has, holds, was>> /\ at # "idle"
    BY <1>8 DEF Vouch, directory
  <2>3. NowGone \subseteq was.gone /\ NowLacking \subseteq was.lacked
    BY <2>2 DEF Witness
  <2>4. NowGone' = NowGone /\ NowLacking' = NowLacking
    BY <2>2 DEF NowGone, NowLacking, Without
  <2>5. True(e, d'.said[e], was.gone, was.lacked)
    BY <2>1, <2>3, TrueNow
  <2>6. \A x \in DOMAIN d'.said : True(x, d'.said[x], was.gone, was.lacked)
    BY <2>1, <2>5 DEF Witness
  <2>. QED
    BY <2>2, <2>3, <2>4, <2>6 DEF Witness
<1>9. CASE DecideAndGuard
  BY <1>9, DecideDoes, WitnessKept DEF DecideAndGuard, directory
<1>10. ASSUME NEW a \in actions, Apply(a) PROVE Witness'
  BY <1>0, <1>10 DEF Apply, directory
<1>11. CASE RecordNewlyHeld
  BY <1>11, WitnessKept DEF RecordNewlyHeld, directory
<1>12. CASE Publish \/ Fail \/ Restart
  BY <1>12, EndPassType, NothingSaid DEF Publish, Fail, Restart, Witness
<1>13. CASE DirectoryChanges
  <2>1. UNCHANGED <<at, d>> /\ Witnessed
    BY <1>13 DEF DirectoryChanges, world, pass
  <2>2. CASE at = "idle"
    BY <2>1, <2>2, NothingSaid DEF Witness, TypeInv, Shape
  <2>3. CASE at # "idle"
    <3>1. /\ was'.gone = was.gone \cup NowGone'
          /\ was'.lacked = was.lacked \cup NowLacking'
      BY <2>1, <2>3 DEF Witnessed
    <3>2. \A e \in DOMAIN d.said : True(e, d.said[e], was'.gone, was'.lacked)
      BY <3>1, TrueStays DEF Witness
    <3>. QED
      BY <2>1, <3>1, <3>2 DEF Witness
  <2>. QED
    BY <2>2, <2>3
<1>14. ASSUME NEW l \in Login,
              \/ \E emails \in SUBSET Email : Link(l, emails)
              \/ LinkChecked(l) \/ Accept(l) \/ Expire(l) \/ MemberChanges(l)
       PROVE  Witness'
  BY <1>0, <1>14 DEF Link, LinkChecked, Accept, Expire, MemberChanges, directory, world, pass
<1>15. CASE ConfirmGitHubRemovals \/ Lapse
  BY <1>0, <1>15 DEF ConfirmGitHubRemovals, Lapse, directory, world, pass
<1>. QED
  BY <1>1, <1>2, <1>3, <1>4, <1>5, <1>6, <1>7, <1>8, <1>9, <1>10, <1>11, <1>12, <1>13, <1>14, <1>15
     DEF Next, PassStep

\* The reason of a removal that is still to be made stands.
LEMMA JustKept ==
    ASSUME RemovalJustified, UNCHANGED <<at, d>>, actions' \subseteq actions,
           was.gone \subseteq was'.gone, was.lacked \subseteq was'.lacked
    PROVE  RemovalJustified'
<1>1. Lost' = Lost /\ \A l : EmailsOf(l)' = EmailsOf(l)
  BY DEF Lost, EmailsOf
<1>2. Removals(actions)' \subseteq Removals(actions)
  BY DEF Removals
<1>. QED
  BY <1>1, <1>2 DEF RemovalJustified

\* What is decided rests on what was said.
LEMMA DecideJust ==
    ASSUME TypeInv, Witness, DecideAndGuard
    PROVE  RemovalJustified'
<1>1. SUFFICES ASSUME NEW a \in Removals(actions)'
               PROVE  /\ a.login \notin d'.owner
                      /\ \/ a.scope = Org /\ a.login \in Lost'
                         \/ a.scope = Org /\ EmailsOf(a.login)' # {} /\ EmailsOf(a.login)' \subseteq was'.gone
                         \/ a.scope # Org /\ \A e \in EmailsOf(a.login)' : <<a.scope, e>> \in was'.lacked
  BY DEF RemovalJustified
<1>2. /\ d'.owner = d.owner /\ d'.members = d.members /\ d'.shows = d.shows /\ d'.links = d.links
      /\ d'.teams = d.teams /\ was' = was /\ d \in Reads
  BY DecideDoes DEF DecideAndGuard, TypeInv, TypeOK
<1>3. Lost' = Lost /\ \A l : EmailsOf(l)' = EmailsOf(l)
  BY <1>2 DEF Lost, EmailsOf
<1>4. a \in DecidedActions /\ a.kind = "remove"
  BY <1>1, DecideDoes DEF Removals
<1>5. /\ a.login \notin d.owner /\ a \in ActionRecord /\ Shaped(a, d.teams)
      /\ \/ a.scope = Org /\ a.login \in Leavers
         \/ a.scope # Org /\ Removal(a.scope, EmailsOf(a.login))
  BY <1>2, <1>4, DecidedDoes
<1>6. \A e : Gone(e) => e \in was.gone
  BY DEF Gone, Asked, Witness, True
<1>7. CASE a.scope = Org /\ a.login \in Leavers
  BY <1>2, <1>3, <1>5, <1>6, <1>7 DEF Leavers
<1>8. CASE a.scope # Org /\ Removal(a.scope, EmailsOf(a.login))
  <2>1. a.scope \in Team
    BY <1>2, <1>4, <1>5, <1>8, ReadsFields DEF Shaped
  <2>2. \A e \in EmailsOf(a.login) : <<a.scope, e>> \in was.lacked
    BY <1>8, <2>1 DEF Removal, Asked, Witness, True
  <2>. QED
    BY <1>2, <1>3, <1>5, <1>8, <2>2
<1>. QED
  BY <1>5, <1>7, <1>8

\* Every step keeps removals justified.
LEMMA StepJust ==
    TypeInv /\ Witness /\ RemovalJustified /\ [Next]_vars => RemovalJustified'
<1>. SUFFICES ASSUME TypeInv, Witness, RemovalJustified, [Next]_vars PROVE RemovalJustified'
  OBVIOUS
<1>0. ASSUME at' # "act" PROVE RemovalJustified'
  BY <1>0 DEF RemovalJustified
<1>1. CASE UNCHANGED vars
  BY <1>1, JustKept DEF vars, pass
<1>2. CASE \/ StoredLinksAndConfirmations \/ ReadMembers \/ ReadInvitationsAndTeams \/ MatchProfiles
           \/ (\E g \in Group : Holders(g)) \/ ReadGuards \/ \E e \in Email : Vouch(e)
  BY <1>0, <1>2 DEF StoredLinksAndConfirmations, ReadMembers, ReadInvitationsAndTeams, MatchProfiles,
                    Holders, ReadGuards, Vouch
<1>3. CASE DecideAndGuard
  BY <1>3, DecideJust
<1>4. ASSUME NEW a \in actions, Apply(a) PROVE RemovalJustified'
  BY <1>4, JustKept DEF Apply
<1>5. CASE RecordNewlyHeld \/ Publish \/ Fail \/ Restart
  BY <1>0, <1>5 DEF RecordNewlyHeld, Publish, Fail, Restart, EndPass
<1>6. CASE DirectoryChanges
  <2>1. UNCHANGED <<at, d, actions>> /\ Witnessed
    BY <1>6 DEF DirectoryChanges, world, pass
  <2>2. CASE at = "act"
    <3>1. was.gone \subseteq was'.gone /\ was.lacked \subseteq was'.lacked
      BY <2>1, <2>2 DEF Witnessed
    <3>. QED
      BY <2>1, <3>1, JustKept
  <2>. QED
    BY <1>0, <2>1, <2>2
<1>7. ASSUME NEW l \in Login,
             \/ \E emails \in SUBSET Email : Link(l, emails)
             \/ LinkChecked(l) \/ Accept(l) \/ Expire(l) \/ MemberChanges(l)
      PROVE  RemovalJustified'
  <2>1. UNCHANGED <<at, d, actions, was>>
    BY <1>7 DEF Link, LinkChecked, Accept, Expire, MemberChanges, world, pass
  <2>. QED
    BY <2>1, JustKept
<1>8. CASE ConfirmGitHubRemovals \/ Lapse
  <2>1. UNCHANGED <<at, d, actions, was>>
    BY <1>8 DEF ConfirmGitHubRemovals, Lapse, world, pass
  <2>. QED
    BY <2>1, JustKept
<1>. QED
  BY <1>1, <1>2, <1>3, <1>4, <1>5, <1>6, <1>7, <1>8 DEF Next, PassStep

\* Nobody is removed without a reason that was true at some moment of the pass (Decide,
\* Removal, Vouch): for any organisation, and whatever changes between the reads.
THEOREM RemovalsJustified == Spec => []RemovalJustified
<1>1. Init => Witness /\ RemovalJustified
  BY NothingSaid DEF Init, Witness, RemovalJustified, Nothing
<1>2. Spec => []TypeInv
  BY InitType, StepType, PTL DEF Spec
<1>3. Spec => []Witness
  BY <1>1, <1>2, StepWitness, PTL DEF Spec
<1>. QED
  BY <1>1, <1>2, <1>3, StepJust, PTL DEF Spec

-----------------------------------------------------------------------------
(* What is recorded.                                                       *)

\* What is remembered is what was put there.
LEMMA OnlyOne == \A x : Only({x}) = x
  BY DEF Only

\* Nothing of what a process remembers or finds stored changes.
LEMMA TrailKept ==
    ASSUME TrailInv, UNCHANGED <<enabled, ledger, last, report, trail>>,
           at' # "publish" \/ UNCHANGED <<at, rows>>
    PROVE  TrailInv'
  BY DEF TrailInv, HeldRows, Settled

\* A row that is not new since the last pass was recorded, or is excused, unless the
\* report a new process starts from is not that of the last pass.
LEMMA NotFreshSettled ==
    ASSUME TrailInv, enabled, NEW seed \in Previous, NEW now
    PROVE  (ledger = {} /\ trail.stale) \/ now \ Fresh(now, seed) \subseteq Settled
<1>1. CASE ledger # {}
  <2>1. Only(ledger) \in ledger
    BY <1>1 DEF Only
  <2>. QED
    BY <1>1, <2>1 DEF Fresh, TrailInv
<1>2. CASE ledger = {} /\ ~trail.stale
  <2>1. last = {}
    BY <1>2 DEF TrailInv
  <2>2. seed.held \subseteq report.held
    BY <2>1 DEF Previous, NoReport
  <2>. QED
    BY <1>2, <2>2 DEF Fresh, TrailInv
<1>. QED
  BY <1>1, <1>2

\* Once recorded, whatever is held now is settled, whichever records were lost.
LEMMA RecordSettles ==
    ASSUME TrailInv, enabled, NEW seed \in Previous, NEW now, NEW lost, trail' = Recorded(now, seed, lost)
    PROVE  now \subseteq Settled'
<1>. DEFINE new == Fresh(now, seed)
<1>1. CASE ledger = {} /\ trail.stale
  <2>1. new = now \ seed.held
    BY <1>1 DEF Fresh
  <2>. HIDE DEF new
  <2>. QED
    BY <1>1, <2>1 DEF Recorded, Settled, new
<1>2. CASE now \ new \subseteq Settled
  <2>1. new \subseteq now
    BY DEF Fresh
  <2>. HIDE DEF new
  <2>. QED
    BY <1>2, <2>1 DEF Recorded, Settled, new
<1>. QED
  BY <1>1, <1>2, NotFreshSettled

\* Recording what is newly held.
LEMMA RecordTrail ==
    ASSUME TrailInv, RecordNewlyHeld
    PROVE  TrailInv'
<1>. DEFINE H == HeldRows(rows)
<1>1. /\ last' = {[held |-> H, breaker |-> d.breaker]} /\ UNCHANGED <<enabled, rows, report>>
      /\ HeldRows(rows)' = H
  BY DEF RecordNewlyHeld, console, HeldRows
<1>2. trail'.stale
  BY DEF RecordNewlyHeld, Recorded
<1>3. CASE enabled
  <2>1. PICK seed \in Previous : \E lost \in SUBSET Fresh(H, seed) : trail' = Recorded(H, seed, lost)
    BY <1>3 DEF RecordNewlyHeld
  <2>2. ledger' = {H}
    BY <1>3 DEF RecordNewlyHeld
  <2>. HIDE DEF H
  <2>3. H \subseteq Settled'
    BY <1>3, <2>1, RecordSettles
  <2>4. \A r \in last' : r.held = H
    BY <1>1
  <2>. QED
    BY <1>1, <1>2, <1>3, <2>2, <2>3, <2>4 DEF TrailInv
<1>4. CASE ~enabled
  <2>1. ledger' = {}
    BY <1>4 DEF RecordNewlyHeld, TrailInv
  <2>. HIDE DEF H
  <2>. QED
    BY <1>1, <1>2, <1>4, <2>1 DEF TrailInv
<1>. QED
  BY <1>3, <1>4

\* A report of an enabled process that is stored shows what is settled.
LEMMA StoreTrail ==
    ASSUME TypeInv, TrailInv, last # {}, Store, UNCHANGED <<enabled, ledger, last>>, at' = "idle"
    PROVE  TrailInv'
<1>1. Only(last) \in last /\ report' = Only(last)
  BY DEF Store, Only
<1>2. Settled' = Settled /\ trail'.stale = ~enabled
  BY DEF Store, Settled, TypeInv, TypeOK
<1>3. enabled => report'.held \subseteq Settled'
  BY <1>1, <1>2 DEF TrailInv
<1>4. enabled \in BOOLEAN
  BY DEF TypeInv, TypeOK
<1>. QED
  BY <1>2, <1>3, <1>4 DEF TrailInv

\* Every step keeps settled what a later pass may take as recorded.
LEMMA StepTrail ==
    TypeInv /\ TrailInv /\ [Next]_vars => TrailInv'
<1>. SUFFICES ASSUME TypeInv, TrailInv, [Next]_vars PROVE TrailInv'
  OBVIOUS
<1>1. CASE UNCHANGED vars
  BY <1>1, TrailKept DEF vars, console, process, pass
<1>2. CASE \/ StoredLinksAndConfirmations \/ ReadMembers \/ ReadInvitationsAndTeams \/ MatchProfiles
           \/ (\E g \in Group : Holders(g)) \/ ReadGuards \/ \E e \in Email : Vouch(e)
  <2>1. UNCHANGED <<enabled, ledger, last, report, trail>> /\ at' # "publish"
    BY <1>2 DEF StoredLinksAndConfirmations, ReadMembers, ReadInvitationsAndTeams, MatchProfiles,
                Holders, ReadGuards, Vouch, console, process
  <2>. QED
    BY <2>1, TrailKept
<1>3. CASE DecideAndGuard
  BY <1>3, TrailKept DEF DecideAndGuard, console, process
<1>4. ASSUME NEW a \in actions, Apply(a) PROVE TrailInv'
  BY <1>4, TrailKept DEF Apply, console, process
<1>5. CASE RecordNewlyHeld
  BY <1>5, RecordTrail
<1>6. CASE Publish
  <2>1. UNCHANGED <<enabled, ledger, last>> /\ at' = "idle" /\ last # {}
    BY <1>6 DEF Publish, process, EndPass, TrailInv
  <2>2. CASE Store
    BY <2>1, <2>2, StoreTrail
  <2>3. CASE UNCHANGED <<report, trail>>
    BY <2>1, <2>3, TrailKept
  <2>. QED
    BY <1>6, <2>2, <2>3 DEF Publish
<1>7. CASE Fail
  <2>1. UNCHANGED <<enabled, ledger, last>> /\ at' = "idle"
    BY <1>7 DEF Fail, process, EndPass
  <2>2. CASE last # {} /\ Store
    BY <2>1, <2>2, StoreTrail
  <2>3. CASE last = {} /\ report' \in Previous /\ UNCHANGED trail
    <3>1. report'.held \subseteq report.held
      BY <2>3 DEF Previous, NoReport
    <3>. QED
      BY <2>1, <2>3, <3>1 DEF TrailInv, Settled
  <2>4. CASE UNCHANGED <<report, trail>>
    BY <2>1, <2>4, TrailKept
  <2>. QED
    BY <1>7, <2>2, <2>3, <2>4 DEF Fail
<1>8. CASE Restart
  <2>1. ledger' = {} /\ last' = {} /\ UNCHANGED <<report, trail>> /\ at' = "idle"
    BY <1>8 DEF Restart, EndPass, console
  <2>. QED
    BY <2>1 DEF TrailInv, Settled
<1>9. CASE DirectoryChanges
  BY <1>9, TrailKept DEF DirectoryChanges, console, world, process, pass
<1>10. ASSUME NEW l \in Login,
              \/ \E emails \in SUBSET Email : Link(l, emails)
              \/ LinkChecked(l) \/ Accept(l) \/ Expire(l) \/ MemberChanges(l)
       PROVE  TrailInv'
  <2>1. UNCHANGED <<enabled, ledger, last, report, trail, at, rows>>
    BY <1>10 DEF Link, LinkChecked, Accept, Expire, MemberChanges, console, world, process, pass
  <2>. QED
    BY <2>1, TrailKept
<1>11. CASE ConfirmGitHubRemovals \/ Lapse
  <2>1. UNCHANGED <<enabled, ledger, last, report, trail, at, rows>>
    BY <1>11 DEF ConfirmGitHubRemovals, Lapse, world, process, pass
  <2>. QED
    BY <2>1, TrailKept
<1>. QED
  BY <1>1, <1>2, <1>3, <1>4, <1>5, <1>6, <1>7, <1>8, <1>9, <1>10, <1>11 DEF Next, PassStep

\* Every held or reported row of an enabled organisation was recorded since it became
\* held, when its report goes out (recordNewlyHeld, Ledger.Fresh), across restarts,
\* switches on and off and reports the store did not take or give: but for the rows whose
\* record was lost, and those a new process found in a stored report that was not that of
\* the last pass, or not of one that acted.
THEOREM HeldAreRecorded == Spec => []HeldRecorded
<1>1. Init => TrailInv
  BY DEF Init, TrailInv, NoReport, Settled
<1>2. TrailInv => HeldRecorded
  BY DEF TrailInv, HeldRecorded, Settled
<1>3. Spec => []TypeInv
  BY InitType, StepType, PTL DEF Spec
<1>. QED
  BY <1>1, <1>2, <1>3, StepTrail, PTL DEF Spec

-----------------------------------------------------------------------------
(* Seats.                                                                  *)

\* Sets of accounts, counted.
LEMMA CountAdd ==
    ASSUME NEW S, S \subseteq Login, NEW l \in Login
    PROVE  /\ Cardinality(S) \in Nat
           /\ Cardinality(S \cup {l}) \in Nat /\ Cardinality(S \cup {l}) <= Cardinality(S) + 1
           /\ Cardinality(S \ {l}) \in Nat /\ Cardinality(S \ {l}) <= Cardinality(S)
           /\ l \in S => Cardinality(S \ {l}) = Cardinality(S) - 1
<1>1. IsFiniteSet(S) /\ Cardinality(S) \in Nat
  BY CardNat
<1>2. Cardinality(S \cup {l}) = IF l \in S THEN Cardinality(S) ELSE Cardinality(S) + 1
  BY <1>1, FS_AddElement
<1>3. Cardinality(S \ {l}) = IF l \in S THEN Cardinality(S) - 1 ELSE Cardinality(S)
  BY <1>1, FS_RemoveElement
<1>4. Cardinality(S \ {l}) \in Nat /\ Cardinality(S \cup {l}) \in Nat
  BY CardNat
<1>. QED
  BY <1>1, <1>2, <1>3, <1>4

\* Fewer accounts count for less.
LEMMA CountMonotonic ==
    ASSUME NEW S, NEW T, S \subseteq T, T \subseteq Login
    PROVE  Cardinality(S) \in Nat /\ Cardinality(T) \in Nat /\ Cardinality(S) <= Cardinality(T)
<1>1. IsFiniteSet(T) /\ Cardinality(T) \in Nat /\ Cardinality(S) \in Nat
  BY CardNat
<1>. QED
  BY <1>1, FS_Subset

\* Nobody is added: neither to the members nor to the invited, nor to what the pass has left.
LEMMA SeatsShrink ==
    ASSUME TypeInv, SeatInv, UNCHANGED <<at, d, seats>>, actions' = actions,
           member' \subseteq member, Inviting' \subseteq Inviting
    PROVE  SeatInv'
<1>0. d \in Reads /\ d.free \in Nat /\ seats \in Nat
  BY ReadsFields DEF TypeInv, TypeOK
<1>1. member \subseteq Login /\ Inviting \subseteq Login
  BY DEF TypeInv, TypeOK, Inviting
<1>2. /\ Cardinality(member) \in Nat /\ Cardinality(member') \in Nat /\ Cardinality(member') <= Cardinality(member)
      /\ Cardinality(Inviting) \in Nat /\ Cardinality(Inviting') \in Nat /\ Cardinality(Inviting') <= Cardinality(Inviting)
  BY <1>1, CountMonotonic
<1>3. Invites(actions') = Invites(actions)
  OBVIOUS
<1>4. at = "act" => Cardinality(Invites(actions)) \in Nat
  BY FS_CardinalityType DEF SeatInv
<1>. QED
  BY <1>0, <1>2, <1>3, <1>4 DEF SeatInv

\* Somebody accepts an invitation: the seat it held is theirs.
LEMMA AcceptSeats ==
    ASSUME TypeInv, SeatInv, NEW l \in Login, Accept(l)
    PROVE  SeatInv'
<1>0. d \in Reads /\ d.free \in Nat /\ seats \in Nat /\ member \subseteq Login
      /\ invited \in [Login -> SUBSET (teams \cup {Org})]
  BY ReadsFields DEF TypeInv, TypeOK
<1>1. Inviting \subseteq Login /\ l \in Inviting
  BY DEF Accept, Inviting
<1>2. Inviting' = Inviting \ {l} /\ member' = member \cup {l}
  BY <1>0 DEF Accept, Inviting
<1>3. UNCHANGED <<at, d, actions, seats>>
  BY DEF Accept, world, pass
<1>4. /\ Cardinality(member) \in Nat /\ Cardinality(member') \in Nat /\ Cardinality(member') <= Cardinality(member) + 1
      /\ Cardinality(Inviting) \in Nat /\ Cardinality(Inviting') = Cardinality(Inviting) - 1
      /\ Cardinality(Inviting') \in Nat
  BY <1>0, <1>1, <1>2, CountAdd
<1>5. Invites(actions') = Invites(actions) /\ Inviting' \subseteq Inviting
  BY <1>2, <1>3
<1>6. at = "act" => Cardinality(Invites(actions)) \in Nat
  BY FS_CardinalityType DEF SeatInv
<1>7. Cardinality(member') + Cardinality(Inviting') <= Cardinality(member) + Cardinality(Inviting)
  BY <1>4
<1>. QED
  BY <1>0, <1>3, <1>4, <1>5, <1>6, <1>7 DEF SeatInv

\* One change: an invitation takes one of the seats the pass has left for them.
LEMMA ApplySeats ==
    ASSUME TypeInv, SeatInv, NEW a \in actions, Apply(a)
    PROVE  SeatInv'
<1>0. /\ seats \in Nat /\ member \subseteq Login /\ Inviting \subseteq Login
      /\ invited \in [Login -> SUBSET (teams \cup {Org})] /\ a.login \in Login
  BY DEF TypeInv, TypeOK, Inviting, ActionRecord
<1>1. /\ at = "act" /\ UNCHANGED <<at, d, seats>> /\ actions' = actions \ {a}
  BY DEF Apply
<1>2. /\ IsFiniteSet(Invites(actions)) /\ Cardinality(Invites(actions)) \in Nat
      /\ Cardinality(member) + Cardinality(Inviting) + Cardinality(Invites(actions)) <= seats
      /\ Cardinality(member) \in Nat /\ Cardinality(Inviting) \in Nat
  BY <1>0, <1>1, FS_CardinalityType, CardNat DEF SeatInv
<1>3. Invites(actions') = Invites(actions) \ {a}
  BY <1>1 DEF Invites
<1>4. /\ IsFiniteSet(Invites(actions')) /\ Cardinality(Invites(actions')) \in Nat
      /\ Cardinality(Invites(actions')) =
           IF a \in Invites(actions) THEN Cardinality(Invites(actions)) - 1 ELSE Cardinality(Invites(actions))
  BY <1>2, <1>3, FS_RemoveElement, FS_CardinalityType
<1>5. CASE UNCHANGED <<member, invited>>
  <2>1. Inviting' = Inviting /\ member' = member
    BY <1>5 DEF Inviting
  <2>. QED
    BY <1>0, <1>1, <1>2, <1>4, <2>1 DEF SeatInv
<1>6. CASE Change(a) /\ a.kind = "invite"
  <2>1. member' = member /\ Inviting' \subseteq Inviting \cup {a.login}
    BY <1>0, <1>6 DEF Change, Inviting
  <2>2. Cardinality(Inviting') \in Nat /\ Cardinality(Inviting') <= Cardinality(Inviting) + 1
    <3>1. Cardinality(Inviting \cup {a.login}) \in Nat /\ Cardinality(Inviting \cup {a.login}) <= Cardinality(Inviting) + 1
      BY <1>0, CountAdd
    <3>2. Inviting \cup {a.login} \subseteq Login
      BY <1>0
    <3>3. Cardinality(Inviting') \in Nat /\ Cardinality(Inviting') <= Cardinality(Inviting \cup {a.login})
      BY <2>1, <3>2, CountMonotonic
    <3>. QED
      BY <1>2, <3>1, <3>3
  <2>3. a \in Invites(actions)
    BY <1>6 DEF Invites
  <2>. QED
    BY <1>0, <1>1, <1>2, <1>4, <2>1, <2>2, <2>3 DEF SeatInv
<1>7. CASE Change(a) /\ a.kind # "invite"
  <2>1. Inviting' = Inviting /\ member' \subseteq member
    BY <1>7 DEF Change, Inviting
  <2>2. Cardinality(member') \in Nat /\ Cardinality(member') <= Cardinality(member)
    BY <1>0, <2>1, CountMonotonic
  <2>. QED
    BY <1>0, <1>1, <1>2, <1>4, <2>1, <2>2 DEF SeatInv
<1>. QED
  BY <1>5, <1>6, <1>7 DEF Apply

\* The seats are counted: those invited by now were invited when the pass read who is.
LEMMA GuardsSeats ==
    ASSUME TypeInv, SeatInv, ReadGuards
    PROVE  SeatInv'
<1>. DEFINE n == Cardinality(member)
            i == Cardinality(Inviting)
            p == Cardinality(d.invited)
<1>0. /\ d \in Reads /\ d.invited \subseteq Login /\ seats \in Nat /\ member \subseteq Login /\ Inviting \subseteq Login
      /\ d.free = 0
  BY ReadsFields DEF TypeInv, TypeOK, Shape, ReadGuards, Inviting
<1>1. UNCHANGED <<member, invited, seats, actions>> /\ at = "plan" /\ at' = "ask"
  BY DEF ReadGuards, github
<1>2. Inviting \subseteq d.invited /\ n + i <= seats
  BY <1>1 DEF SeatInv
<1>3. n \in Nat /\ i \in Nat /\ p \in Nat /\ i <= p
  BY <1>0, <1>2, CountMonotonic, CardNat
<1>4. d'.free \in {0, Free(n, p)}
  BY <1>0, GuardsReads
<1>5. member' = member /\ Inviting' = Inviting
  BY <1>1 DEF Inviting
<1>. HIDE DEF n, i, p
<1>6. n + i + d'.free <= seats
  BY <1>0, <1>2, <1>3, <1>4 DEF Free
<1>. QED
  BY <1>1, <1>2, <1>5, <1>6 DEF SeatInv, n, i

\* What is let through fits in the seats that were free.
LEMMA DecideSeats ==
    ASSUME TypeInv, SeatInv, DecideAndGuard
    PROVE  SeatInv'
<1>0. /\ d \in Reads /\ d.free \in Nat /\ seats \in Nat /\ member \subseteq Login /\ Inviting \subseteq Login
  BY ReadsFields DEF TypeInv, TypeOK, Inviting
<1>1. UNCHANGED <<member, invited, seats>> /\ at = "ask" /\ at' = "act"
  BY DEF DecideAndGuard, github
<1>2. /\ IsFiniteSet(Invites(actions')) /\ Cardinality(Invites(actions')) <= d.free
      /\ Cardinality(Invites(actions')) \in Nat
  BY DecideDoes, FS_CardinalityType
<1>3. member' = member /\ Inviting' = Inviting
  BY <1>1 DEF Inviting
<1>4. Cardinality(member) \in Nat /\ Cardinality(Inviting) \in Nat
  BY <1>0, CardNat
<1>. QED
  BY <1>0, <1>1, <1>2, <1>3, <1>4 DEF SeatInv

\* Every step keeps the seats.
LEMMA StepSeats ==
    TypeInv /\ SeatInv /\ [Next]_vars => SeatInv'
<1>. SUFFICES ASSUME TypeInv, SeatInv, [Next]_vars PROVE SeatInv'
  OBVIOUS
<1>0. ASSUME UNCHANGED <<member, invited, seats>>, at' \notin {"ask", "act"},
             at' \in {"holders", "plan"} => Inviting \subseteq d'.invited
      PROVE  SeatInv'
  <2>1. member' = member /\ Inviting' = Inviting /\ seats' = seats
    BY <1>0 DEF Inviting
  <2>. QED
    BY <1>0, <2>1 DEF SeatInv
<1>1. CASE UNCHANGED vars
  <2>1. Inviting' = Inviting /\ UNCHANGED <<at, d, seats, actions, member>>
    BY <1>1 DEF vars, github, pass, Inviting
  <2>. QED
    BY <2>1, SeatsShrink
<1>2. CASE StoredLinksAndConfirmations
  BY <1>0, <1>2 DEF StoredLinksAndConfirmations, github
<1>3. CASE ReadMembers
  BY <1>0, <1>3 DEF ReadMembers, github
<1>4. CASE ReadInvitationsAndTeams
  BY <1>0, <1>4, TeamsReads DEF ReadInvitationsAndTeams, github
<1>5. CASE MatchProfiles
  BY <1>0, <1>5, MatchReads DEF MatchProfiles, github, SeatInv
<1>6. ASSUME NEW g \in Group, Holders(g) PROVE SeatInv'
  BY <1>0, <1>6, HoldersReads DEF Holders, github, SeatInv
<1>7. CASE ReadGuards
  BY <1>7, GuardsSeats
<1>8. ASSUME NEW e \in Email, Vouch(e) PROVE SeatInv'
  <2>1. UNCHANGED <<member, invited, seats, at, actions>> /\ d'.free = d.free /\ at = "ask"
    BY <1>8, VouchDoes DEF Vouch, github
  <2>2. Inviting' = Inviting /\ member' = member
    BY <2>1 DEF Inviting
  <2>. QED
    BY <2>1, <2>2 DEF SeatInv
<1>9. CASE DecideAndGuard
  BY <1>9, DecideSeats
<1>10. ASSUME NEW a \in actions, Apply(a) PROVE SeatInv'
  BY <1>10, ApplySeats
<1>11. CASE RecordNewlyHeld
  BY <1>0, <1>11 DEF RecordNewlyHeld, github
<1>12. CASE Publish \/ Fail \/ Restart
  BY <1>0, <1>12 DEF Publish, Fail, Restart, EndPass, github
<1>13. CASE DirectoryChanges \/ ConfirmGitHubRemovals \/ Lapse
  <2>1. UNCHANGED <<at, d, seats, actions, member, invited>>
    BY <1>13 DEF DirectoryChanges, ConfirmGitHubRemovals, Lapse, github, world, pass
  <2>2. Inviting' = Inviting
    BY <2>1 DEF Inviting
  <2>. QED
    BY <2>1, <2>2, SeatsShrink
<1>14. ASSUME NEW l \in Login PROVE Accept(l) => SeatInv'
  BY AcceptSeats
<1>15. ASSUME NEW l \in Login,
              (\E emails \in SUBSET Email : Link(l, emails)) \/ LinkChecked(l) \/ Expire(l) \/ MemberChanges(l)
       PROVE  SeatInv'
  <2>1. UNCHANGED <<at, d, seats, actions>> /\ member' \subseteq member
    BY <1>15 DEF Link, LinkChecked, Expire, MemberChanges, github, world, pass
  <2>2. Inviting' \subseteq Inviting
    <3>1. invited' = invited \/ invited' = [invited EXCEPT ![l] = {}]
      BY <1>15 DEF Link, LinkChecked, Expire, MemberChanges, github
    <3>2. invited \in [Login -> SUBSET (teams \cup {Org})]
      BY DEF TypeInv, TypeOK
    <3>. QED
      BY <3>1, <3>2 DEF Inviting
  <2>. QED
    BY <2>1, <2>2, SeatsShrink
<1>. QED
  BY <1>1, <1>2, <1>3, <1>4, <1>5, <1>6, <1>7, <1>8, <1>9, <1>10, <1>11, <1>12, <1>13, <1>14, <1>15
     DEF Next, PassStep

\* The controller never invites past the last seat (fitSeats), for any number of seats,
\* members and pending invitations, whoever accepts or leaves between its reads.
THEOREM SeatsAreKept == Spec => []SeatsKept
<1>1. Init => SeatInv
  <2>. SUFFICES ASSUME Init PROVE SeatInv
    OBVIOUS
  <2>1. Inviting = {}
    BY DEF Init, Inviting
  <2>2. Cardinality(member) \in Nat /\ Cardinality(member) <= seats /\ at = "idle"
    BY CardNat DEF Init
  <2>. QED
    BY <2>1, <2>2, FS_EmptySet DEF SeatInv
<1>2. Spec => []TypeInv
  BY InitType, StepType, PTL DEF Spec
<1>3. SeatInv => SeatsKept
  BY DEF SeatInv, SeatsKept, Inviting
<1>. QED
  BY <1>1, <1>2, <1>3, StepSeats, PTL DEF Spec

=============================================================================
