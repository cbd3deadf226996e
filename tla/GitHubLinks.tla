---------------------------- MODULE GitHubLinks ----------------------------
(***************************************************************************)
(* People's linked GitHub accounts: the store that keeps one link an       *)
(* account, the page where a person links, the controller that asks GitHub *)
(* about every link and renews its token pair, the import of links nobody  *)
(* made, and disconnecting the link App.                                   *)
(*                                                                         *)
(* A process is one such operation, at any replica, a step of it one call  *)
(* to the store or to GitHub.  The store edits a link by compare-and-swap  *)
(* and re-reads on every conflict, so an edit is one step; a link's own    *)
(* revision is modelled by who has read the link as it stands (cur): every *)
(* write takes that from everybody else.  A token pair is a name, reused   *)
(* once nothing refers to it; which account has it is part of the name.    *)
(***************************************************************************)
EXTENDS Naturals, FiniteSets

CONSTANTS
    Account,  \* GitHub accounts
    Email,    \* work addresses the directory knows
    Pair,     \* names for an account's token pairs
    App,      \* link Apps
    Proc,     \* operations under way
    Overlap,  \* whether two link checks may run at once: a lease that was lost
    MaxEvents, \* bound: operations begun, changes at GitHub, calls that fail, processes that die
    None

ASSUME LinksAssumption ==
    /\ None \notin Pair \cup Account \cup App
    /\ Overlap \in BOOLEAN
    /\ MaxEvents \in Nat

VARIABLES
    verified, \* GitHub: the addresses verified on an account
    live,     \* GitHub: the pairs it honours
    revoked,  \* GitHub: the pairs whose authorization the person revoked
    app,      \* the connected link App
    link,     \* the stored link of an account
    marker,   \* accounts with a claim to finish
    pc, kind, \* where a process is, and in which operation
    cred,     \* the link App it works with
    seen,     \* the links as it read them, or as its check left them
    cur,      \* the accounts whose link it has read as it stands
    todo,     \* what its walk has left
    changed,  \* what its check has to write
    on,       \* the account it is about
    claim,    \* the addresses it takes off every other link
    marks,    \* the markers it read, unwritten since
    cut,      \* history: accounts claimed twice at once, or whose marker a reader took up during a claim
    events

world == <<verified, live, revoked>>
local == <<kind, cred, seen, todo, changed, on, claim>>
vars  == <<world, app, link, marker, pc, local, cur, marks, cut, events>>

\* root and was are history: the pair the person's own linking issued, and the
\* pair a link was lost with on GitHub's word that it is invalid.
Link == [state: {"none", "linked", "lost", "unverifiable"}, self: BOOLEAN,
         emails: SUBSET Email, pair: Pair \cup {None}, refreshing: BOOLEAN,
         app: App \cup {None}, root: Pair \cup {None}, was: Pair \cup {None}]

NoLink == [state |-> "none", self |-> FALSE, emails |-> {}, pair |-> None,
           refreshing |-> FALSE, app |-> None, root |-> None, was |-> None]

Kinds == {"none", "check", "claim", "adopt", "disconnect"}

Places == {"idle", "emails", "mark", "write", "others", "narrow", "unmark", "markers", "finish", "list",
           "check", "next", "checkapp", "probe", "due", "claimrefresh", "elsewhere", "exchange",
           "refused", "keep", "user", "update", "adopt", "adoptwrite", "disconnect", "deleteapp"}

TypeOK ==
    /\ verified \in [Account -> SUBSET Email]
    /\ live \in [Account -> SUBSET Pair] /\ revoked \in [Account -> SUBSET Pair]
    /\ app \in App \cup {None}
    /\ link \in [Account -> Link]
    /\ marker \subseteq Account
    /\ pc \in [Proc -> Places] /\ kind \in [Proc -> Kinds]
    /\ cred \in [Proc -> App \cup {None}]
    /\ seen \in [Proc -> [Account -> Link]]
    /\ cur \in [Proc -> SUBSET Account]
    /\ todo \in [Proc -> SUBSET Account] /\ changed \in [Proc -> SUBSET Account]
    /\ on \in [Proc -> Account \cup {None}]
    /\ claim \in [Proc -> SUBSET Email]
    /\ marks \in [Proc -> SUBSET Account]
    /\ cut \subseteq Account
    /\ events \in 0..MaxEvents

Init ==
    /\ verified \in [Account -> SUBSET Email]
    /\ live = [a \in Account |-> {}] /\ revoked = [a \in Account |-> {}]
    /\ app \in App
    /\ link = [a \in Account |-> NoLink]
    /\ marker = {}
    /\ pc = [p \in Proc |-> "idle"] /\ kind = [p \in Proc |-> "none"]
    /\ cred = [p \in Proc |-> None]
    /\ seen = [p \in Proc |-> [a \in Account |-> NoLink]]
    /\ cur = [p \in Proc |-> {}] /\ todo = [p \in Proc |-> {}] /\ changed = [p \in Proc |-> {}]
    /\ on = [p \in Proc |-> None] /\ claim = [p \in Proc |-> {}] /\ marks = [p \in Proc |-> {}]
    /\ cut = {}
    /\ events = 0

At(p, place) == pc[p] = place
Go(p, place) == pc' = [pc EXCEPT ![p] = place]
Event        == events < MaxEvents /\ events' = events + 1
Active(l)    == l.state = "linked" /\ l.emails # {}
Mine(p)      == seen[p][on[p]]

Named(l)     == {l.pair, l.root, l.was}
Unused(a)    == Pair \ (Named(link[a]) \cup UNION {Named(seen[p][a]) : p \in Proc})
Mint(a)      == CHOOSE new \in Unused(a) : TRUE
Names(a)     == Unused(a) # {}  \* bound: a pair is issued while there is a name for it

\* Every write moves the link's revision: nobody else's read stands.
Write(p, a, l) ==
    /\ link' = [link EXCEPT ![a] = l]
    /\ cur' = [q \in Proc |-> IF q = p THEN cur[q] \cup {a} ELSE cur[q] \ {a}]

\* A process forgets everything when its operation ends.
Done(p) ==
    /\ Go(p, "idle")
    /\ kind' = [kind EXCEPT ![p] = "none"] /\ cred' = [cred EXCEPT ![p] = None]
    /\ seen' = [seen EXCEPT ![p] = [a \in Account |-> NoLink]]
    /\ todo' = [todo EXCEPT ![p] = {}] /\ changed' = [changed EXCEPT ![p] = {}]
    /\ on' = [on EXCEPT ![p] = None] /\ claim' = [claim EXCEPT ![p] = {}]

-----------------------------------------------------------------------------
(* What happens at GitHub.                                                 *)

Verify(a, emails) ==
    /\ emails # verified[a]
    /\ verified' = [verified EXCEPT ![a] = emails]
    /\ Event
    /\ UNCHANGED <<live, revoked, app, link, marker, pc, local, cur, marks, cut>>

\* The person revokes the authorization: every pair of the account is dead.
Revoke(a) ==
    /\ live[a] # {}
    /\ revoked' = [revoked EXCEPT ![a] = @ \cup live[a]]
    /\ live' = [live EXCEPT ![a] = {}]
    /\ Event
    /\ UNCHANGED <<verified, app, link, marker, pc, local, cur, marks, cut>>

\* GitHub issues a pair; the one it replaces is dead from that moment.
Issue(a, old, new) ==
    /\ live' = [live EXCEPT ![a] = (@ \ {old}) \cup {new}]
    /\ revoked' = [revoked EXCEPT ![a] = @ \ {new}]
    /\ UNCHANGED verified

\* GitHub knows a token only under the App it was issued to.
Valid(a, l, credential) == l.pair \in live[a] /\ l.app = credential

-----------------------------------------------------------------------------
(* A person links an account.                                              *)

\* The callback exchanges the code GitHub sent the person back with ...
LinkCallback(p, a) ==
    /\ At(p, "idle") /\ app # None /\ Names(a)
    /\ Event
    /\ Issue(a, None, Mint(a))
    /\ seen' = [seen EXCEPT ![p][a] = [NoLink EXCEPT !.state = "linked", !.self = TRUE,
                   !.pair = Mint(a), !.root = Mint(a), !.app = app]]
    /\ kind' = [kind EXCEPT ![p] = "claim"] /\ cred' = [cred EXCEPT ![p] = app]
    /\ on' = [on EXCEPT ![p] = a]
    /\ Go(p, "emails")
    /\ UNCHANGED <<app, link, marker, todo, changed, claim, cur, marks, cut>>

\* ... reads the account's verified addresses, keeps the ones the directory vouches
\* for, and refuses when there is none.
LinkableAddresses(p) ==
    /\ At(p, "emails")
    /\ \E accepted \in SUBSET verified[on[p]] :
         IF accepted = {} THEN Done(p)
         ELSE /\ seen' = [seen EXCEPT ![p][on[p]] = [Mine(p) EXCEPT !.emails = accepted]]
              /\ claim' = [claim EXCEPT ![p] = accepted]
              /\ Go(p, "mark")
              /\ UNCHANGED <<kind, cred, todo, changed, on>>
    /\ UNCHANGED <<world, app, link, marker, cur, marks, cut, events>>

\* Another claim of the account is under way.
Claimed(p, a) ==
    IF \E q \in Proc \ {p} : kind[q] = "claim" /\ on[q] = a /\ ~At(q, "emails") THEN {a} ELSE {}

\* Claim: the marker first ...
PutMarker(p) ==
    /\ At(p, "mark")
    /\ marker' = marker \cup {on[p]}
    /\ marks' = [q \in Proc |-> marks[q] \ {on[p]}]
    /\ cut' = cut \cup Claimed(p, on[p])
    /\ Go(p, "write")
    /\ UNCHANGED <<world, app, link, local, cur, events>>

\* ... then the link, whatever was there ...
ClaimWrite(p) ==
    /\ At(p, "write")
    /\ Write(p, on[p], Mine(p))
    /\ Go(p, "others")
    /\ UNCHANGED <<world, app, marker, local, marks, cut, events>>

\* ... then its addresses come off every other link: narrow lists the accounts ...
NarrowList(p) ==
    /\ At(p, "others")
    /\ todo' = [todo EXCEPT ![p] = {b \in Account \ {on[p]} : link[b].state # "none"}]
    /\ Go(p, "narrow")
    /\ UNCHANGED <<world, app, link, marker, kind, cred, seen, changed, on, claim, cur, marks, cut, events>>

\* What another link still proves; with nothing left to prove it is lost.
Narrowed(l, taken) ==
    IF l.state # "linked" \/ l.emails \cap taken = {} THEN l
    ELSE IF l.emails \subseteq taken
         THEN [l EXCEPT !.emails = {}, !.state = "lost", !.pair = None, !.refreshing = FALSE]
         ELSE [l EXCEPT !.emails = @ \ taken]

\* ... and rewrites each against the link as it stands then.
Narrow(p) ==
    /\ At(p, "narrow")
    /\ IF todo[p] = {}
       THEN Go(p, "unmark") /\ UNCHANGED <<link, cur, todo>>
       ELSE \E b \in todo[p] :
            /\ todo' = [todo EXCEPT ![p] = @ \ {b}]
            /\ IF Narrowed(link[b], claim[p]) = link[b] THEN UNCHANGED <<link, cur>>
               ELSE Write(p, b, Narrowed(link[b], claim[p]))
            /\ UNCHANGED pc
    /\ UNCHANGED <<world, app, marker, kind, cred, seen, changed, on, claim, marks, cut, events>>

\* The claim's own marker goes whoever wrote it; a finished claim's only if it is
\* the one that was read.
Unmark(p) ==
    /\ At(p, "unmark")
    /\ IF kind[p] = "claim"
       THEN marker' = marker \ {on[p]} /\ Done(p)
       ELSE /\ marker' = marker \ ({on[p]} \cap marks[p])
            /\ Go(p, "finish") /\ UNCHANGED local
    /\ marks' = [q \in Proc |-> marks[q] \ {on[p]}]
    /\ UNCHANGED <<world, app, link, cur, cut, events>>

-----------------------------------------------------------------------------
(* List finishes the claims a writer left half done, whoever reads.        *)

Markers(p) ==
    /\ At(p, "markers")
    /\ marks' = [marks EXCEPT ![p] = marker]
    /\ changed' = [changed EXCEPT ![p] = marker]
    /\ Go(p, "finish")
    /\ UNCHANGED <<world, app, link, marker, kind, cred, seen, todo, on, claim, cur, cut, events>>

\* Mutant: the marker goes and nothing is narrowed.
FinishClaimsForgetful(p) ==
    /\ At(p, "finish")
    /\ IF changed[p] = {}
       THEN Go(p, "list") /\ UNCHANGED <<changed, on>>
       ELSE \E a \in changed[p] :
            /\ changed' = [changed EXCEPT ![p] = @ \ {a}]
            /\ on' = [on EXCEPT ![p] = a]
            /\ Go(p, "unmark")
    /\ UNCHANGED <<world, app, link, marker, kind, cred, seen, todo, claim, cur, marks, cut, events>>

FinishClaims(p) ==
    /\ At(p, "finish")
    /\ IF changed[p] = {}
       THEN Go(p, "list") /\ UNCHANGED <<changed, on, claim, cut>>
       ELSE \E a \in changed[p] :
            /\ changed' = [changed EXCEPT ![p] = @ \ {a}]
            /\ on' = [on EXCEPT ![p] = a]
            /\ claim' = [claim EXCEPT ![p] = link[a].emails]
            /\ cut' = cut \cup Claimed(p, a)
            /\ Go(p, IF link[a].state = "linked" THEN "others" ELSE "unmark")
    /\ UNCHANGED <<world, app, link, marker, kind, cred, seen, todo, cur, marks, events>>

List(p) ==
    /\ At(p, "list")
    /\ seen' = [seen EXCEPT ![p] = link]
    /\ cur' = [cur EXCEPT ![p] = Account]
    /\ on' = [on EXCEPT ![p] = None] /\ claim' = [claim EXCEPT ![p] = {}]
    /\ todo' = [todo EXCEPT ![p] = {a \in Account : link[a].state = "linked" /\ link[a].self}]
    /\ Go(p, kind[p])
    /\ UNCHANGED <<world, app, link, marker, kind, cred, changed, marks, cut, events>>

Start(p, operation) ==
    /\ At(p, "idle")
    /\ operation = "check" /\ ~Overlap => \A q \in Proc : kind[q] # "check"
    /\ Event
    /\ kind' = [kind EXCEPT ![p] = operation]
    /\ Go(p, "markers")
    /\ UNCHANGED <<world, app, link, marker, cred, seen, todo, changed, on, claim, cur, marks, cut>>

-----------------------------------------------------------------------------
(* The link check.                                                         *)

\* Without the link App's credential no link is checked.
LinkCredential(p) ==
    /\ At(p, "check")
    /\ IF app = None THEN Done(p)
       ELSE /\ cred' = [cred EXCEPT ![p] = app] /\ Go(p, "next")
            /\ UNCHANGED <<kind, seen, todo, changed, on, claim>>
    /\ UNCHANGED <<world, app, link, marker, cur, marks, cut, events>>

\* The link as this check leaves it; what it found is written when all are done.
Found(p, l) ==
    /\ seen' = [seen EXCEPT ![p][on[p]] = l]
    /\ changed' = [changed EXCEPT ![p] = @ \cup {on[p]}]
    /\ Go(p, "next")

Lose(l, was)    == [l EXCEPT !.state = "lost", !.pair = None, !.refreshing = FALSE, !.was = was]
Unverifiable(l) == [l EXCEPT !.state = "unverifiable", !.pair = None, !.refreshing = FALSE]

CheckNext(p) ==
    /\ At(p, "next")
    /\ IF todo[p] = {}
       THEN Go(p, "update") /\ on' = [on EXCEPT ![p] = None] /\ UNCHANGED todo
       ELSE \E a \in todo[p] :
            /\ todo' = [todo EXCEPT ![p] = @ \ {a}]
            /\ on' = [on EXCEPT ![p] = a]
            /\ Go(p, "checkapp")
    /\ UNCHANGED <<world, app, link, marker, kind, cred, seen, changed, claim, cur, marks, cut, events>>

\* Mutant: a token is checked with whatever App is connected.
CheckAppAny(p) ==
    /\ At(p, "checkapp")
    /\ Go(p, IF Mine(p).refreshing THEN "probe" ELSE "due")
    /\ UNCHANGED <<world, app, link, marker, local, cur, marks, cut, events>>

CheckApp(p) ==
    /\ At(p, "checkapp")
    /\ IF Mine(p).app # cred[p] THEN Found(p, Unverifiable(Mine(p)))
       ELSE Go(p, IF Mine(p).refreshing THEN "probe" ELSE "due") /\ UNCHANGED <<seen, changed>>
    /\ UNCHANGED <<world, app, link, marker, kind, cred, todo, on, claim, cur, marks, cut, events>>

\* A refresh that started and never finished: only if the old token still works
\* is nothing lost.
Probe(p) ==
    /\ At(p, "probe")
    /\ IF Valid(on[p], Mine(p), cred[p])
       THEN /\ seen' = [seen EXCEPT ![p][on[p]] = [Mine(p) EXCEPT !.refreshing = FALSE]]
            /\ Go(p, "due") /\ UNCHANGED changed
       ELSE Found(p, Unverifiable(Mine(p)))
    /\ UNCHANGED <<world, app, link, marker, kind, cred, todo, on, claim, cur, marks, cut, events>>

\* Whether the pair is near its end is a matter of time.
RefreshDue(p) ==
    /\ At(p, "due")
    /\ Go(p, "claimrefresh") \/ Go(p, "user")
    /\ UNCHANGED <<world, app, link, marker, local, cur, marks, cut, events>>

\* The marker write is the claim: who loses the swap looks for the winner's pair.
ClaimRefresh(p) ==
    /\ At(p, "claimrefresh")
    /\ IF on[p] \in cur[p]
       THEN /\ seen' = [seen EXCEPT ![p][on[p]] = [Mine(p) EXCEPT !.refreshing = TRUE]]
            /\ Write(p, on[p], [Mine(p) EXCEPT !.refreshing = TRUE])
            /\ Go(p, "exchange")
       ELSE Go(p, "elsewhere") /\ UNCHANGED <<seen, link, cur>>
    /\ UNCHANGED <<world, app, marker, kind, cred, todo, changed, on, claim, marks, cut, events>>

RefreshedElsewhere(p) ==
    /\ At(p, "elsewhere")
    /\ LET l == link[on[p]] IN
       \/ /\ l.state = "linked" /\ ~l.refreshing /\ l.pair # None
          /\ seen' = [seen EXCEPT ![p][on[p]] = l]
          /\ cur' = [cur EXCEPT ![p] = @ \cup {on[p]}]
          /\ changed' = [changed EXCEPT ![p] = @ \cup {on[p]}]
          /\ Go(p, "user")
       \/ Go(p, "next") /\ UNCHANGED <<seen, cur, changed>>
    /\ UNCHANGED <<world, app, link, marker, kind, cred, todo, on, claim, marks, cut, events>>

\* GitHub honours a refresh token once.  Its answer may be lost after it issued the
\* new pair; and it may refuse for a reason of its own.
RefreshUserTokens(p) ==
    /\ At(p, "exchange")
    /\ \/ /\ Valid(on[p], Mine(p), cred[p]) /\ Names(on[p])
          /\ Issue(on[p], Mine(p).pair, Mint(on[p]))
          /\ \/ /\ seen' = [seen EXCEPT ![p][on[p]] =
                              [Mine(p) EXCEPT !.pair = Mint(on[p]), !.refreshing = FALSE]]
                /\ changed' = [changed EXCEPT ![p] = @ \cup {on[p]}]
                /\ Go(p, "keep")
                /\ UNCHANGED events
             \/ Event /\ Go(p, "next") /\ UNCHANGED <<seen, changed>>
       \/ Go(p, "refused") /\ UNCHANGED <<world, seen, changed, events>>
    /\ UNCHANGED <<app, link, marker, kind, cred, todo, on, claim, cur, marks, cut>>

RefreshRefused(p) ==
    /\ At(p, "refused")
    /\ Found(p, IF Valid(on[p], Mine(p), cred[p]) THEN Unverifiable(Mine(p))
                ELSE Lose(Mine(p), Mine(p).pair))
    /\ UNCHANGED <<world, app, link, marker, kind, cred, todo, on, claim, cur, marks, cut, events>>

\* Mutant: the renewed pair is written over whatever link is there.
KeepPairAnyway(p) ==
    /\ At(p, "keep")
    /\ Write(p, on[p], Mine(p))
    /\ Go(p, "user")
    /\ UNCHANGED <<world, app, marker, local, marks, cut, events>>

\* The renewed pair is kept, or, with the swap lost, carried for the rest of the check.
KeepPair(p) ==
    /\ At(p, "keep")
    /\ IF on[p] \in cur[p] THEN Write(p, on[p], Mine(p)) ELSE UNCHANGED <<link, cur>>
    /\ Go(p, "user")
    /\ UNCHANGED <<world, app, marker, local, marks, cut, events>>

\* GitHub's word on the account, asked with the token alone: which of the link's
\* addresses it still verifies; or that the token is refused, and then the App's
\* credential is used to ask whether it is invalid.
CheckUser(p) ==
    /\ At(p, "user")
    /\ LET l == Mine(p)
           kept == l.emails \cap verified[on[p]] IN
       Found(p, IF l.pair \notin live[on[p]] THEN Lose(l, l.pair)
                ELSE IF kept = {} THEN Lose(l, None) ELSE [l EXCEPT !.emails = kept])
    /\ UNCHANGED <<world, app, link, marker, kind, cred, todo, on, claim, cur, marks, cut, events>>

\* A call fails, and says nothing: the link stays as it was for this check.
CheckFails(p) ==
    /\ pc[p] \in {"probe", "claimrefresh", "exchange", "refused", "keep", "user"}
    /\ Event
    /\ Go(p, IF At(p, "keep") THEN "user" ELSE "next")
    /\ UNCHANGED <<world, app, link, marker, local, cur, marks, cut>>

\* Update: each changed link, if it is still the one that was read.
UpdateChanged(p) ==
    /\ At(p, "update")
    /\ IF changed[p] = {} THEN Done(p) /\ UNCHANGED <<link, cur>>
       ELSE \E a \in changed[p] :
            /\ changed' = [changed EXCEPT ![p] = @ \ {a}]
            /\ IF a \in cur[p] THEN Write(p, a, seen[p][a]) ELSE UNCHANGED <<link, cur>>
            /\ UNCHANGED <<pc, kind, cred, seen, todo, on, claim>>
    /\ UNCHANGED <<world, app, marker, marks, cut, events>>

-----------------------------------------------------------------------------
(* Links nobody made, and the end of the link App.                         *)

\* A profile match or an import: never over a link that counts, and never with an
\* address another link proves, as the links were listed.
AdoptPick(p) ==
    /\ At(p, "adopt")
    /\ \E a \in Account, emails \in SUBSET Email :
         LET proven == UNION {seen[p][b].emails : b \in {c \in Account : Active(seen[p][c])}}
             kept   == emails \ proven IN
         IF Active(seen[p][a]) \/ kept = {} THEN Done(p)
         ELSE /\ on' = [on EXCEPT ![p] = a] /\ claim' = [claim EXCEPT ![p] = kept]
              /\ Go(p, "adoptwrite")
              /\ UNCHANGED <<kind, cred, seen, todo, changed>>
    /\ UNCHANGED <<world, app, link, marker, cur, marks, cut, events>>

AdoptWrite(p) ==
    /\ At(p, "adoptwrite")
    /\ IF Active(link[on[p]]) THEN UNCHANGED <<link, cur>>
       ELSE Write(p, on[p], [NoLink EXCEPT !.state = "linked", !.emails = claim[p]])
    /\ Done(p)
    /\ UNCHANGED <<world, app, marker, marks, cut, events>>

\* Disconnecting: every link made with the App first ...
Invalidate(p) ==
    /\ At(p, "disconnect")
    /\ IF todo[p] = {} THEN Go(p, "deleteapp") /\ UNCHANGED <<link, cur, todo>>
       ELSE \E a \in todo[p] :
            /\ todo' = [todo EXCEPT ![p] = @ \ {a}]
            /\ IF link[a].state = "linked" /\ link[a].self
               THEN Write(p, a, Unverifiable(link[a])) ELSE UNCHANGED <<link, cur>>
            /\ UNCHANGED pc
    /\ UNCHANGED <<world, app, marker, kind, cred, seen, changed, on, claim, marks, cut, events>>

\* ... then the App.
DeleteLinkApp(p) ==
    /\ At(p, "deleteapp")
    /\ app' = None
    /\ Done(p)
    /\ UNCHANGED <<world, link, marker, cur, marks, cut, events>>

\* GitHub's ids for Apps are not used again.
PutLinkApp(new) ==
    /\ app = None
    /\ \A a \in Account : link[a].app # new /\ \A p \in Proc : seen[p][a].app # new
    /\ Event
    /\ app' = new
    /\ UNCHANGED <<world, link, marker, pc, local, cur, marks, cut>>

\* The process dies, or its store call fails and it gives up.
Crash(p) ==
    /\ ~At(p, "idle")
    /\ Event
    /\ Done(p)
    /\ UNCHANGED <<world, app, link, marker, cur, marks, cut>>

ClaimStep(p) ==
    \/ \E a \in Account : LinkCallback(p, a)
    \/ LinkableAddresses(p) \/ PutMarker(p) \/ ClaimWrite(p) \/ NarrowList(p) \/ Narrow(p) \/ Unmark(p)

ListStep(p) ==
    \/ \E operation \in {"check", "adopt", "disconnect"} : Start(p, operation)
    \/ Markers(p) \/ FinishClaims(p) \/ List(p)

CheckStep(p) ==
    \/ LinkCredential(p) \/ CheckNext(p) \/ CheckApp(p) \/ Probe(p) \/ RefreshDue(p)
    \/ ClaimRefresh(p) \/ RefreshedElsewhere(p) \/ RefreshUserTokens(p) \/ RefreshRefused(p)
    \/ KeepPair(p) \/ CheckUser(p) \/ CheckFails(p) \/ UpdateChanged(p)

Next ==
    \/ \E a \in Account : Revoke(a) \/ \E emails \in SUBSET Email : Verify(a, emails)
    \/ \E p \in Proc : \/ ClaimStep(p) \/ ListStep(p) \/ CheckStep(p)
                       \/ AdoptPick(p) \/ AdoptWrite(p) \/ Invalidate(p) \/ DeleteLinkApp(p)
                       \/ Crash(p)
    \/ \E new \in App : PutLinkApp(new)

Spec == Init /\ [][Next]_vars

-----------------------------------------------------------------------------
(* What must hold.                                                         *)

\* A link GitHub is said to have called invalid was revoked by its person
\* (checkLinks, "a token pair lost in a refresh leaves the link as it was, or
\* makes it unverifiable"): a lost link takes its account out of every
\* organisation.  It holds while one check runs at a time.
LostOnRevocation ==
    \A a \in Account : link[a].state = "lost" /\ link[a].was # None => link[a].was \in revoked[a]

Proving(a, b) ==
    /\ a # b /\ Active(link[a]) /\ Active(link[b])
    /\ link[a].self /\ link[b].self
    /\ link[a].emails \cap link[b].emails # {}

AtRest == marker = {} /\ \A p \in Proc : kind[p] # "claim"

\* Two accounts people linked prove one address only while the marker of a claim
\* is there, for the claim or for the next reader to finish it (Claim, narrow,
\* finishClaims): a crash that leaves its marker leaves nothing unfinished.
ClaimsFinish ==
    \A a, b \in Account : Proving(a, b) => {a, b} \cap (marker \cup cut) # {}

\* Only the person replaces what the person linked (Update, "a person who linked
\* again meanwhile is not overwritten"): a check that read an earlier link writes
\* nothing over a later one.
RelinkKept ==
    [][\A a \in Account : link'[a].root # link[a].root =>
          \E p \in Proc : pc[p] \in {"write", "adoptwrite"} /\ pc'[p] # pc[p]]_vars

Moved(l) == l.state = "lost" /\ l.emails = {}

\* "An address is proven by two accounts for a moment at worst, and by neither
\* never" (Claim): with no claim left to finish no address is proven twice, and
\* not every account lost its addresses to another.
ProvenByOne ==
    AtRest => /\ \A a, b \in Account : ~Proving(a, b)
              /\ \A a \in Account : Moved(link[a]) =>
                    \E b \in Account : link[b].state # "none" /\ ~Moved(link[b])
=============================================================================
