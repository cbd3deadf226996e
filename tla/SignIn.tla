------------------------------- MODULE SignIn -------------------------------
(***************************************************************************)
(* The browser's side of the issuer: authorization requests and the codes  *)
(* redeemed for them, the sign-ins (SSO sessions) a browser holds, and the *)
(* ways of ending what they opened -- signing out, ending one browser from *)
(* the console, ending everything, a sign-in past its limit.               *)
(*                                                                         *)
(* Every HTTP request is a process that makes one store call a step; any   *)
(* other request may move in between, at any replica.  Names minted by the *)
(* code are the names of the requests that mint them: an entrant names the *)
(* sign-in it begins, a redeemer the session it opens.  All of it belongs  *)
(* to one identity, and each authorization request to a client of its own. *)
(* What Sessions does inside Record, List and RevokeID is module Sessions' *)
(* matter: here each is one step.                                          *)
(***************************************************************************)
EXTENDS Naturals, FiniteSets

CONSTANTS
    Flows,      \* authorization requests
    Codes,      \* codes that may be saved for one request
    Entrants,   \* requests that sign a person in, by a provider or silently
    Recoverers, \* the entrants that prove themselves by recovery
    Redeemers,  \* requests that redeem a code
    Leavers,    \* requests that end sign-ins
    MaxEvents,  \* bound: HTTP requests, and failures they meet
    None

ASSUME SignInAssumption ==
    /\ Recoverers \subseteq Entrants
    /\ MaxEvents \in Nat
    /\ None \notin Entrants \cup Redeemers \cup Flows
    /\ Entrants \cap Redeemers = {} /\ Leavers \cap (Entrants \cup Redeemers) = {}
    /\ Flows \cap (Entrants \cup Redeemers) = {}

VARIABLES
    request,  \* the authorization request in the store, and the sign-in it was completed under
    code,     \* the codes saved for a request
    note,     \* the session noted under a request, with the codes saved by then
    sso,      \* the record of a sign-in
    ssoAll,   \* the set of every sign-in
    ssoOf,    \* the set of the identity's sign-ins
    involved, \* the clients issued an ID token under a sign-in
    cookies,  \* the sign-ins a browser was handed a cookie for
    open,     \* the live sessions
    audited,  \* entrants and silent requests whose recovery is on the durable trail
    pc,       \* where each request is
    kind,     \* which handler a request is in
    on,       \* the authorization request it is about
    under,    \* the sign-in it is about
    held,     \* the sessions it listed
    todo,     \* what a walk has left
    told,     \* the clients it announced a logout to
    hurt,     \* requests one of whose store calls failed
    opened,   \* history: the sessions ever opened for a request
    lost,     \* history: requests whose note was not written, or that expired, or whose note did
    before    \* history: what there was to end or to tell when a request set out to end it

store == <<request, code, note, sso, ssoAll, ssoOf, involved, open>>
local == <<kind, on, under, held, todo, told, hurt>>
past  == <<opened, lost, before>>
vars  == <<store, cookies, audited, pc, local, past>>

Procs == Entrants \cup Redeemers \cup Leavers
Ids   == Entrants \cup Redeemers

Finished == {"finished", "refused", "issued", "denied", "reused", "out", "failed"}
EndPlaces == {"endget", "endall", "endof", "endclients", "endsso"}
Places ==
    Finished \cup EndPlaces \cup
    {"idle", "begin", "addall", "addof", "complete", "audit", "mark",
     "request", "note", "revoked", "unnote", "record", "setnote", "involve", "delete",
     "getsso", "list", "involved", "walk", "revoke", "endfor", "endnext", "enddelete", "endremove"}

TypeOK ==
    /\ request \in [Flows -> [state: {"none", "waiting", "done", "gone"},
                              sso: Entrants \cup {None}, offline: BOOLEAN]]
    /\ code \in [Flows -> [Codes -> {"none", "live", "expired"}]]
    /\ note \in [Flows -> [session: Redeemers \cup {None}, codes: SUBSET Codes]]
    /\ sso \in [Entrants -> {"none", "live", "gone"}]
    /\ ssoAll \subseteq Entrants /\ ssoOf \subseteq Entrants
    /\ involved \in [Entrants -> SUBSET Flows]
    /\ cookies \subseteq Entrants
    /\ open \subseteq Redeemers
    /\ audited \subseteq Procs
    /\ pc \in [Procs -> Places]
    /\ kind \in [Procs -> {"none", "callback", "silent", "redeem", "signout",
                           "sparing", "browser", "everywhere", "drop"}]
    /\ on \in [Procs -> Flows \cup {None}]
    /\ under \in [Procs -> Entrants \cup {None}]
    /\ held \in [Procs -> SUBSET Redeemers]
    /\ todo \in [Procs -> SUBSET Ids]
    /\ told \in [Procs -> SUBSET Flows]
    /\ hurt \subseteq Procs
    /\ opened \in [Flows -> SUBSET Redeemers]
    /\ lost \subseteq Flows
    /\ before \in [Procs -> SUBSET (Ids \cup Flows)]

Init ==
    /\ request = [f \in Flows |-> [state |-> "none", sso |-> None, offline |-> FALSE]]
    /\ code = [f \in Flows |-> [k \in Codes |-> "none"]]
    /\ note = [f \in Flows |-> [session |-> None, codes |-> {}]]
    /\ sso = [s \in Entrants |-> "none"]
    /\ ssoAll = {} /\ ssoOf = {}
    /\ involved = [s \in Entrants |-> {}]
    /\ cookies = {} /\ open = {} /\ audited = {}
    /\ pc = [p \in Procs |-> "idle"]
    /\ kind = [p \in Procs |-> "none"]
    /\ on = [p \in Procs |-> None]
    /\ under = [p \in Procs |-> None]
    /\ held = [p \in Procs |-> {}]
    /\ todo = [p \in Procs |-> {}]
    /\ told = [p \in Procs |-> {}]
    /\ hurt = {}
    /\ opened = [f \in Flows |-> {}]
    /\ lost = {}
    /\ before = [p \in Procs |-> {}]

At(p, place)  == pc[p] = place
Go(p, place)  == pc' = [pc EXCEPT ![p] = place]
Events        == Cardinality({q \in Procs : pc[q] # "idle"}) + Cardinality(hurt)
Idle(p)       == pc[p] = "idle" /\ Events < MaxEvents
Hurt(p)       == Events < MaxEvents /\ hurt' = hurt \cup {p}
Known(f)      == request[f].state \in {"waiting", "done"}
\* The requests without f, and the notes without f's.
Without(f)    == [request EXCEPT ![f] = [state |-> "gone", sso |-> @.sso, offline |-> @.offline]]
Unnoted(f)    == [note EXCEPT ![f] = [session |-> None, codes |-> @.codes]]
\* The sessions opened under a sign-in: the request a session came from names it.
FlowOf(q)     == on[q]
Under(s)      == {q \in open : under[q] = s}

-----------------------------------------------------------------------------
(* Authorization requests and their codes.                                 *)

\* A client that asks for offline_access has a session opened for it; one that asks
\* for openid alone has not.
CreateAuthRequest(f, offline) ==
    /\ request[f].state = "none"
    /\ request' = [request EXCEPT ![f] = [state |-> "waiting", sso |-> None, offline |-> offline]]
    /\ UNCHANGED <<code, note, sso, ssoAll, ssoOf, involved, open, cookies, audited, pc, local, past>>

\* A code for a request that was completed; visiting the callback again saves another.
SaveAuthCode(f, k) ==
    /\ request[f].state = "done"
    /\ code[f][k] = "none"
    /\ code' = [code EXCEPT ![f][k] = "live"]
    /\ UNCHANGED <<request, note, sso, ssoAll, ssoOf, involved, open, cookies, audited, pc, local, past>>

ExpireRequest(f) ==
    /\ Known(f)
    /\ request' = Without(f)
    /\ lost' = lost \cup {f}
    /\ UNCHANGED <<code, note, sso, ssoAll, ssoOf, involved, open, cookies, audited, pc, local, opened, before>>

\* The note lives as long as a code does, so it outlives the codes saved before it;
\* that it goes with the last of them is early only for a redemption under way.
ExpireCode(f, k) ==
    /\ code[f][k] = "live"
    /\ code' = [code EXCEPT ![f][k] = "expired"]
    /\ IF note[f].session # None /\ \A c \in note[f].codes : code'[f][c] = "expired"
       THEN note' = Unnoted(f) /\ lost' = lost \cup {f}
       ELSE UNCHANGED <<note, lost>>
    /\ UNCHANGED <<request, sso, ssoAll, ssoOf, involved, open, cookies, audited, pc, local, opened, before>>

-----------------------------------------------------------------------------
(* Signing in.                                                             *)

\* A provider, or the cluster for a recovery, has said who is there, and the
\* directory has admitted them; SSO.Begin follows.
Callback(p, f) ==
    /\ Idle(p)
    /\ request[f].state # "none"
    /\ on' = [on EXCEPT ![p] = f]
    /\ under' = [under EXCEPT ![p] = p]
    /\ kind' = [kind EXCEPT ![p] = "callback"]
    /\ Go(p, "begin")
    /\ UNCHANGED <<store, cookies, audited, held, todo, told, hurt, past>>

Begin(p) ==
    /\ At(p, "begin")
    /\ sso' = [sso EXCEPT ![p] = "live"]
    /\ Go(p, "addall")
    /\ UNCHANGED <<request, code, note, ssoAll, ssoOf, involved, open, cookies, audited, local, past>>

BeginAdd(p) ==
    /\ \/ At(p, "addall") /\ ssoAll' = ssoAll \cup {p} /\ Go(p, "addof") /\ UNCHANGED <<ssoOf, cookies>>
       \/ At(p, "addof") /\ ssoOf' = ssoOf \cup {p} /\ Go(p, "complete") /\ cookies' = cookies \cup {p}
                         /\ UNCHANGED ssoAll
    /\ UNCHANGED <<request, code, note, sso, involved, open, audited, local, past>>

\* The sign-in goes on without a browser session: nobody is handed its cookie.
BeginFails(p) ==
    /\ pc[p] \in {"begin", "addall", "addof"}
    /\ under' = [under EXCEPT ![p] = None]
    /\ Hurt(p)
    /\ Go(p, "complete")
    /\ UNCHANGED <<store, cookies, audited, kind, on, held, todo, told, past>>

\* The chooser tries the browser's sign-in first.
Silent(p, f, s) ==
    /\ Idle(p)
    /\ Known(f)
    /\ s \in cookies
    /\ on' = [on EXCEPT ![p] = f]
    /\ under' = [under EXCEPT ![p] = s]
    /\ IF sso[s] = "live"
       THEN \/ kind' = [kind EXCEPT ![p] = "silent"] /\ Go(p, "complete")
            \/ kind' = [kind EXCEPT ![p] = "sparing"] /\ Go(p, "getsso")  \* past its absolute limit
            \/ kind' = [kind EXCEPT ![p] = "drop"] /\ Go(p, "endget")     \* the directory refuses
       ELSE kind' = [kind EXCEPT ![p] = "silent"] /\ Go(p, "refused")
    /\ UNCHANGED <<store, cookies, audited, held, todo, told, hurt, past>>

\* A recovery is one when the sign-in it goes by was proved that way.
Recovery(p) ==
    IF kind[p] = "silent" THEN under[p] \in Recoverers ELSE p \in Recoverers

\* Complete: the request is read and the client's gate asked ...
CompleteRead(p) ==
    /\ At(p, "complete")
    /\ \/ /\ Known(on[p])
          /\ Go(p, IF Recovery(p) THEN "audit" ELSE "mark")
       \/ Go(p, "refused")   \* gone, or not entitled
    /\ UNCHANGED <<store, cookies, audited, local, past>>

\* Mutant: a recovery whose record cannot be written goes on.
AuditIgnored(p) ==
    /\ At(p, "audit")
    /\ \/ audited' = audited \cup {p}
       \/ UNCHANGED audited
    /\ Go(p, "mark")
    /\ UNCHANGED <<store, cookies, local, past>>

\* ... a recovery is written down durably, or refused and its sign-in ended ...
Audit(p) ==
    /\ At(p, "audit")
    /\ \/ audited' = audited \cup {p} /\ Go(p, "mark") /\ UNCHANGED <<kind, cookies>>
       \/ /\ UNCHANGED audited
          /\ IF kind[p] = "callback" /\ under[p] # None
             THEN kind' = [kind EXCEPT ![p] = "drop"] /\ Go(p, "endget")
                  /\ cookies' = cookies \ {p}
             ELSE Go(p, "refused") /\ UNCHANGED <<kind, cookies>>
    /\ UNCHANGED <<store, on, under, held, todo, told, hurt, past>>

\* ... and the request is written back whole, done.
CompleteWrite(p) ==
    /\ At(p, "mark")
    /\ request' = [request EXCEPT ![on[p]] = [state |-> "done", sso |-> under[p], offline |-> @.offline]]
    /\ Go(p, "finished")
    /\ UNCHANGED <<code, note, sso, ssoAll, ssoOf, involved, open, cookies, audited, local, past>>

-----------------------------------------------------------------------------
(* Redeeming a code.                                                       *)

Redeem(p, f, k) ==
    /\ Idle(p)
    /\ code[f][k] = "live"
    /\ on' = [on EXCEPT ![p] = f]
    /\ kind' = [kind EXCEPT ![p] = "redeem"]
    /\ Go(p, "request")
    /\ UNCHANGED <<store, cookies, audited, under, held, todo, told, hurt, past>>

\* AuthRequestByCode: a code whose request is gone was redeemed before, and one whose
\* request could not be read is taken for such a code.
AuthRequestByCode(p) ==
    /\ At(p, "request")
    /\ \/ /\ Known(on[p])
          /\ under' = [under EXCEPT ![p] = request[on[p]].sso]
          /\ Go(p, IF request[on[p]].offline THEN "record" ELSE "involve")
          /\ UNCHANGED hurt
       \/ /\ (~Known(on[p]) /\ UNCHANGED hurt) \/ Hurt(p)
          /\ Go(p, "note")
          /\ UNCHANGED under
    /\ UNCHANGED <<store, cookies, audited, kind, on, held, todo, told, past>>

\* revokeCodeSession: the session the first redemption opened is ended.
GetNote(p) ==
    /\ At(p, "note")
    /\ LET noted == {note[on[p]].session} \ {None} IN
       /\ todo' = [todo EXCEPT ![p] = noted]
       /\ Go(p, IF noted = {} THEN "denied" ELSE "revoked")
    /\ UNCHANGED <<store, cookies, audited, kind, on, under, held, told, hurt, past>>

EndNoted(p) ==
    /\ At(p, "revoked")
    /\ open' = open \ todo[p]
    /\ Go(p, "unnote")
    /\ UNCHANGED <<request, code, note, sso, ssoAll, ssoOf, involved, cookies, audited, local, past>>

DeleteNote(p) ==
    /\ At(p, "unnote")
    /\ note' = Unnoted(on[p])
    /\ Go(p, "reused")
    /\ UNCHANGED <<request, code, sso, ssoAll, ssoOf, involved, open, cookies, audited, local, past>>

Record(p) ==
    /\ At(p, "record")
    /\ open' = open \cup {p}
    /\ opened' = [opened EXCEPT ![on[p]] = @ \cup {p}]
    /\ Go(p, "setnote")
    /\ UNCHANGED <<request, code, note, sso, ssoAll, ssoOf, involved, cookies, audited, local, lost, before>>

\* Mutant: which session a code opened is not noted.
SetNoteForgotten(p) ==
    /\ At(p, "setnote")
    /\ Go(p, "involve")
    /\ UNCHANGED <<store, cookies, audited, local, past>>

\* Failing to note which session a code opened does not fail the sign-in.
SetNote(p) ==
    /\ At(p, "setnote")
    /\ \/ /\ note' = [note EXCEPT ![on[p]] =
                        [session |-> p, codes |-> {k \in Codes : code[on[p]][k] # "none"}]]
          /\ UNCHANGED <<lost, hurt>>
       \/ lost' = lost \cup {on[p]} /\ Hurt(p) /\ UNCHANGED note
    /\ Go(p, "involve")
    /\ UNCHANGED <<request, code, sso, ssoAll, ssoOf, involved, open, cookies, audited,
                   kind, on, under, held, todo, told, opened, before>>

\* The ID token: the sign-in remembers the client.
Involve(p) ==
    /\ At(p, "involve")
    /\ involved' = IF under[p] = None THEN involved
                   ELSE [involved EXCEPT ![under[p]] = @ \cup {on[p]}]
    /\ Go(p, "delete")
    /\ UNCHANGED <<request, code, note, sso, ssoAll, ssoOf, open, cookies, audited, local, past>>

DeleteAuthRequest(p) ==
    /\ At(p, "delete")
    /\ request' = Without(on[p])
    /\ Go(p, "issued")
    /\ UNCHANGED <<code, note, sso, ssoAll, ssoOf, involved, open, cookies, audited, local, past>>

-----------------------------------------------------------------------------
(* Ending what was opened.                                                 *)

\* /logout and /end_session with the browser's cookie; the console's "one
\* browser", which first reads whose it is.
SignOut(p, s, how) ==
    /\ Idle(p)
    /\ s \in cookies
    /\ under' = [under EXCEPT ![p] = s]
    /\ kind' = [kind EXCEPT ![p] = how]
    /\ Go(p, "getsso")
    /\ UNCHANGED <<store, cookies, audited, on, held, todo, told, hurt, past>>

\* The console's "everywhere".
RevokeSessions(p) ==
    /\ Idle(p)
    /\ kind' = [kind EXCEPT ![p] = "everywhere"]
    /\ Go(p, "walk")
    /\ before' = [before EXCEPT ![p] = open \cup {s \in cookies : sso[s] = "live"}]
    /\ UNCHANGED <<store, cookies, audited, on, under, held, todo, told, hurt, opened, lost>>

\* Whose sign-in it is.  A sign-out that cannot read it goes on to end it.
GetSso(p) ==
    /\ At(p, "getsso")
    /\ \/ /\ sso[under[p]] = "live"
          /\ Go(p, IF kind[p] = "browser" THEN "walk" ELSE "list")
          /\ before' = [before EXCEPT ![p] = Under(under[p]) \cup {under[p]} \cup involved[under[p]]]
          /\ UNCHANGED hurt
       \/ /\ sso[under[p]] # "live"
          /\ Go(p, IF kind[p] = "browser" THEN "refused" ELSE "endget")
          /\ UNCHANGED <<before, hurt>>
       \/ /\ Hurt(p)
          /\ Go(p, IF kind[p] = "browser" THEN "failed" ELSE "endget")
          /\ UNCHANGED before
    /\ UNCHANGED <<store, cookies, audited, kind, on, under, held, todo, told, opened, lost>>

\* What the clients are told is read before anything is ended; an error reads as none.
List(p) ==
    /\ At(p, "list")
    /\ \/ held' = [held EXCEPT ![p] = Under(under[p])] /\ UNCHANGED hurt
       \/ Hurt(p) /\ UNCHANGED held
    /\ Go(p, "involved")
    /\ UNCHANGED <<store, cookies, audited, kind, on, under, todo, told, past>>

\* Mutant: only the clients with a session are told.
InvolvedIgnored(p) ==
    /\ At(p, "involved")
    /\ told' = [told EXCEPT ![p] = IF kind[p] = "sparing" THEN {} ELSE {FlowOf(q) : q \in held[p]}]
    /\ Go(p, IF kind[p] = "sparing" THEN "endget" ELSE "walk")
    /\ UNCHANGED <<store, cookies, audited, kind, on, under, held, todo, hurt, past>>

\* The clients without a session are added.  The list is announced, once and best
\* effort, after the sessions are ended and before the sign-in is; no store call
\* comes between.  Sparing live sessions is not telling their clients either.  An
\* error adds none.
Involved(p) ==
    /\ At(p, "involved")
    /\ LET clients == {FlowOf(q) : q \in held[p]}
           spared  == IF kind[p] = "sparing" THEN {} ELSE clients IN
       \/ told' = [told EXCEPT ![p] = spared \cup (involved[under[p]] \ clients)] /\ UNCHANGED hurt
       \/ told' = [told EXCEPT ![p] = spared] /\ Hurt(p)
    /\ Go(p, IF kind[p] = "sparing" THEN "endget" ELSE "walk")
    /\ UNCHANGED <<store, cookies, audited, kind, on, under, held, todo, past>>

\* Sessions.Revoke: the sessions are listed, then ended one by one.
Walk(p) ==
    /\ At(p, "walk")
    /\ todo' = [todo EXCEPT ![p] = IF kind[p] = "everywhere" THEN open ELSE Under(under[p])]
    /\ Go(p, "revoke")
    /\ UNCHANGED <<store, cookies, audited, kind, on, under, held, told, hurt, past>>

\* Mutant: "everywhere" ends the sessions and leaves the sign-ins.
RevokeNextHalf(p) ==
    /\ At(p, "revoke")
    /\ IF todo[p] = {}
       THEN /\ Go(p, IF kind[p] = "everywhere" THEN "out" ELSE "endget")
            /\ UNCHANGED <<open, todo>>
       ELSE \E q \in todo[p] :
            /\ open' = open \ {q}
            /\ todo' = [todo EXCEPT ![p] = @ \ {q}]
            /\ UNCHANGED pc
    /\ UNCHANGED <<request, code, note, sso, ssoAll, ssoOf, involved, cookies, audited,
                   kind, on, under, held, told, hurt, past>>

RevokeNext(p) ==
    /\ At(p, "revoke")
    /\ IF todo[p] = {}
       THEN /\ Go(p, IF kind[p] = "everywhere" THEN "endfor" ELSE "endget")
            /\ UNCHANGED <<open, todo>>
       ELSE \E q \in todo[p] :
            /\ open' = open \ {q}
            /\ todo' = [todo EXCEPT ![p] = @ \ {q}]
            /\ UNCHANGED pc
    /\ UNCHANGED <<request, code, note, sso, ssoAll, ssoOf, involved, cookies, audited,
                   kind, on, under, held, told, hurt, past>>

\* Signing out goes on when the sessions could not be ended; the console stops.
RevokeFails(p) ==
    /\ pc[p] \in {"walk", "revoke"}
    /\ Hurt(p)
    /\ Go(p, IF kind[p] = "signout" THEN "endget" ELSE "failed")
    /\ UNCHANGED <<store, cookies, audited, kind, on, under, held, todo, told, past>>

EndGet(p) ==
    /\ At(p, "endget")
    /\ Go(p, IF sso[under[p]] = "live" THEN "endall" ELSE "endclients")
    /\ UNCHANGED <<store, cookies, audited, local, past>>

\* SSO.End leaves the sets, then forgets the clients, then the sign-in itself.
End(p) ==
    /\ \/ /\ At(p, "endall") /\ Go(p, "endof")
          /\ ssoAll' = ssoAll \ {under[p]} /\ UNCHANGED <<ssoOf, involved, sso>>
       \/ /\ At(p, "endof") /\ Go(p, "endclients")
          /\ ssoOf' = ssoOf \ {under[p]} /\ UNCHANGED <<ssoAll, involved, sso>>
       \/ /\ At(p, "endclients") /\ Go(p, "endsso")
          /\ involved' = [involved EXCEPT ![under[p]] = {}] /\ UNCHANGED <<ssoAll, ssoOf, sso>>
       \/ /\ At(p, "endsso") /\ Go(p, "out")
          /\ sso' = [sso EXCEPT ![under[p]] = "gone"] /\ UNCHANGED <<ssoAll, ssoOf, involved>>
    /\ UNCHANGED <<request, code, note, open, cookies, audited, local, past>>

EndFails(p) ==
    /\ pc[p] \in EndPlaces
    /\ Hurt(p)
    /\ Go(p, IF kind[p] = "browser" THEN "failed" ELSE "out")
    /\ UNCHANGED <<store, cookies, audited, kind, on, under, held, todo, told, past>>

\* SSO.EndFor: the identity's sign-ins, one after the other.
EndFor(p) ==
    /\ At(p, "endfor")
    /\ todo' = [todo EXCEPT ![p] = ssoOf]
    /\ Go(p, "endnext")
    /\ UNCHANGED <<store, cookies, audited, kind, on, under, held, told, hurt, past>>

EndForNext(p) ==
    /\ \/ /\ At(p, "endnext")
          /\ IF todo[p] = {} THEN Go(p, "out") /\ UNCHANGED <<under, involved>>
             ELSE \E s \in todo[p] :
                  /\ under' = [under EXCEPT ![p] = s]
                  /\ involved' = [involved EXCEPT ![s] = {}]
                  /\ Go(p, "enddelete")
          /\ UNCHANGED <<sso, ssoOf, todo>>
       \/ /\ At(p, "enddelete")
          /\ sso' = [sso EXCEPT ![under[p]] = "gone"]
          /\ Go(p, "endremove")
          /\ UNCHANGED <<ssoOf, involved, under, todo>>
       \/ /\ At(p, "endremove")
          /\ ssoOf' = ssoOf \ {under[p]}
          /\ todo' = [todo EXCEPT ![p] = @ \ {under[p]}]
          /\ Go(p, "endnext")
          /\ UNCHANGED <<sso, involved, under>>
    /\ UNCHANGED <<request, code, note, ssoAll, open, cookies, audited, kind, on, held, told, hurt, past>>

\* A listing drops the ids whose sign-in is over.
Repair(s) ==
    /\ sso[s] = "gone"
    /\ \/ s \in ssoAll /\ ssoAll' = ssoAll \ {s} /\ UNCHANGED ssoOf
       \/ s \in ssoOf /\ ssoOf' = ssoOf \ {s} /\ UNCHANGED ssoAll
    /\ UNCHANGED <<request, code, note, sso, involved, open, cookies, audited, pc, local, past>>

\* An error return, or the death of the replica, anywhere.
Fail(p) ==
    /\ pc[p] \notin Finished \cup {"idle"}
    /\ Hurt(p)
    /\ Go(p, "failed")
    /\ UNCHANGED <<store, cookies, audited, kind, on, under, held, todo, told, past>>

SignInStep(p) ==
    \/ \E f \in Flows : Callback(p, f) \/ \E s \in Entrants : Silent(p, f, s)
    \/ Begin(p) \/ BeginAdd(p) \/ BeginFails(p)
    \/ CompleteRead(p) \/ Audit(p) \/ CompleteWrite(p)

RedeemStep(p) ==
    \/ \E f \in Flows, k \in Codes : Redeem(p, f, k)
    \/ AuthRequestByCode(p) \/ GetNote(p) \/ EndNoted(p) \/ DeleteNote(p)
    \/ Record(p) \/ SetNote(p) \/ Involve(p) \/ DeleteAuthRequest(p)

LeaveStep(p) ==
    \/ GetSso(p) \/ List(p) \/ Involved(p) \/ Walk(p) \/ RevokeNext(p) \/ RevokeFails(p)
    \/ EndGet(p) \/ End(p) \/ EndFails(p) \/ EndFor(p) \/ EndForNext(p)

Next ==
    \/ \E f \in Flows : \/ \E offline \in BOOLEAN : CreateAuthRequest(f, offline)
                        \/ ExpireRequest(f)
                        \/ \E k \in Codes : SaveAuthCode(f, k) \/ ExpireCode(f, k)
    \/ \E p \in Entrants : SignInStep(p)
    \/ \E p \in Redeemers : RedeemStep(p)
    \/ \E p \in Leavers : RevokeSessions(p)
         \/ \E s \in Entrants, how \in {"signout", "browser"} : SignOut(p, s, how)
    \/ \E p \in Entrants \cup Leavers : LeaveStep(p)
    \/ \E p \in Procs : Fail(p)
    \/ \E s \in Entrants : Repair(s)

Spec == Init /\ [][Next]_vars

-----------------------------------------------------------------------------
(* What must hold.                                                         *)

\* A request that is ending sign-in s, or gave up while ending it.
Ending(p, s) ==
    /\ under[p] = s
    /\ p \in hurt \/ pc[p] \in {"endof", "endclients", "endsso", "endremove", "enddelete"}

\* A code presented again after its request was deleted ends the session its
\* one redemption opened (AuthRequestByCode, revokeCodeSession): the note is
\* there before the request goes.  Except where the note was never written, or
\* it or the request expired on its own; and one denied for want of an answer may
\* have come before the redemption.
ReuseEnds ==
    \A p \in Redeemers : pc[p] \in {"denied", "reused"} /\ p \notin hurt /\ on[p] \notin lost =>
        \A q \in Redeemers : opened[on[p]] = {q} => q \notin open

\* Signing out, ending one browser and ending everything leave nothing open of
\* what was open when they found it (signOut, RevokeSessions, SSO.EndFor): no
\* session under the sign-in and no sign-in a browser held, other than one that
\* somebody else is ending or failed to end.
SignOutHolds ==
    \A p \in Leavers : pc[p] = "out" /\ p \notin hurt =>
        /\ before[p] \cap open = {}
        /\ \A s \in before[p] \cap Entrants :
              sso[s] = "live" => \E q \in Procs \ {p} : Ending(q, s)

\* A sign-in a browser holds is in both sets, where the console lists it and
\* "everywhere" finds it (Begin, End, list): except while, or after failing
\* half way, it is being ended.
SsoListed ==
    \A s \in cookies : sso[s] = "live" =>
        s \in ssoAll \cap ssoOf \/ \E p \in Procs : Ending(p, s)

\* A sign-out tells every client that was issued an ID token under the sign-in,
\* whether or not it holds a session (signOut, Involved), and by the time a
\* client is told its session has ended.  Another request ending the same sign-in
\* may forget the clients first, and tells them itself if telling is its business.
ClientsTold ==
    \A p \in Leavers : kind[p] = "signout" /\ p \notin hurt
                       /\ pc[p] \in {"endget", "endall", "endof", "endclients", "endsso", "out"} =>
        /\ held[p] \cap open = {}
        /\ \/ before[p] \cap Flows \subseteq told[p]
           \/ \E q \in Procs \ {p} :
                 \/ kind[q] = "everywhere"
                 \/ under[q] = under[p] /\ kind[q] \in {"signout", "browser", "sparing", "drop"}

\* No recovery sign-in completes a request before it is on the durable trail, whether
\* or not it began a browser session, and nothing is complete under one without; and
\* one refused for want of its record leaves no sign-in behind (Complete, recover).
RecoveryRecorded ==
    /\ \A p \in Entrants : pc[p] = "finished" /\ Recovery(p) => p \in audited
    /\ \A f \in Flows : request[f].state = "done" /\ request[f].sso \in Recoverers =>
          \E p \in audited : on[p] = f
    /\ \A p \in Recoverers : pc[p] = "out" /\ kind[p] = "drop" /\ under[p] = p /\ p \notin hurt =>
          sso[p] # "live"

\* "A code used twice must be denied" (CreateAccessAndRefreshTokens): no two
\* sessions come from one authorization request.
OneRedemption == \A f \in Flows : Cardinality(opened[f]) <= 1

\* "If the first half fails the sign-in is still there and the person can try
\* again" (SignOut): a sign-out that left sessions open has left the sign-in.
SignInOutlivesFailure ==
    \A p \in Leavers : kind[p] = "signout" /\ pc[p] = "out" /\ todo[p] \cap open # {} =>
        sso[under[p]] = "live"
=============================================================================
