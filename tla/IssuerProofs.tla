---------------------------- MODULE IssuerProofs ----------------------------
(***************************************************************************)
(* What SignIn promises, for any requests, codes and browsers, and after   *)
(* it what KeyRing promises, for any replicas, delays and overlaps with    *)
(* the margins of Timings.                                                 *)
(***************************************************************************)
EXTENDS SignIn, KeyRing, TLAPS

-----------------------------------------------------------------------------
(* Where each request can be. *)

EntrantPlaces ==
  {"idle", "begin", "addall", "addof", "complete", "audit", "mark", "finished", "refused",
   "getsso", "list", "involved", "out", "failed"} \cup EndPlaces
RedeemerPlaces ==
  {"idle", "request", "note", "revoked", "unnote", "record", "setnote", "involve", "delete",
   "issued", "denied", "reused", "failed"}
LeaverPlaces ==
  {"idle", "getsso", "list", "involved", "walk", "revoke", "endfor", "endnext", "enddelete",
   "endremove", "out", "refused", "failed"} \cup EndPlaces

\* A sign-in that has been begun; it is not begun again.
Begun(s) == s \in Entrants /\ pc[s] \notin {"idle", "begin"}

\* An entrant is signing in, or ending a sign-in that it found over or was refused.
EntrantRole(p) ==
  /\ pc[p] \in EntrantPlaces
  /\ pc[p] = "idle" => kind[p] = "none"
  /\ pc[p] # "idle" => on[p] \in Flows
  /\ pc[p] \in {"begin", "addall", "addof"} => kind[p] = "callback" /\ under[p] = p
  /\ pc[p] \in {"complete", "audit", "mark"} =>
       \/ kind[p] = "callback" /\ under[p] \in {p, None}
       \/ kind[p] = "silent" /\ Begun(under[p])
  /\ pc[p] \in {"getsso", "list", "involved"} => kind[p] = "sparing" /\ Begun(under[p])
  /\ pc[p] \in EndPlaces => kind[p] \in {"sparing", "drop"} /\ Begun(under[p])

RedeemerRole(p) ==
  /\ pc[p] \in RedeemerPlaces
  /\ pc[p] = "idle" => kind[p] = "none"
  /\ pc[p] # "idle" => on[p] \in Flows /\ kind[p] = "redeem"

LeaverRole(p) ==
  /\ pc[p] \in LeaverPlaces
  /\ pc[p] = "idle" => kind[p] = "none"
  /\ pc[p] # "idle" => kind[p] \in {"signout", "browser", "everywhere"}
  /\ pc[p] = "getsso" => kind[p] \in {"signout", "browser"} /\ Begun(under[p])
  /\ pc[p] \in {"list", "involved"} => kind[p] = "signout" /\ Begun(under[p])
  /\ pc[p] \in {"walk", "revoke"} =>
       \/ kind[p] \in {"signout", "browser"} /\ Begun(under[p])
       \/ kind[p] = "everywhere" /\ p \notin hurt
  /\ pc[p] \in EndPlaces => kind[p] \in {"signout", "browser"} /\ Begun(under[p])
  /\ pc[p] \in {"endfor", "endnext", "enddelete", "endremove"} => kind[p] = "everywhere" /\ p \notin hurt
  /\ pc[p] \in {"endnext", "enddelete", "endremove"} => \A s \in todo[p] : Begun(s)
  /\ pc[p] \in {"enddelete", "endremove"} => Begun(under[p])

Roles ==
  /\ \A p \in Entrants : EntrantRole(p)
  /\ \A p \in Redeemers : RedeemerRole(p)
  /\ \A p \in Leavers : LeaverRole(p)
  /\ \A s \in cookies \cup ssoOf : Begun(s)
  /\ \A p \in hurt : pc[p] \notin {"idle", "request", "begin", "addall", "addof"}
  /\ \A q \in open : pc[q] # "idle"
  /\ \A p \in Procs : \A q \in held[p] : pc[q] # "idle"

Sound == TypeOK /\ Roles

-----------------------------------------------------------------------------
(* Recovery. *)

\* What has been audited is under way, for the request it began with.
Audited ==
  /\ \A p \in audited : pc[p] # "idle"
  /\ \A p \in Entrants : pc[p] \in {"mark", "finished"} /\ Recovery(p) => p \in audited
  /\ \A f \in Flows : request[f].state = "done" /\ request[f].sso \in Recoverers =>
        \E p \in audited : on[p] = f

\* Whoever ended a sign-in without a failure has ended it for good.
EndedGone ==
  /\ \A p \in Entrants \cup Leavers :
       pc[p] = "out" /\ p \notin hurt /\ kind[p] # "everywhere" =>
         Begun(under[p]) /\ sso[under[p]] = "gone"
  /\ \A p \in Leavers : pc[p] = "endremove" => sso[under[p]] = "gone"

-----------------------------------------------------------------------------
(* A code used again. *)

\* Whether a session belongs to a request is settled when the request is made.
Settled ==
  /\ \A f \in Flows : request[f].state = "none" => opened[f] = {} /\ \A k \in Codes : code[f][k] = "none"
  /\ \A p \in Redeemers : pc[p] # "idle" => request[on[p]].state # "none"
  /\ \A p \in Redeemers : pc[p] \in {"record", "setnote"} => request[on[p]].offline
  /\ \A f \in Flows : opened[f] # {} => request[f].offline
  /\ \A p \in Redeemers : pc[p] \in {"idle", "request", "record"} =>
        p \notin open /\ \A f \in Flows : p \notin opened[f]
  /\ \A p \in Redeemers : pc[p] = "setnote" => p \in opened[on[p]]

\* The request has been redeemed, or a redemption found that it had been.
Touched(f) ==
  \/ request[f].state = "gone"
  \/ \E r \in Redeemers :
       /\ on[r] = f
       /\ \/ pc[r] \in {"involve", "delete"}
          \/ r \notin hurt /\ pc[r] \in {"note", "revoked", "unnote", "denied", "reused"}

\* The one session of a redeemed request is noted, or has ended.
Noted ==
  \A f \in Flows \ lost : Touched(f) /\ request[f].offline =>
    /\ opened[f] # {}
    /\ \A q \in Redeemers : opened[f] = {q} => note[f].session = q \/ q \notin open

\* A redemption that was refused ends the session it found noted.
Refusing ==
  \A p \in Redeemers :
    /\ pc[p] = "revoked" => todo[p] \subseteq opened[on[p]] /\ todo[p] # {}
    /\ pc[p] = "unnote" => todo[p] \subseteq opened[on[p]] /\ todo[p] # {} /\ todo[p] \cap open = {}
    /\ pc[p] \in {"denied", "reused"} /\ p \notin hurt /\ on[p] \notin lost =>
         \A q \in Redeemers : opened[on[p]] = {q} => q \notin open

NotesOpened == \A f \in Flows : note[f].session # None => note[f].session \in opened[f]

ReuseInv == Settled /\ Noted /\ Refusing /\ NotesOpened

-----------------------------------------------------------------------------
(* Signing out. *)

\* What a request that ends sessions saw open, and is open still.
Left(p) == (before[p] \cup held[p]) \cap open

\* All of it is under the sign-in, then listed, then ended.
Walked ==
  \A p \in Leavers :
    /\ \A r \in Redeemers : pc[r] \in {"idle", "request", "record"} => r \notin before[p] \cup held[p]
    /\ pc[p] \in {"idle", "getsso"} => before[p] = {} /\ held[p] = {}
    /\ pc[p] \in {"list", "involved"} => Left(p) \subseteq Under(under[p])
    /\ pc[p] = "walk" /\ kind[p] # "everywhere" => Left(p) \subseteq Under(under[p])
    /\ pc[p] = "revoke" => Left(p) \subseteq todo[p]
    /\ pc[p] \in EndPlaces \cup {"endfor", "endnext", "enddelete", "endremove", "out"} /\ p \notin hurt =>
         Left(p) = {}

\* The sign-ins that are to be ended.
Ends(p) == before[p] \cap Entrants

\* A live sign-in is in the identity's set or being ended.
Kept(s) == sso[s] = "live" => s \in ssoOf \/ \E q \in Procs : Ending(q, s)

EndsAll ==
  /\ \A s \in cookies : Kept(s)
  /\ \A p \in Leavers :
       /\ \A s \in Ends(p) : Begun(s) /\ Kept(s)
       /\ pc[p] = "getsso" => Kept(under[p])
       /\ kind[p] \in {"signout", "browser"} => Ends(p) \subseteq {under[p]}
       /\ kind[p] = "everywhere" /\ pc[p] \in {"endnext", "enddelete", "endremove", "out"} /\ p \notin hurt =>
            \A s \in Ends(p) : sso[s] = "live" /\ ~(pc[p] # "out" /\ s \in todo[p]) =>
              \E q \in Procs \ {p} : Ending(q, s)

\* Somebody else is ending the same sign-in, or all of them.
Other(p) ==
  \E q \in Procs \ {p} :
    \/ kind[q] = "everywhere"
    \/ under[q] = under[p] /\ kind[q] \in {"signout", "browser", "sparing", "drop"}

\* The clients to tell are those still remembered, then those told.
Telling ==
  \A p \in Leavers : kind[p] = "signout" =>
    /\ pc[p] \in {"list", "involved"} => before[p] \cap Flows \subseteq involved[under[p]] \/ Other(p)
    /\ pc[p] \in {"walk", "revoke", "out"} \cup EndPlaces /\ p \notin hurt =>
         before[p] \cap Flows \subseteq told[p] \/ Other(p)

LeaveInv == Walked /\ EndsAll /\ Telling

-----------------------------------------------------------------------------
(* One request moves at a time. *)

\* A step of request p leaves every other request where it was.
Others(p) ==
  \A q \in Procs \ {p} :
    /\ pc'[q] = pc[q] /\ kind'[q] = kind[q] /\ on'[q] = on[q] /\ under'[q] = under[q]
    /\ held'[q] = held[q] /\ todo'[q] = todo[q] /\ told'[q] = told[q] /\ before'[q] = before[q]
    /\ q \in hurt' <=> q \in hurt

\* What a request may do: whatever its handler does next.
Act(p) ==
  \/ p \in Entrants /\ SignInStep(p)
  \/ p \in Redeemers /\ RedeemStep(p)
  \/ /\ p \in Leavers
     /\ RevokeSessions(p) \/ \E t \in Entrants, how \in {"signout", "browser"} : SignOut(p, t, how)
  \/ p \in Entrants \cup Leavers /\ LeaveStep(p)
  \/ Fail(p)

\* What happens to the store by itself.
Environment ==
  \/ \E f \in Flows : \/ \E offline \in BOOLEAN : CreateAuthRequest(f, offline)
                      \/ ExpireRequest(f)
                      \/ \E k \in Codes : SaveAuthCode(f, k) \/ ExpireCode(f, k)
  \/ \E s \in Entrants : Repair(s)

\* Every step is one or the other.
LEMMA Steps ==
  ASSUME Next PROVE Environment \/ \E p \in Procs : Act(p)
<1>1. CASE \E p \in Procs : Fail(p)
  BY <1>1 DEF Act
<1>2. CASE \E p \in Entrants : SignInStep(p)
  BY <1>2 DEF Act, Procs
<1>3. CASE \E p \in Redeemers : RedeemStep(p)
  BY <1>3 DEF Act, Procs
<1>4. CASE \E p \in Leavers : RevokeSessions(p)
         \/ \E t \in Entrants, how \in {"signout", "browser"} : SignOut(p, t, how)
  BY <1>4 DEF Act, Procs
<1>5. CASE \E p \in Entrants \cup Leavers : LeaveStep(p)
  BY <1>5 DEF Act, Procs
<1>6. CASE Environment
  BY <1>6
<1> QED
  BY <1>1, <1>2, <1>3, <1>4, <1>5, <1>6 DEF Next, Environment

\* The step of a request, and what it is: one case for each handler's step.
LEMMA Handlers ==
  ASSUME NEW p \in Procs, Act(p)
  PROVE  \/ p \in Entrants /\ \E g \in Flows : Callback(p, g)
         \/ p \in Entrants /\ \E g \in Flows, t \in Entrants : Silent(p, g, t)
         \/ p \in Entrants /\ (Begin(p) \/ BeginAdd(p) \/ BeginFails(p))
         \/ p \in Entrants /\ (CompleteRead(p) \/ Audit(p) \/ CompleteWrite(p))
         \/ p \in Redeemers /\ \E g \in Flows, k \in Codes : Redeem(p, g, k)
         \/ p \in Redeemers /\ (AuthRequestByCode(p) \/ GetNote(p) \/ EndNoted(p) \/ DeleteNote(p))
         \/ p \in Redeemers /\ (Record(p) \/ SetNote(p) \/ Involve(p) \/ DeleteAuthRequest(p))
         \/ p \in Leavers /\ RevokeSessions(p)
         \/ p \in Leavers /\ \E t \in Entrants, how \in {"signout", "browser"} : SignOut(p, t, how)
         \/ p \in Entrants \cup Leavers /\ (GetSso(p) \/ List(p) \/ Involved(p))
         \/ p \in Entrants \cup Leavers /\ (Walk(p) \/ RevokeNext(p) \/ RevokeFails(p))
         \/ p \in Entrants \cup Leavers /\ (EndGet(p) \/ End(p) \/ EndFails(p))
         \/ p \in Entrants \cup Leavers /\ (EndFor(p) \/ EndForNext(p))
         \/ Fail(p)
BY DEF Act, SignInStep, RedeemStep, LeaveStep

\* Each of them touches nothing of another request.
LEMMA ActOthers ==
  ASSUME TypeOK, NEW p \in Procs, Act(p) PROVE Others(p)
<1> USE DEF Others, TypeOK, Go, Hurt, local, past, store
<1>1. CASE \E g \in Flows : Callback(p, g)
  BY <1>1 DEF Callback
<1>2. CASE \E g \in Flows, t \in Entrants : Silent(p, g, t)
  BY <1>2 DEF Silent
<1>3. CASE Begin(p) \/ BeginAdd(p) \/ BeginFails(p)
  BY <1>3 DEF Begin, BeginAdd, BeginFails
<1>4. CASE CompleteRead(p) \/ Audit(p) \/ CompleteWrite(p)
  BY <1>4 DEF CompleteRead, Audit, CompleteWrite
<1>5. CASE \E g \in Flows, k \in Codes : Redeem(p, g, k)
  BY <1>5 DEF Redeem
<1>6. CASE AuthRequestByCode(p) \/ GetNote(p) \/ EndNoted(p) \/ DeleteNote(p)
  BY <1>6 DEF AuthRequestByCode, GetNote, EndNoted, DeleteNote
<1>7. CASE Record(p) \/ SetNote(p) \/ Involve(p) \/ DeleteAuthRequest(p)
  BY <1>7 DEF Record, SetNote, Involve, DeleteAuthRequest
<1>8. CASE RevokeSessions(p) \/ \E t \in Entrants, how \in {"signout", "browser"} : SignOut(p, t, how)
  BY <1>8 DEF RevokeSessions, SignOut
<1>9. CASE GetSso(p) \/ List(p) \/ Involved(p)
  BY <1>9 DEF GetSso, List, Involved
<1>10. CASE Walk(p) \/ RevokeNext(p) \/ RevokeFails(p)
  BY <1>10 DEF Walk, RevokeNext, RevokeFails
<1>11. CASE EndGet(p) \/ End(p) \/ EndFails(p)
  BY <1>11 DEF EndGet, End, EndFails
<1>12. CASE EndFor(p) \/ EndForNext(p)
  BY <1>12 DEF EndFor, EndForNext
<1>13. CASE Fail(p)
  BY <1>13 DEF Fail
<1> HIDE DEF Others, TypeOK
<1> QED
  BY Handlers, <1>1, <1>2, <1>3, <1>4, <1>5, <1>6, <1>7, <1>8, <1>9, <1>10, <1>11, <1>12, <1>13

\* Each of them keeps the types.
LEMMA ActTypes ==
  ASSUME Sound, NEW p \in Procs, Act(p) PROVE TypeOK'
<1> USE DEF Sound, TypeOK, Procs, Ids, Go, Hurt, local, past, store, Places, Finished, EndPlaces, At, Idle
<1>1. CASE p \in Entrants /\ \E g \in Flows : Callback(p, g)
  BY <1>1, SignInAssumption DEF Callback
<1>2. CASE p \in Entrants /\ \E g \in Flows, t \in Entrants : Silent(p, g, t)
  <2>1. PICK f \in Flows, s \in Entrants : Silent(p, f, s)
    BY <1>2
  <2>2. /\ on' \in [Procs -> Flows \cup {None}] /\ under' \in [Procs -> Entrants \cup {None}]
        /\ pc' \in [Procs -> Places]
    BY SMTT(30), <2>1 DEF Silent
  <2>3. kind' \in [Procs -> {"none", "callback", "silent", "redeem", "signout",
                             "sparing", "browser", "everywhere", "drop"}]
    BY <2>1 DEF Silent
  <2> QED
    BY <2>1, <2>2, <2>3 DEF Silent
<1>3. CASE p \in Entrants /\ Begin(p)
  BY <1>3, SignInAssumption DEF Begin
<1>4. CASE p \in Entrants /\ BeginAdd(p)
  <2>1. CASE At(p, "addall")
    BY <1>4, <2>1 DEF BeginAdd
  <2>2. CASE At(p, "addof")
    BY SMTT(30), <1>4, <2>2 DEF BeginAdd
  <2> QED
    BY <1>4, <2>1, <2>2 DEF BeginAdd
<1>5. CASE p \in Entrants /\ BeginFails(p)
  BY <1>5, SignInAssumption DEF BeginFails
<1>6. CASE p \in Entrants /\ CompleteRead(p)
  <2>1. pc' \in [Procs -> Places]
    BY SMTT(30), <1>6 DEF CompleteRead
  <2> QED
    BY <1>6, <2>1 DEF CompleteRead
<1>7. CASE p \in Entrants /\ Audit(p)
  <2>1. audited' \subseteq Procs /\ cookies' \subseteq Entrants
    BY <1>7 DEF Audit
  <2>2. pc' \in [Procs -> Places]
    BY SMTT(30), <1>7 DEF Audit
  <2>3. kind' \in [Procs -> {"none", "callback", "silent", "redeem", "signout",
                             "sparing", "browser", "everywhere", "drop"}]
    BY SMTT(30), <1>7 DEF Audit
  <2> QED
    BY <1>7, <2>1, <2>2, <2>3 DEF Audit
<1>8. CASE p \in Entrants /\ CompleteWrite(p)
  <2>1. on[p] \in Flows
    BY <1>8 DEF CompleteWrite, Roles, EntrantRole
  <2>3. request' \in [Flows -> [state: {"none", "waiting", "done", "gone"},
                                sso: Entrants \cup {None}, offline: BOOLEAN]]
    BY <1>8, <2>1 DEF CompleteWrite
  <2> QED
    BY <1>8, <2>3 DEF CompleteWrite
<1>9. CASE p \in Redeemers /\ \E g \in Flows, k \in Codes : Redeem(p, g, k)
  BY <1>9, SignInAssumption DEF Redeem
<1>10. CASE p \in Redeemers /\ AuthRequestByCode(p)
  <2>1. on[p] \in Flows
    BY <1>10 DEF AuthRequestByCode, Roles, RedeemerRole
  <2>2. CASE Go(p, "note") /\ UNCHANGED under
    <3>1. hurt' \subseteq Procs
      BY <1>10, <2>2 DEF AuthRequestByCode
    <3> QED
      BY <1>10, <2>2, <3>1 DEF AuthRequestByCode
  <2>3. CASE /\ under' = [under EXCEPT ![p] = request[on[p]].sso] /\ UNCHANGED hurt
             /\ Go(p, IF request[on[p]].offline THEN "record" ELSE "involve")
    <3>1. under' \in [Procs -> Entrants \cup {None}] /\ pc' \in [Procs -> Places]
      BY <2>1, <2>3
    <3> QED
      BY <1>10, <2>3, <3>1 DEF AuthRequestByCode
  <2> QED
    BY <1>10, <2>2, <2>3 DEF AuthRequestByCode
<1>11. CASE p \in Redeemers /\ GetNote(p)
  BY <1>11, SignInAssumption DEF GetNote, Roles, RedeemerRole
<1>12. CASE p \in Redeemers /\ EndNoted(p)
  BY <1>12, SignInAssumption DEF EndNoted
<1>13. CASE p \in Redeemers /\ DeleteNote(p)
  <2>1. on[p] \in Flows
    BY <1>13 DEF DeleteNote, Roles, RedeemerRole
  <2>3. note' \in [Flows -> [session: Redeemers \cup {None}, codes: SUBSET Codes]]
    BY <1>13, <2>1 DEF DeleteNote, Unnoted
  <2> QED
    BY <1>13, <2>3 DEF DeleteNote
<1>14. CASE p \in Redeemers /\ Record(p)
  BY <1>14, SignInAssumption DEF Record, Roles, RedeemerRole
<1>15. CASE p \in Redeemers /\ SetNote(p)
  BY <1>15, SignInAssumption DEF SetNote, Roles, RedeemerRole
<1>16. CASE p \in Redeemers /\ Involve(p)
  BY <1>16, SignInAssumption DEF Involve, Roles, RedeemerRole
<1>17. CASE p \in Redeemers /\ DeleteAuthRequest(p)
  <2>1. on[p] \in Flows
    BY <1>17 DEF DeleteAuthRequest, Roles, RedeemerRole
  <2>3. request' \in [Flows -> [state: {"none", "waiting", "done", "gone"},
                                sso: Entrants \cup {None}, offline: BOOLEAN]]
    BY <1>17, <2>1 DEF DeleteAuthRequest, Without
  <2> QED
    BY <1>17, <2>3 DEF DeleteAuthRequest
<1>18. CASE p \in Leavers /\ RevokeSessions(p)
  BY <1>18, SignInAssumption DEF RevokeSessions
<1>19. CASE p \in Leavers /\ \E t \in Entrants, how \in {"signout", "browser"} : SignOut(p, t, how)
  BY <1>19, SignInAssumption DEF SignOut
<1>20. CASE p \in Entrants \cup Leavers /\ GetSso(p)
  <2>1. hurt' \subseteq Procs
    BY <1>20 DEF GetSso
  <2>2. pc' \in [Procs -> Places]
    BY <1>20 DEF GetSso
  <2>3. before' \in [Procs -> SUBSET (Ids \cup Flows)]
    <3>1. under[p] \in Entrants
      BY <1>20 DEF GetSso, Roles, EntrantRole, LeaverRole, Begun
    <3>2. Under(under[p]) \cup {under[p]} \cup involved[under[p]] \subseteq Ids \cup Flows
      BY <3>1 DEF Under
    <3> QED
      BY <1>20, <3>2 DEF GetSso
  <2> QED
    BY <1>20, <2>1, <2>2, <2>3 DEF GetSso
<1>21. CASE p \in Entrants \cup Leavers /\ List(p)
  BY <1>21, SignInAssumption DEF List, Under
<1>22. CASE p \in Entrants \cup Leavers /\ Involved(p)
  <2>1. under[p] \in Entrants
    BY <1>22 DEF Involved, Roles, EntrantRole, LeaverRole, Begun
  <2>2. \A q \in held[p] : FlowOf(q) \in Flows
    BY DEF FlowOf, Roles, RedeemerRole
  <2>3. told' \in [Procs -> SUBSET Flows]
    BY <1>22, <2>1, <2>2 DEF Involved
  <2> QED
    BY <1>22, <2>3 DEF Involved
<1>23. CASE p \in Entrants \cup Leavers /\ Walk(p)
  BY <1>23, SignInAssumption DEF Walk, Under
<1>24. CASE p \in Entrants \cup Leavers /\ RevokeNext(p)
  <2>1. CASE todo[p] = {}
    BY <1>24, <2>1 DEF RevokeNext
  <2>2. CASE todo[p] # {}
    <3>1. PICK q \in todo[p] : open' = open \ {q} /\ todo' = [todo EXCEPT ![p] = @ \ {q}]
      BY <1>24, <2>2 DEF RevokeNext
    <3>2. open' \subseteq Redeemers
      BY <3>1
    <3>3. todo' \in [Procs -> SUBSET Ids]
      BY <3>1
    <3> QED
      BY <1>24, <2>2, <3>2, <3>3 DEF RevokeNext
  <2> QED
    BY <2>1, <2>2
<1>25. CASE p \in Entrants \cup Leavers /\ RevokeFails(p)
  BY <1>25, SignInAssumption DEF RevokeFails
<1>26. CASE p \in Entrants \cup Leavers /\ EndGet(p)
  BY <1>26, SignInAssumption DEF EndGet
<1>27. CASE p \in Entrants \cup Leavers /\ End(p)
  <2>1. under[p] \in Entrants
    BY <1>27 DEF End, Roles, EntrantRole, LeaverRole, Begun
  <2>2. /\ pc' \in [Procs -> Places] /\ ssoAll' \subseteq Entrants /\ ssoOf' \subseteq Entrants
    BY SMTT(30), <1>27 DEF End
  <2>3. sso' \in [Entrants -> {"none", "live", "gone"}] /\ involved' \in [Entrants -> SUBSET Flows]
    BY <1>27, <2>1 DEF End
  <2> QED
    BY <1>27, <2>2, <2>3 DEF End
<1>28. CASE p \in Entrants \cup Leavers /\ EndFails(p)
  BY <1>28, SignInAssumption DEF EndFails
<1>29. CASE p \in Entrants \cup Leavers /\ EndFor(p)
  BY <1>29, SignInAssumption DEF EndFor
<1>30. CASE p \in Entrants \cup Leavers /\ EndForNext(p)
  <2>1. p \in Leavers
    BY <1>30 DEF EndForNext, Roles, EntrantRole, EntrantPlaces
  <2>2. CASE At(p, "endnext")
    <3>1. todo[p] \subseteq Entrants
      BY <2>1, <2>2 DEF Roles, LeaverRole, Begun
    <3>2. CASE todo[p] = {}
      BY <1>30, <2>2, <3>2 DEF EndForNext
    <3>3. CASE todo[p] # {}
      <4>1. PICK s \in todo[p] :
              /\ under' = [under EXCEPT ![p] = s]
              /\ involved' = [involved EXCEPT ![s] = {}]
              /\ Go(p, "enddelete")
        BY <1>30, <2>2, <3>3 DEF EndForNext
      <4>2. pc' \in [Procs -> Places]
        BY <4>1
      <4>3. under' \in [Procs -> Entrants \cup {None}]
        BY <3>1, <4>1
      <4>4. involved' \in [Entrants -> SUBSET Flows]
        BY <3>1, <4>1
      <4> QED
        BY <1>30, <2>2, <4>2, <4>3, <4>4 DEF EndForNext
    <3> QED
      BY <3>2, <3>3
  <2>3. CASE At(p, "enddelete")
    <3>1. under[p] \in Entrants
      BY <2>1, <2>3 DEF Roles, LeaverRole, Begun
    <3>2. sso' = [sso EXCEPT ![under[p]] = "gone"] /\ pc' = [pc EXCEPT ![p] = "endremove"]
      BY <1>30, <2>3 DEF EndForNext
    <3>3. sso' \in [Entrants -> {"none", "live", "gone"}] /\ pc' \in [Procs -> Places]
      BY <3>1, <3>2
    <3> QED
      BY <1>30, <2>3, <3>3 DEF EndForNext
  <2>4. CASE At(p, "endremove")
    <3>1. todo' \in [Procs -> SUBSET Ids] /\ ssoOf' \subseteq Entrants
      BY <1>30, <2>4 DEF EndForNext
    <3>2. pc' \in [Procs -> Places]
      BY SMTT(30), <1>30, <2>4 DEF EndForNext
    <3> QED
      BY <1>30, <2>4, <3>1, <3>2 DEF EndForNext
  <2> QED
    BY <1>30, <2>2, <2>3, <2>4 DEF EndForNext
<1>31. CASE Fail(p)
  BY <1>31, SignInAssumption DEF Fail
<1> HIDE DEF Sound, TypeOK, Procs
<1> QED
  BY Handlers, <1>1, <1>2, <1>3, <1>4, <1>5, <1>6, <1>7, <1>8, <1>9, <1>10, <1>11, <1>12, <1>13, <1>14, <1>15, <1>16, <1>17, <1>18, <1>19, <1>20, <1>21, <1>22, <1>23, <1>24, <1>25, <1>26, <1>27, <1>28, <1>29, <1>30, <1>31

\* No handler goes back to the start.
Onward(p) == pc'[p] # "idle" /\ (pc'[p] = "begin" => pc[p] = "idle")

\* Every step of a handler leads further into it.
LEMMA ActOnward ==
  ASSUME TypeOK, NEW p \in Procs, Act(p) PROVE Onward(p)
<1> USE DEF Onward, TypeOK, Go, At, Idle
<1>1. CASE \E g \in Flows : Callback(p, g)
  BY <1>1 DEF Callback
<1>2. CASE \E g \in Flows, t \in Entrants : Silent(p, g, t)
  BY <1>2 DEF Silent
<1>3. CASE Begin(p) \/ BeginAdd(p) \/ BeginFails(p)
  BY <1>3 DEF Begin, BeginAdd, BeginFails
<1>4. CASE CompleteRead(p) \/ Audit(p) \/ CompleteWrite(p)
  BY <1>4 DEF CompleteRead, Audit, CompleteWrite
<1>5. CASE \E g \in Flows, k \in Codes : Redeem(p, g, k)
  BY <1>5 DEF Redeem
<1>6. CASE AuthRequestByCode(p) \/ GetNote(p) \/ EndNoted(p) \/ DeleteNote(p)
  BY <1>6 DEF AuthRequestByCode, GetNote, EndNoted, DeleteNote
<1>7. CASE Record(p) \/ SetNote(p) \/ Involve(p) \/ DeleteAuthRequest(p)
  BY <1>7 DEF Record, SetNote, Involve, DeleteAuthRequest
<1>8. CASE RevokeSessions(p) \/ \E t \in Entrants, how \in {"signout", "browser"} : SignOut(p, t, how)
  BY <1>8 DEF RevokeSessions, SignOut
<1>9. CASE GetSso(p) \/ List(p) \/ Involved(p)
  BY <1>9 DEF GetSso, List, Involved
<1>10. CASE Walk(p) \/ RevokeNext(p) \/ RevokeFails(p)
  BY <1>10 DEF Walk, RevokeNext, RevokeFails
<1>11. CASE EndGet(p) \/ End(p) \/ EndFails(p)
  BY <1>11 DEF EndGet, End, EndFails
<1>12. CASE EndFor(p) \/ EndForNext(p)
  BY <1>12 DEF EndFor, EndForNext
<1>13. CASE Fail(p)
  BY <1>13 DEF Fail
<1> HIDE DEF Onward, TypeOK
<1> QED
  BY Handlers, <1>1, <1>2, <1>3, <1>4, <1>5, <1>6, <1>7, <1>8, <1>9, <1>10, <1>11, <1>12, <1>13

\* What was begun stays begun, and everybody else keeps their role.
LEMMA RolesFrame ==
  ASSUME Sound, NEW p \in Procs, Others(p), Onward(p)
  PROVE  /\ \A s : Begun(s) => Begun(s)'
         /\ \A q \in Entrants \ {p} : EntrantRole(q)'
         /\ \A q \in Redeemers \ {p} : RedeemerRole(q)'
         /\ \A q \in Leavers \ {p} : LeaverRole(q)'
<1>1. ASSUME NEW s, Begun(s) PROVE Begun(s)'
  BY <1>1 DEF Begun, Others, Onward, Procs
<1>2. ASSUME NEW q \in Entrants \ {p} PROVE EntrantRole(q)'
  <2>1. EntrantRole(q) /\ q \in Procs \ {p}
    BY DEF Sound, Roles, Procs
  <2>2. pc'[q] = pc[q] /\ kind'[q] = kind[q] /\ on'[q] = on[q] /\ under'[q] = under[q]
    BY <2>1 DEF Others
  <2>3. Begun(under[q]) => Begun(under[q])'
    BY <1>1, <2>2 DEF Begun
  <2> QED
    BY <2>1, <2>2, <2>3 DEF EntrantRole, Begun
<1>3. ASSUME NEW q \in Redeemers \ {p} PROVE RedeemerRole(q)'
  BY DEF Sound, Roles, Procs, RedeemerRole, Others
<1>4. ASSUME NEW q \in Leavers \ {p} PROVE LeaverRole(q)'
  <2>1. LeaverRole(q) /\ q \in Procs \ {p}
    BY DEF Sound, Roles, Procs
  <2>2. /\ pc'[q] = pc[q] /\ kind'[q] = kind[q] /\ under'[q] = under[q] /\ todo'[q] = todo[q]
        /\ q \in hurt' <=> q \in hurt
    BY <2>1 DEF Others
  <2>3. Begun(under[q]) => Begun(under[q])'
    BY <1>1, <2>2 DEF Begun
  <2>4. (\A s \in todo[q] : Begun(s)) => (\A s \in todo[q] : Begun(s))'
    BY <1>1, <2>2 DEF Begun
  <2> QED
    BY <2>1, <2>2, <2>3, <2>4 DEF LeaverRole, Begun
<1> QED
  BY <1>1, <1>2, <1>3, <1>4

\* Where a handler's step leads, its role holds.
LEMMA ActRole ==
  ASSUME Sound, NEW p \in Procs, Act(p), Others(p), Onward(p)
  PROVE  /\ p \in Entrants => EntrantRole(p)'
         /\ p \in Redeemers => RedeemerRole(p)'
         /\ p \in Leavers => LeaverRole(p)'
<1>0. /\ p \in Entrants => EntrantRole(p) /\ p \notin Redeemers /\ p \notin Leavers
      /\ p \in Redeemers => RedeemerRole(p) /\ p \notin Entrants /\ p \notin Leavers
      /\ p \in Leavers => LeaverRole(p) /\ p \notin Entrants /\ p \notin Redeemers
      /\ TypeOK
  BY SignInAssumption DEF Sound, Roles
<1>b. \A s : Begun(s) => Begun(s)'
  BY RolesFrame
<1>c. /\ \A s \in cookies \cup ssoOf : Begun(s)
      /\ p \in hurt => pc[p] # "idle"
  BY DEF Sound, Roles
<1> USE DEF EntrantRole, RedeemerRole, LeaverRole, EntrantPlaces, RedeemerPlaces, LeaverPlaces, EndPlaces,
         TypeOK, Go, Hurt, local, past, store, At, Idle, Procs
<1>1. CASE p \in Entrants /\ \E g \in Flows : Callback(p, g)
  BY <1>0, <1>b, <1>c, <1>1, SignInAssumption DEF Callback, Begun
<1>2. CASE p \in Entrants /\ \E g \in Flows, t \in Entrants : Silent(p, g, t)
  BY <1>0, <1>b, <1>c, <1>2, SignInAssumption DEF Silent, Begun
<1>3. CASE p \in Entrants /\ Begin(p)
  BY <1>0, <1>b, <1>c, <1>3, SignInAssumption DEF Begin, Begun
<1>4. CASE p \in Entrants /\ BeginAdd(p)
  BY <1>0, <1>b, <1>c, <1>4, SignInAssumption DEF BeginAdd, Begun
<1>5. CASE p \in Entrants /\ BeginFails(p)
  BY <1>0, <1>b, <1>c, <1>5, SignInAssumption DEF BeginFails, Begun
<1>6. CASE p \in Entrants /\ CompleteRead(p)
  BY <1>0, <1>b, <1>c, <1>6, SignInAssumption DEF CompleteRead, Begun
<1>7. CASE p \in Entrants /\ Audit(p)
  BY <1>0, <1>b, <1>c, <1>7, SignInAssumption DEF Audit, Begun
<1>8. CASE p \in Entrants /\ CompleteWrite(p)
  BY <1>0, <1>b, <1>c, <1>8, SignInAssumption DEF CompleteWrite, Begun
<1>9. CASE p \in Redeemers /\ \E g \in Flows, k \in Codes : Redeem(p, g, k)
  BY <1>0, <1>b, <1>c, <1>9, SignInAssumption DEF Redeem, Begun
<1>10. CASE p \in Redeemers /\ AuthRequestByCode(p)
  BY <1>0, <1>b, <1>c, <1>10, SignInAssumption DEF AuthRequestByCode, Begun
<1>11. CASE p \in Redeemers /\ GetNote(p)
  BY <1>0, <1>b, <1>c, <1>11, SignInAssumption DEF GetNote, Begun
<1>12. CASE p \in Redeemers /\ EndNoted(p)
  BY <1>0, <1>b, <1>c, <1>12, SignInAssumption DEF EndNoted, Begun
<1>13. CASE p \in Redeemers /\ DeleteNote(p)
  BY <1>0, <1>b, <1>c, <1>13, SignInAssumption DEF DeleteNote, Begun
<1>14. CASE p \in Redeemers /\ Record(p)
  BY <1>0, <1>b, <1>c, <1>14, SignInAssumption DEF Record, Begun
<1>15. CASE p \in Redeemers /\ SetNote(p)
  BY <1>0, <1>b, <1>c, <1>15, SignInAssumption DEF SetNote, Begun
<1>16. CASE p \in Redeemers /\ Involve(p)
  BY <1>0, <1>b, <1>c, <1>16, SignInAssumption DEF Involve, Begun
<1>17. CASE p \in Redeemers /\ DeleteAuthRequest(p)
  BY <1>0, <1>b, <1>c, <1>17, SignInAssumption DEF DeleteAuthRequest, Begun
<1>18. CASE p \in Leavers /\ RevokeSessions(p)
  BY <1>0, <1>b, <1>c, <1>18, SignInAssumption DEF RevokeSessions, Begun
<1>19. CASE p \in Leavers /\ \E t \in Entrants, how \in {"signout", "browser"} : SignOut(p, t, how)
  BY <1>0, <1>b, <1>c, <1>19, SignInAssumption DEF SignOut, Begun
<1>20. CASE p \in Entrants \cup Leavers /\ GetSso(p)
  BY <1>0, <1>b, <1>c, <1>20, SignInAssumption DEF GetSso, Begun
<1>21. CASE p \in Entrants \cup Leavers /\ List(p)
  BY <1>0, <1>b, <1>c, <1>21, SignInAssumption DEF List, Begun
<1>22. CASE p \in Entrants \cup Leavers /\ Involved(p)
  BY <1>0, <1>b, <1>c, <1>22, SignInAssumption DEF Involved, Begun
<1>23. CASE p \in Entrants \cup Leavers /\ Walk(p)
  BY <1>0, <1>b, <1>c, <1>23, SignInAssumption DEF Walk, Begun
<1>24. CASE p \in Entrants \cup Leavers /\ RevokeNext(p)
  BY <1>0, <1>b, <1>c, <1>24, SignInAssumption DEF RevokeNext, Begun
<1>25. CASE p \in Entrants \cup Leavers /\ RevokeFails(p)
  BY <1>0, <1>b, <1>c, <1>25, SignInAssumption DEF RevokeFails, Begun
<1>26. CASE p \in Entrants \cup Leavers /\ EndGet(p)
  BY <1>0, <1>b, <1>c, <1>26, SignInAssumption DEF EndGet, Begun
<1>27. CASE p \in Entrants \cup Leavers /\ End(p)
  BY <1>0, <1>b, <1>c, <1>27, SignInAssumption DEF End, Begun
<1>28. CASE p \in Entrants \cup Leavers /\ EndFails(p)
  BY <1>0, <1>b, <1>c, <1>28, SignInAssumption DEF EndFails, Begun
<1>29. CASE p \in Entrants \cup Leavers /\ EndFor(p)
  BY <1>0, <1>b, <1>c, <1>29, SignInAssumption DEF EndFor, Begun
<1>30. CASE p \in Entrants \cup Leavers /\ EndForNext(p)
  BY <1>0, <1>b, <1>c, <1>30, SignInAssumption DEF EndForNext, Begun
<1>31. CASE Fail(p)
  BY <1>0, <1>b, <1>c, <1>31, SignInAssumption DEF Fail, Begun
<1> HIDE DEF EntrantRole, RedeemerRole, LeaverRole, TypeOK, Procs
<1> QED
  BY Handlers, <1>1, <1>2, <1>3, <1>4, <1>5, <1>6, <1>7, <1>8, <1>9, <1>10, <1>11, <1>12, <1>13, <1>14, <1>15, <1>16, <1>17, <1>18, <1>19, <1>20, <1>21, <1>22, <1>23, <1>24, <1>25, <1>26, <1>27, <1>28, <1>29, <1>30, <1>31

\* Only a redemption opens a session.
LEMMA ActOpen ==
  ASSUME NEW p \in Procs, Act(p)
  PROVE  open' \subseteq open \/ (p \in Redeemers /\ Record(p) /\ open' = open \cup {p})
BY Handlers DEF local, past, store, Callback, Silent, Begin, BeginAdd, BeginFails, CompleteRead, Audit, CompleteWrite, Redeem, AuthRequestByCode, GetNote, EndNoted, DeleteNote, Record, SetNote, Involve, DeleteAuthRequest, RevokeSessions, SignOut, GetSso, List, Involved, Walk, RevokeNext, RevokeFails, EndGet, End, EndFails, EndFor, EndForNext, Fail

\* What the store and the requests refer to has been begun.
Rooted ==
  /\ \A s \in cookies \cup ssoOf : Begun(s)
  /\ \A p \in hurt : pc[p] \notin {"idle", "request", "begin", "addall", "addof"}
  /\ \A q \in open : pc[q] # "idle"
  /\ \A p \in Procs : \A q \in held[p] : pc[q] # "idle"

\* Every step of a handler keeps it so: a cookie, a membership, a session comes only from a request under way.
LEMMA ActRooted ==
  ASSUME Sound, TypeOK', NEW p \in Procs, Act(p), Others(p), Onward(p) PROVE Rooted'
<1>1. /\ \A s : Begun(s) => Begun(s)'
      /\ Rooted
      /\ TypeOK
  BY RolesFrame DEF Sound, Roles, Rooted
<1>2. Onward(p) /\ \A q \in Procs : pc[q] # "idle" => pc'[q] # "idle"
  BY DEF Others, Onward
<1>3. \A q \in Redeemers : q \in Procs
  BY DEF Procs
<1>4. (\A s \in cookies \cup ssoOf : Begun(s))'
  <2>1. ASSUME NEW s \in (cookies' \cup ssoOf') \ (cookies \cup ssoOf) PROVE s = p /\ BeginAdd(p) /\ At(p, "addof") /\ p \in Entrants
    BY ZenonT(30), <1>1, <2>1, Handlers DEF Go, Hurt, local, past, store, At, Callback, Silent, Begin, BeginAdd, BeginFails, CompleteRead, Audit, CompleteWrite, Redeem, AuthRequestByCode, GetNote, EndNoted, DeleteNote, Record, SetNote, Involve, DeleteAuthRequest, RevokeSessions, SignOut, GetSso, List, Involved, Walk, RevokeNext, RevokeFails, EndGet, End, EndFails, EndFor, EndForNext, Fail, Under
  <2>2. ASSUME BeginAdd(p), At(p, "addof"), p \in Entrants PROVE Begun(p)'
    BY <1>1, <2>2 DEF BeginAdd, At, Go, TypeOK, Begun
  <2> QED
    BY <1>1, <2>1, <2>2 DEF Rooted
<1>5. (\A q \in hurt : pc[q] \notin {"idle", "request", "begin", "addall", "addof"})'
  <2>1. pc'[p] \in {"request", "begin", "addall", "addof"} =>
           pc[p] \in {"idle", "begin", "addall"} /\ hurt' = hurt
    <3> USE DEF Go, At, Idle, TypeOK, EndPlaces, local
    <3>1. CASE \E g \in Flows : Callback(p, g)
      BY <1>1, <3>1 DEF Callback
    <3>2. CASE \E g \in Flows, t \in Entrants : Silent(p, g, t)
      BY <1>1, <3>2 DEF Silent
    <3>3. CASE Begin(p) \/ BeginAdd(p) \/ BeginFails(p)
      BY <1>1, <3>3 DEF Begin, BeginAdd, BeginFails
    <3>4. CASE CompleteRead(p) \/ Audit(p) \/ CompleteWrite(p)
      BY <1>1, <3>4 DEF CompleteRead, Audit, CompleteWrite
    <3>5. CASE \E g \in Flows, k \in Codes : Redeem(p, g, k)
      BY <1>1, <3>5 DEF Redeem
    <3>6. CASE AuthRequestByCode(p) \/ GetNote(p) \/ EndNoted(p) \/ DeleteNote(p)
      BY <1>1, <3>6 DEF AuthRequestByCode, GetNote, EndNoted, DeleteNote
    <3>7. CASE Record(p) \/ SetNote(p) \/ Involve(p) \/ DeleteAuthRequest(p)
      BY <1>1, <3>7 DEF Record, SetNote, Involve, DeleteAuthRequest
    <3>8. CASE RevokeSessions(p) \/ \E t \in Entrants, how \in {"signout", "browser"} : SignOut(p, t, how)
      BY <1>1, <3>8 DEF RevokeSessions, SignOut
    <3>9. CASE GetSso(p) \/ List(p) \/ Involved(p)
      BY <1>1, <3>9 DEF GetSso, List, Involved
    <3>10. CASE Walk(p) \/ RevokeNext(p) \/ RevokeFails(p)
      BY <1>1, <3>10 DEF Walk, RevokeNext, RevokeFails
    <3>11. CASE EndGet(p) \/ End(p) \/ EndFails(p)
      BY <1>1, <3>11 DEF EndGet, End, EndFails
    <3>12. CASE EndFor(p) \/ EndForNext(p)
      BY <1>1, <3>12 DEF EndFor, EndForNext
    <3>13. CASE Fail(p)
      BY <1>1, <3>13 DEF Fail
    <3> HIDE DEF Go, At, Idle, TypeOK, EndPlaces, local
    <3> QED
      BY Handlers, <3>1, <3>2, <3>3, <3>4, <3>5, <3>6, <3>7, <3>8, <3>9, <3>10, <3>11, <3>12, <3>13
  <2> QED
    BY <1>1, <1>2, <2>1 DEF Rooted, Others, Onward, TypeOK
<1>6. (\A q \in open : pc[q] # "idle")'
  <2>1. open' \subseteq open \cup {p}
    BY ActOpen
  <2> QED
    BY <1>1, <1>2, <1>3, <2>1 DEF Rooted, Onward, TypeOK
<1>7. (\A r \in Procs : \A q \in held[r] : pc[q] # "idle")'
  <2>1. held'[p] \subseteq held[p] \cup open
    BY <1>1, Handlers DEF Go, Hurt, local, past, store, At, Callback, Silent, Begin, BeginAdd, BeginFails, CompleteRead, Audit, CompleteWrite, Redeem, AuthRequestByCode, GetNote, EndNoted, DeleteNote, Record, SetNote, Involve, DeleteAuthRequest, RevokeSessions, SignOut, GetSso, List, Involved, Walk, RevokeNext, RevokeFails, EndGet, End, EndFails, EndFor, EndForNext, Fail, Under, TypeOK
  <2> QED
    BY <1>1, <1>2, <1>3, <2>1 DEF Rooted, TypeOK, Others
<1> QED
  BY <1>4, <1>5, <1>6, <1>7 DEF Rooted

\* A step of a request keeps the types and everybody's role.
LEMMA ActSound ==
  ASSUME Sound, NEW p \in Procs, Act(p) PROVE Sound' /\ Others(p) /\ Onward(p)
<1>1. TypeOK' /\ Others(p) /\ Onward(p)
  BY ActTypes, ActOthers, ActOnward DEF Sound
<1>2. Rooted'
  BY <1>1, ActRooted
<1>3. /\ \A q \in Entrants : EntrantRole(q)'
      /\ \A q \in Redeemers : RedeemerRole(q)'
      /\ \A q \in Leavers : LeaverRole(q)'
  BY <1>1, ActRole, RolesFrame
<1> QED
  BY <1>1, <1>2, <1>3 DEF Sound, Roles, Rooted

\* Nothing that happens by itself is about a request's progress.
LEMMA EnvironmentFrame ==
  ASSUME Environment
  PROVE  /\ UNCHANGED <<sso, involved, open, cookies, audited, pc, local, opened, before>>
         /\ ssoOf' \subseteq ssoOf /\ lost \subseteq lost'
         /\ \A s \in ssoOf \ ssoOf' : sso[s] = "gone"
BY DEF Environment, CreateAuthRequest, SaveAuthCode, ExpireRequest, ExpireCode, Repair, local, past

\* It keeps the types as well.
LEMMA EnvironmentSound ==
  ASSUME Sound, Environment PROVE Sound'
<1>1. Roles'
  BY EnvironmentFrame DEF Sound, Roles, EntrantRole, RedeemerRole, LeaverRole, Begun, local
<1>2. TypeOK'
  <2> USE DEF TypeOK
  <2>0. TypeOK
    BY DEF Sound
  <2>1. ASSUME NEW f \in Flows, NEW offline \in BOOLEAN, CreateAuthRequest(f, offline) PROVE TypeOK'
    <3>1. request' \in [Flows -> [state: {"none", "waiting", "done", "gone"},
                                  sso: Entrants \cup {None}, offline: BOOLEAN]]
      BY <2>0, <2>1 DEF CreateAuthRequest
    <3> QED
      BY <2>0, <2>1, <3>1 DEF CreateAuthRequest, local, past
  <2>2. ASSUME NEW f \in Flows, NEW k \in Codes, SaveAuthCode(f, k) PROVE TypeOK'
    BY <2>0, <2>2 DEF SaveAuthCode, local, past
  <2>3. ASSUME NEW f \in Flows, ExpireRequest(f) PROVE TypeOK'
    <3>1. request' \in [Flows -> [state: {"none", "waiting", "done", "gone"},
                                  sso: Entrants \cup {None}, offline: BOOLEAN]]
      BY <2>0, <2>3 DEF ExpireRequest, Without
    <3> QED
      BY <2>0, <2>3, <3>1 DEF ExpireRequest, local
  <2>4. ASSUME NEW f \in Flows, NEW k \in Codes, ExpireCode(f, k) PROVE TypeOK'
    <3>1. code' \in [Flows -> [Codes -> {"none", "live", "expired"}]]
      BY <2>0, <2>4 DEF ExpireCode
    <3>2. lost' \subseteq Flows /\ (note' = note \/ note' = Unnoted(f))
      BY <2>0, <2>4 DEF ExpireCode
    <3>3. note' \in [Flows -> [session: Redeemers \cup {None}, codes: SUBSET Codes]]
      <4>1. CASE note' = note
        BY <2>0, <4>1
      <4>2. CASE note' = Unnoted(f)
        BY <2>0, <4>2 DEF Unnoted
      <4> QED
        BY <3>2, <4>1, <4>2
    <3> QED
      BY <2>0, <2>4, <3>1, <3>2, <3>3 DEF ExpireCode, local
  <2>5. ASSUME NEW s \in Entrants, Repair(s) PROVE TypeOK'
    BY <2>0, <2>5 DEF Repair, local, past
  <2> HIDE DEF TypeOK
  <2> QED
    BY <2>1, <2>2, <2>3, <2>4, <2>5 DEF Environment
<1> QED
  BY <1>1, <1>2 DEF Sound

\* Nothing has been asked for in the beginning.
LEMMA InitSound == Init => Sound
<1> SUFFICES ASSUME Init PROVE Sound
  OBVIOUS
<1>1. TypeOK
  BY DEF Init, TypeOK, Places, Finished, EndPlaces
<1>2. Roles
  BY DEF Init, Roles, EntrantRole, RedeemerRole, LeaverRole, EntrantPlaces, RedeemerPlaces, LeaverPlaces,
         EndPlaces, Begun, Procs
<1> QED
  BY <1>1, <1>2 DEF Sound

\* A step that changes nothing keeps everything.
LEMMA StutterSound == Sound /\ UNCHANGED vars => Sound'
BY DEF Sound, TypeOK, Roles, EntrantRole, RedeemerRole, LeaverRole, Begun, vars, store, local, past

\* Every step keeps the types and the roles.
LEMMA NextSound == Sound /\ [Next]_vars => Sound'
BY Steps, ActSound, EnvironmentSound, StutterSound

\* The state of the issuer's sign-ins keeps its types, and every request is in a
\* handler of its own kind, about a sign-in that was begun (Begin, Complete, signOut).
THEOREM TypeCorrect == Spec => []TypeOK
<1>1. Sound => TypeOK
  BY DEF Sound
<1> QED
  BY InitSound, NextSound, <1>1, PTL DEF Spec

-----------------------------------------------------------------------------
(* What a step of a request leaves as it was. *)

\* A handler stays with the request it is about, and stays the same handler unless
\* a recovery that could not be recorded is refused.
LEMMA ActFixed ==
  ASSUME TypeOK, NEW p \in Procs, Act(p), pc[p] # "idle"
  PROVE  on'[p] = on[p] /\ (kind'[p] = kind[p] \/ (kind[p] = "callback" /\ kind'[p] = "drop"))
<1> USE DEF Idle, TypeOK, local, At
<1>1. CASE \E g \in Flows : Callback(p, g)
  BY <1>1 DEF Callback
<1>2. CASE \E g \in Flows, t \in Entrants : Silent(p, g, t)
  BY <1>2 DEF Silent
<1>3. CASE Begin(p) \/ BeginAdd(p) \/ BeginFails(p)
  BY <1>3 DEF Begin, BeginAdd, BeginFails
<1>4. CASE CompleteRead(p) \/ Audit(p) \/ CompleteWrite(p)
  BY <1>4 DEF CompleteRead, Audit, CompleteWrite
<1>5. CASE \E g \in Flows, k \in Codes : Redeem(p, g, k)
  BY <1>5 DEF Redeem
<1>6. CASE AuthRequestByCode(p) \/ GetNote(p) \/ EndNoted(p) \/ DeleteNote(p)
  BY <1>6 DEF AuthRequestByCode, GetNote, EndNoted, DeleteNote
<1>7. CASE Record(p) \/ SetNote(p) \/ Involve(p) \/ DeleteAuthRequest(p)
  BY <1>7 DEF Record, SetNote, Involve, DeleteAuthRequest
<1>8. CASE RevokeSessions(p) \/ \E t \in Entrants, how \in {"signout", "browser"} : SignOut(p, t, how)
  BY <1>8 DEF RevokeSessions, SignOut
<1>9. CASE GetSso(p) \/ List(p) \/ Involved(p)
  BY <1>9 DEF GetSso, List, Involved
<1>10. CASE Walk(p) \/ RevokeNext(p) \/ RevokeFails(p)
  BY <1>10 DEF Walk, RevokeNext, RevokeFails
<1>11. CASE EndGet(p) \/ End(p) \/ EndFails(p)
  BY <1>11 DEF EndGet, End, EndFails
<1>12. CASE EndFor(p) \/ EndForNext(p)
  BY <1>12 DEF EndFor, EndForNext
<1>13. CASE Fail(p)
  BY <1>13 DEF Fail
<1> HIDE DEF Idle, TypeOK, local, At
<1> QED
  BY Handlers, <1>1, <1>2, <1>3, <1>4, <1>5, <1>6, <1>7, <1>8, <1>9, <1>10, <1>11, <1>12, <1>13

\* A sign-in that has ended is not begun again.
LEMMA ActGone ==
  ASSUME Sound, NEW p \in Procs, Act(p), NEW s \in Entrants, Begun(s), sso[s] = "gone"
  PROVE  sso'[s] = "gone"
<1>0. TypeOK
  BY DEF Sound
<1> USE DEF TypeOK, Begun, At, local, store
<1>1. CASE \E g \in Flows : Callback(p, g)
  BY <1>0, <1>1 DEF Callback
<1>2. CASE \E g \in Flows, t \in Entrants : Silent(p, g, t)
  BY <1>0, <1>2 DEF Silent
<1>3. CASE Begin(p) \/ BeginAdd(p) \/ BeginFails(p)
  BY <1>0, <1>3 DEF Begin, BeginAdd, BeginFails
<1>4. CASE CompleteRead(p) \/ Audit(p) \/ CompleteWrite(p)
  BY <1>0, <1>4 DEF CompleteRead, Audit, CompleteWrite
<1>5. CASE \E g \in Flows, k \in Codes : Redeem(p, g, k)
  BY <1>0, <1>5 DEF Redeem
<1>6. CASE AuthRequestByCode(p) \/ GetNote(p) \/ EndNoted(p) \/ DeleteNote(p)
  BY <1>0, <1>6 DEF AuthRequestByCode, GetNote, EndNoted, DeleteNote
<1>7. CASE Record(p) \/ SetNote(p) \/ Involve(p) \/ DeleteAuthRequest(p)
  BY <1>0, <1>7 DEF Record, SetNote, Involve, DeleteAuthRequest
<1>8. CASE RevokeSessions(p) \/ \E t \in Entrants, how \in {"signout", "browser"} : SignOut(p, t, how)
  BY <1>0, <1>8 DEF RevokeSessions, SignOut
<1>9. CASE GetSso(p) \/ List(p) \/ Involved(p)
  BY <1>0, <1>9 DEF GetSso, List, Involved
<1>10. CASE Walk(p) \/ RevokeNext(p) \/ RevokeFails(p)
  BY <1>0, <1>10 DEF Walk, RevokeNext, RevokeFails
<1>11. CASE EndGet(p) \/ End(p) \/ EndFails(p)
  BY <1>0, <1>11 DEF EndGet, End, EndFails
<1>12. CASE EndFor(p) \/ EndForNext(p)
  BY <1>0, <1>12 DEF EndFor, EndForNext
<1>13. CASE Fail(p)
  BY <1>0, <1>13 DEF Fail
<1> HIDE DEF TypeOK, Begun, At, local, store
<1> QED
  BY Handlers, <1>1, <1>2, <1>3, <1>4, <1>5, <1>6, <1>7, <1>8, <1>9, <1>10, <1>11, <1>12, <1>13

\* Only the completing sign-in marks a request done.
LEMMA ActDone ==
  ASSUME Sound, NEW p \in Procs, Act(p), NEW f \in Flows, request'[f].state = "done"
  PROVE  \/ request'[f] = request[f]
         \/ p \in Entrants /\ CompleteWrite(p) /\ f = on[p] /\ request'[f].sso = under[p]
<1>0. TypeOK /\ (\A q \in Entrants : EntrantRole(q)) /\ (\A r \in Redeemers : RedeemerRole(r))
  BY DEF Sound, Roles
<1>1. CASE p \in Entrants /\ CompleteWrite(p)
  <2>1. on[p] \in Flows
    BY <1>0, <1>1 DEF CompleteWrite, EntrantRole, At
  <2> QED
    BY <1>0, <1>1, <2>1 DEF CompleteWrite, TypeOK
<1>2. CASE p \in Redeemers /\ DeleteAuthRequest(p)
  <2>1. on[p] \in Flows
    BY <1>0, <1>2 DEF DeleteAuthRequest, RedeemerRole, At
  <2> QED
    BY <1>0, <1>2, <2>1 DEF DeleteAuthRequest, Without, TypeOK
<1>3. CASE request' = request
  BY <1>3
<1>4. request' = request \/ (p \in Entrants /\ CompleteWrite(p)) \/ (p \in Redeemers /\ DeleteAuthRequest(p))
  BY Handlers DEF local, past, store, Callback, Silent, Begin, BeginAdd, BeginFails, CompleteRead, Audit, Redeem, AuthRequestByCode, GetNote, EndNoted, DeleteNote, Record, SetNote, Involve, RevokeSessions, SignOut, GetSso, List, Involved, Walk, RevokeNext, RevokeFails, EndGet, End, EndFails, EndFor, EndForNext, Fail
<1> QED
  BY <1>1, <1>2, <1>3, <1>4

\* A handler stays with its sign-in once it has set out to end it, and stays failed.
LEMMA ActUnder ==
  ASSUME Sound, NEW p \in Procs, Act(p)
  PROVE  /\ p \in hurt \/ (pc[p] # "idle" /\ kind[p] \in {"signout", "browser", "sparing", "drop"})
              => under'[p] = under[p]
         /\ pc[p] \in {"endof", "endclients", "endsso", "endremove", "enddelete"} => under'[p] = under[p]
         /\ p \in Redeemers /\ pc[p] \notin {"idle", "request"} => under'[p] = under[p]
         /\ hurt \subseteq hurt'
<1>0. /\ TypeOK
      /\ pc[p] \in {"begin", "addall", "addof"} => kind[p] = "callback" /\ p \notin hurt /\ p \notin Redeemers
      /\ pc[p] = "request" => kind[p] = "redeem" /\ p \notin hurt
      /\ pc[p] = "endnext" => kind[p] = "everywhere" /\ p \notin hurt /\ p \notin Redeemers
      /\ pc[p] = "idle" => p \notin hurt
  BY SignInAssumption DEF Sound, Roles, Procs, EntrantRole, RedeemerRole, LeaverRole, EntrantPlaces, RedeemerPlaces,
         LeaverPlaces, EndPlaces
<1> USE DEF At, Idle, Hurt, TypeOK, local
<1>1. CASE \E g \in Flows : Callback(p, g)
  BY <1>0, <1>1 DEF Callback
<1>2. CASE \E g \in Flows, t \in Entrants : Silent(p, g, t)
  BY <1>0, <1>2 DEF Silent
<1>3. CASE Begin(p) \/ BeginAdd(p) \/ BeginFails(p)
  BY <1>0, <1>3 DEF Begin, BeginAdd, BeginFails
<1>4. CASE CompleteRead(p) \/ Audit(p) \/ CompleteWrite(p)
  BY <1>0, <1>4 DEF CompleteRead, Audit, CompleteWrite
<1>5. CASE \E g \in Flows, k \in Codes : Redeem(p, g, k)
  BY <1>0, <1>5 DEF Redeem
<1>6. CASE AuthRequestByCode(p) \/ GetNote(p) \/ EndNoted(p) \/ DeleteNote(p)
  BY <1>0, <1>6 DEF AuthRequestByCode, GetNote, EndNoted, DeleteNote
<1>7. CASE Record(p) \/ SetNote(p) \/ Involve(p) \/ DeleteAuthRequest(p)
  BY <1>0, <1>7 DEF Record, SetNote, Involve, DeleteAuthRequest
<1>8. CASE RevokeSessions(p) \/ \E t \in Entrants, how \in {"signout", "browser"} : SignOut(p, t, how)
  BY <1>0, <1>8 DEF RevokeSessions, SignOut
<1>9. CASE GetSso(p) \/ List(p) \/ Involved(p)
  BY <1>0, <1>9 DEF GetSso, List, Involved
<1>10. CASE Walk(p) \/ RevokeNext(p) \/ RevokeFails(p)
  BY <1>0, <1>10 DEF Walk, RevokeNext, RevokeFails
<1>11. CASE EndGet(p) \/ End(p) \/ EndFails(p)
  BY <1>0, <1>11 DEF EndGet, End, EndFails
<1>12. CASE EndFor(p) \/ EndForNext(p)
  BY <1>0, <1>12 DEF EndFor, EndForNext
<1>13. CASE Fail(p)
  BY <1>0, <1>13 DEF Fail
<1> HIDE DEF At, Idle, Hurt, TypeOK, local
<1> QED
  BY Handlers, <1>1, <1>2, <1>3, <1>4, <1>5, <1>6, <1>7, <1>8, <1>9, <1>10, <1>11, <1>12, <1>13

-----------------------------------------------------------------------------
(* Recovery. *)

RecoveryInv == Sound /\ Audited /\ EndedGone

\* A request's step keeps what was audited, and audits a recovery before it completes.
LEMMA ActAudited ==
  ASSUME Sound, Sound', Audited, NEW p \in Procs, Act(p), Others(p), Onward(p) PROVE Audited'
<1>0. TypeOK /\ TypeOK' /\ (\A q \in Entrants : EntrantRole(q)) /\ (\A q \in Procs : pc[q] # "idle" => on'[q] = on[q])
  BY ActFixed DEF Sound, Roles, Others
<1>1. audited' = audited \/ (p \in Entrants /\ Audit(p) /\ audited' = audited \cup {p})
  BY Handlers DEF local, past, store, Callback, Silent, Begin, BeginAdd, BeginFails, CompleteRead, Audit, CompleteWrite, Redeem, AuthRequestByCode, GetNote, EndNoted, DeleteNote, Record, SetNote, Involve, DeleteAuthRequest, RevokeSessions, SignOut, GetSso, List, Involved, Walk, RevokeNext, RevokeFails, EndGet, End, EndFails, EndFor, EndForNext, Fail
<1>2. (\A q \in audited : pc[q] # "idle")'
  BY <1>0, <1>1 DEF Audited, Others, Onward, TypeOK
<1>3. ASSUME NEW q \in Entrants, (pc[q] \in {"mark", "finished"} /\ Recovery(q))' PROVE q \in audited'
  <2>1. CASE q # p
    <3>1. pc[q] \in {"mark", "finished"} /\ Recovery(q)
      BY <1>3, <2>1 DEF Recovery, Others, Procs
    <3> QED
      BY <1>1, <3>1 DEF Audited
  <2>2. CASE q = p
    <3>1. CASE CompleteRead(p)
      BY <1>0, <1>3, <2>2, <3>1 DEF CompleteRead, Recovery, Go, At, local, TypeOK
    <3>2. CASE Audit(p)
      BY <1>0, <1>3, <2>2, <3>2 DEF Audit, Go, At, TypeOK
    <3>4. CASE CompleteWrite(p)
      <4>1. pc[p] = "mark" /\ Recovery(p)
        BY <1>3, <2>2, <3>4 DEF CompleteWrite, Recovery, At, local
      <4> QED
        BY <1>1, <2>2, <4>1 DEF Audited
    <3>3. CASE ~CompleteRead(p) /\ ~Audit(p) /\ ~CompleteWrite(p)
      <4>1. pc'[p] \notin {"mark", "finished"}
        <5> USE DEF TypeOK, Go, At, Idle
        <5>1. CASE \E g \in Flows : Callback(p, g)
          BY <1>0, <3>3, <5>1 DEF Callback
        <5>2. CASE \E g \in Flows, t \in Entrants : Silent(p, g, t)
          BY <1>0, <3>3, <5>2 DEF Silent
        <5>3. CASE Begin(p) \/ BeginAdd(p) \/ BeginFails(p)
          BY <1>0, <3>3, <5>3 DEF Begin, BeginAdd, BeginFails
        <5>4. CASE CompleteRead(p) \/ Audit(p) \/ CompleteWrite(p)
          BY <1>0, <3>3, <5>4 DEF CompleteRead, Audit, CompleteWrite
        <5>5. CASE \E g \in Flows, k \in Codes : Redeem(p, g, k)
          BY <1>0, <3>3, <5>5 DEF Redeem
        <5>6. CASE AuthRequestByCode(p) \/ GetNote(p) \/ EndNoted(p) \/ DeleteNote(p)
          BY <1>0, <3>3, <5>6 DEF AuthRequestByCode, GetNote, EndNoted, DeleteNote
        <5>7. CASE Record(p) \/ SetNote(p) \/ Involve(p) \/ DeleteAuthRequest(p)
          BY <1>0, <3>3, <5>7 DEF Record, SetNote, Involve, DeleteAuthRequest
        <5>8. CASE RevokeSessions(p) \/ \E t \in Entrants, how \in {"signout", "browser"} : SignOut(p, t, how)
          BY <1>0, <3>3, <5>8 DEF RevokeSessions, SignOut
        <5>9. CASE GetSso(p) \/ List(p) \/ Involved(p)
          BY <1>0, <3>3, <5>9 DEF GetSso, List, Involved
        <5>10. CASE Walk(p) \/ RevokeNext(p) \/ RevokeFails(p)
          BY <1>0, <3>3, <5>10 DEF Walk, RevokeNext, RevokeFails
        <5>11. CASE EndGet(p) \/ End(p) \/ EndFails(p)
          BY <1>0, <3>3, <5>11 DEF EndGet, End, EndFails
        <5>12. CASE EndFor(p) \/ EndForNext(p)
          BY <1>0, <3>3, <5>12 DEF EndFor, EndForNext
        <5>13. CASE Fail(p)
          BY <1>0, <3>3, <5>13 DEF Fail
        <5> HIDE DEF TypeOK, Go, At, Idle
        <5> QED
          BY Handlers, <5>1, <5>2, <5>3, <5>4, <5>5, <5>6, <5>7, <5>8, <5>9, <5>10, <5>11, <5>12, <5>13

      <4> QED
        BY <1>3, <2>2, <4>1
    <3> QED
      BY <3>1, <3>2, <3>3, <3>4
  <2> QED
    BY <2>1, <2>2
<1>4. ASSUME NEW f \in Flows, (request[f].state = "done" /\ request[f].sso \in Recoverers)'
      PROVE  \E q \in audited' : on'[q] = f
  <2>1. CASE request'[f] = request[f]
    <3>1. PICK q \in audited : on[q] = f
      BY <1>4, <2>1 DEF Audited
    <3> QED
      BY <1>0, <1>1, <3>1 DEF Audited, TypeOK
  <2>2. CASE p \in Entrants /\ CompleteWrite(p) /\ f = on[p] /\ request'[f].sso = under[p]
    <3>1. pc[p] = "mark" /\ under[p] \in Recoverers /\ on'[p] = on[p]
      BY <1>0, <1>4, <2>2 DEF CompleteWrite, At
    <3>2. Recovery(p)
      BY <1>0, <2>2, <3>1, SignInAssumption DEF Recovery, EntrantRole
    <3>3. p \in audited
      BY <2>2, <3>1, <3>2 DEF Audited
    <3> QED
      BY <1>1, <2>2, <3>1, <3>3
  <2> QED
    BY <1>4, <2>1, <2>2, ActDone
<1> QED
  BY <1>2, <1>3, <1>4 DEF Audited

\* A request that ended its sign-in leaves it ended, and so does everyone else.
LEMMA ActEndedGone ==
  ASSUME Sound, Sound', EndedGone, NEW p \in Procs, Act(p), Others(p), Onward(p) PROVE EndedGone'
<1>0. TypeOK /\ TypeOK' /\ \A s : Begun(s) => Begun(s)'
  BY RolesFrame DEF Sound
<1>g. ASSUME NEW s, Begun(s), sso[s] = "gone" PROVE sso'[s] = "gone"
  BY <1>g, ActGone DEF Begun
<1>1. ASSUME NEW q \in Entrants \cup Leavers, (pc[q] = "out" /\ q \notin hurt /\ kind[q] # "everywhere")'
      PROVE  (Begun(under[q]) /\ sso[under[q]] = "gone")'
  <2>1. CASE q # p
    BY <1>0, <1>g, <1>1, <2>1 DEF EndedGone, Others, Procs, Begun
  <2>2. CASE q = p
    <3>1. CASE p \in Entrants \cup Leavers /\ End(p)
      BY <1>0, <1>1, <2>2, <3>1 DEF End, At, Go, Sound, Roles, EntrantRole, LeaverRole, EndPlaces, Begun, TypeOK, local
    <3>2. CASE ~End(p)
      <4>1. ~(pc'[p] = "out" /\ p \notin hurt' /\ kind'[p] # "everywhere")
        <5>0. pc[p] \in {"endnext", "enddelete", "endremove"} => kind[p] = "everywhere"
          BY <2>2 DEF Sound, Roles, LeaverRole, EntrantRole, EntrantPlaces, EndPlaces
        <5> USE DEF TypeOK, Go, At, Idle, Hurt
        <5>1. CASE \E g \in Flows : Callback(p, g)
          BY <1>0, <3>2, <5>0, <5>1 DEF Callback
        <5>2. CASE \E g \in Flows, t \in Entrants : Silent(p, g, t)
          BY <1>0, <3>2, <5>0, <5>2 DEF Silent
        <5>3. CASE Begin(p) \/ BeginAdd(p) \/ BeginFails(p)
          BY <1>0, <3>2, <5>0, <5>3 DEF Begin, BeginAdd, BeginFails
        <5>4. CASE CompleteRead(p) \/ Audit(p) \/ CompleteWrite(p)
          BY <1>0, <3>2, <5>0, <5>4 DEF CompleteRead, Audit, CompleteWrite
        <5>5. CASE \E g \in Flows, k \in Codes : Redeem(p, g, k)
          BY <1>0, <3>2, <5>0, <5>5 DEF Redeem
        <5>6. CASE AuthRequestByCode(p) \/ GetNote(p) \/ EndNoted(p) \/ DeleteNote(p)
          BY <1>0, <3>2, <5>0, <5>6 DEF AuthRequestByCode, GetNote, EndNoted, DeleteNote
        <5>7. CASE Record(p) \/ SetNote(p) \/ Involve(p) \/ DeleteAuthRequest(p)
          BY <1>0, <3>2, <5>0, <5>7 DEF Record, SetNote, Involve, DeleteAuthRequest
        <5>8. CASE RevokeSessions(p) \/ \E t \in Entrants, how \in {"signout", "browser"} : SignOut(p, t, how)
          BY <1>0, <3>2, <5>0, <5>8 DEF RevokeSessions, SignOut
        <5>9. CASE GetSso(p) \/ List(p) \/ Involved(p)
          BY <1>0, <3>2, <5>0, <5>9 DEF GetSso, List, Involved
        <5>10. CASE Walk(p) \/ RevokeNext(p) \/ RevokeFails(p)
          BY <1>0, <3>2, <5>0, <5>10 DEF Walk, RevokeNext, RevokeFails
        <5>11. CASE EndGet(p) \/ End(p) \/ EndFails(p)
          BY <1>0, <3>2, <5>0, <5>11 DEF EndGet, End, EndFails
        <5>12. CASE EndFor(p) \/ EndForNext(p)
          BY <1>0, <3>2, <5>0, <5>12 DEF EndFor, EndForNext
        <5>13. CASE Fail(p)
          BY <1>0, <3>2, <5>0, <5>13 DEF Fail
        <5> HIDE DEF TypeOK, Go, At, Idle, Hurt
        <5> QED
          BY <1>1, <2>2, Handlers, <5>1, <5>2, <5>3, <5>4, <5>5, <5>6, <5>7, <5>8, <5>9, <5>10, <5>11, <5>12, <5>13

      <4> QED
        BY <1>1, <2>2, <4>1
    <3> QED
      BY <1>1, <2>2, <3>1, <3>2
  <2> QED
    BY <2>1, <2>2
<1>2. ASSUME NEW q \in Leavers, pc'[q] = "endremove" PROVE sso'[under'[q]] = "gone"
  <2>1. CASE q # p
    BY <1>0, <1>g, <1>2, <2>1 DEF EndedGone, Others, Procs, Sound, Roles, LeaverRole
  <2>2. CASE q = p
    <3>1. CASE EndForNext(p)
      BY <1>0, <1>2, <2>2, <3>1 DEF EndForNext, At, Go, Sound, Roles, LeaverRole, Begun, TypeOK
    <3>2. CASE ~EndForNext(p)
      <4>1. pc'[p] # "endremove"
        <5> USE DEF TypeOK, Go, At, Idle
        <5>1. CASE \E g \in Flows : Callback(p, g)
          BY <1>0, <3>2, <5>1 DEF Callback
        <5>2. CASE \E g \in Flows, t \in Entrants : Silent(p, g, t)
          BY <1>0, <3>2, <5>2 DEF Silent
        <5>3. CASE Begin(p) \/ BeginAdd(p) \/ BeginFails(p)
          BY <1>0, <3>2, <5>3 DEF Begin, BeginAdd, BeginFails
        <5>4. CASE CompleteRead(p) \/ Audit(p) \/ CompleteWrite(p)
          BY <1>0, <3>2, <5>4 DEF CompleteRead, Audit, CompleteWrite
        <5>5. CASE \E g \in Flows, k \in Codes : Redeem(p, g, k)
          BY <1>0, <3>2, <5>5 DEF Redeem
        <5>6. CASE AuthRequestByCode(p) \/ GetNote(p) \/ EndNoted(p) \/ DeleteNote(p)
          BY <1>0, <3>2, <5>6 DEF AuthRequestByCode, GetNote, EndNoted, DeleteNote
        <5>7. CASE Record(p) \/ SetNote(p) \/ Involve(p) \/ DeleteAuthRequest(p)
          BY <1>0, <3>2, <5>7 DEF Record, SetNote, Involve, DeleteAuthRequest
        <5>8. CASE RevokeSessions(p) \/ \E t \in Entrants, how \in {"signout", "browser"} : SignOut(p, t, how)
          BY <1>0, <3>2, <5>8 DEF RevokeSessions, SignOut
        <5>9. CASE GetSso(p) \/ List(p) \/ Involved(p)
          BY <1>0, <3>2, <5>9 DEF GetSso, List, Involved
        <5>10. CASE Walk(p) \/ RevokeNext(p) \/ RevokeFails(p)
          BY <1>0, <3>2, <5>10 DEF Walk, RevokeNext, RevokeFails
        <5>11. CASE EndGet(p) \/ End(p) \/ EndFails(p)
          BY <1>0, <3>2, <5>11 DEF EndGet, End, EndFails
        <5>12. CASE EndFor(p) \/ EndForNext(p)
          BY <1>0, <3>2, <5>12 DEF EndFor, EndForNext
        <5>13. CASE Fail(p)
          BY <1>0, <3>2, <5>13 DEF Fail
        <5> HIDE DEF TypeOK, Go, At, Idle
        <5> QED
          BY Handlers, <5>1, <5>2, <5>3, <5>4, <5>5, <5>6, <5>7, <5>8, <5>9, <5>10, <5>11, <5>12, <5>13

      <4> QED
        BY <1>2, <2>2, <4>1
    <3> QED
      BY <3>1, <3>2
  <2> QED
    BY <2>1, <2>2
<1> QED
  BY <1>1, <1>2 DEF EndedGone

\* What happens by itself neither completes a request nor brings a sign-in back.
LEMMA EnvironmentRecovery ==
  ASSUME RecoveryInv, Environment PROVE Audited' /\ EndedGone'
<1>1. UNCHANGED <<sso, open, cookies, audited, pc, kind, on, under, hurt>>
  BY EnvironmentFrame DEF local
<1>2. ASSUME NEW f \in Flows, (request[f].state = "done")' PROVE request'[f] = request[f]
  BY <1>2 DEF RecoveryInv, Sound, TypeOK, Environment, CreateAuthRequest, SaveAuthCode, ExpireRequest, ExpireCode,
         Repair, Without
<1> QED
  BY <1>1, <1>2 DEF RecoveryInv, Audited, EndedGone, Recovery, Begun

\* Nothing has been recovered or ended in the beginning.
LEMMA InitRecovery == Init => RecoveryInv
<1> SUFFICES ASSUME Init PROVE Audited /\ EndedGone
  BY InitSound DEF RecoveryInv
<1> QED
  BY DEF Init, Audited, EndedGone, Procs

\* Every step keeps what was audited audited and what was ended ended.
LEMMA NextRecovery == RecoveryInv /\ [Next]_vars => RecoveryInv'
<1> SUFFICES ASSUME RecoveryInv, [Next]_vars PROVE RecoveryInv'
  OBVIOUS
<1>0. Sound /\ Sound' /\ Audited /\ EndedGone
  BY NextSound DEF RecoveryInv
<1>1. ASSUME NEW p \in Procs, Act(p) PROVE Audited' /\ EndedGone'
  BY <1>0, <1>1, ActSound, ActAudited, ActEndedGone
<1>2. ASSUME Environment PROVE Audited' /\ EndedGone'
  BY <1>2, EnvironmentRecovery
<1>3. ASSUME UNCHANGED vars PROVE Audited' /\ EndedGone'
  BY <1>0, <1>3 DEF Audited, EndedGone, Recovery, Begun, vars, store, local
<1> QED
  BY <1>0, <1>1, <1>2, <1>3, Steps DEF RecoveryInv

\* No recovery completes a request before it is on the durable trail, whoever else
\* is signing in, and one refused for want of its record has left no sign-in behind
\* (Complete, recover).
THEOREM RecoveryRecordedHolds == Spec => []RecoveryRecorded
<1>1. RecoveryInv => RecoveryRecorded
  BY SignInAssumption DEF RecoveryInv, Audited, EndedGone, RecoveryRecorded
<1> QED
  BY InitRecovery, NextRecovery, <1>1, PTL DEF Spec

-----------------------------------------------------------------------------
(* A code used again. *)

\* What a redemption may do.
LEMMA Redeeming ==
  ASSUME Sound, NEW p \in Redeemers, Act(p)
  PROVE  \/ \E g \in Flows, k \in Codes : Redeem(p, g, k)
         \/ AuthRequestByCode(p) \/ GetNote(p) \/ EndNoted(p) \/ DeleteNote(p)
         \/ Record(p) \/ SetNote(p) \/ Involve(p) \/ DeleteAuthRequest(p)
         \/ Fail(p)
BY SignInAssumption DEF Act, RedeemStep

\* Nobody but a redemption touches codes, notes or what was opened, and nobody
\* takes back that a request was made, or for what.
LEMMA ActElsewhere ==
  ASSUME Sound, NEW p \in Procs, Act(p), p \notin Redeemers
  PROVE  /\ UNCHANGED <<code, note, opened, lost>> /\ open' \subseteq open
         /\ \A f \in Flows : /\ request'[f].offline = request[f].offline
                             /\ request'[f].state = request[f].state \/ request'[f].state = "done"
<1>0. TypeOK /\ (\A q \in Entrants : EntrantRole(q))
  BY DEF Sound, Roles
<1>1. UNCHANGED <<code, note, opened, lost>> /\ open' \subseteq open
  BY Handlers, SignInAssumption DEF Procs, local, past, store, Callback, Silent, Begin, BeginAdd, BeginFails, CompleteRead, Audit, CompleteWrite, Redeem, AuthRequestByCode, GetNote, EndNoted, DeleteNote, Record, SetNote, Involve, DeleteAuthRequest, RevokeSessions, SignOut, GetSso, List, Involved, Walk, RevokeNext, RevokeFails, EndGet, End, EndFails, EndFor, EndForNext, Fail
<1>2. request' = request \/ (p \in Entrants /\ CompleteWrite(p))
  BY Handlers DEF local, past, store, Callback, Silent, Begin, BeginAdd, BeginFails, CompleteRead, Audit, Redeem, AuthRequestByCode, GetNote, EndNoted, DeleteNote, Record, SetNote, Involve, DeleteAuthRequest, RevokeSessions, SignOut, GetSso, List, Involved, Walk, RevokeNext, RevokeFails, EndGet, End, EndFails, EndFor, EndForNext, Fail
<1>3. CASE p \in Entrants /\ CompleteWrite(p)
  <2>1. on[p] \in Flows
    BY <1>0, <1>3 DEF CompleteWrite, EntrantRole, At
  <2> QED
    BY <1>0, <1>1, <1>3, <2>1 DEF CompleteWrite, TypeOK
<1> QED
  BY <1>1, <1>2, <1>3

\* Redemptions stay as they are while others move.
LEMMA ReuseElsewhere ==
  ASSUME Sound, Sound', ReuseInv, NEW p \in Procs, Act(p), p \notin Redeemers, Others(p) PROVE ReuseInv'
<1>1. \A r \in Redeemers :
        pc'[r] = pc[r] /\ on'[r] = on[r] /\ todo'[r] = todo[r] /\ (r \in hurt' <=> r \in hurt)
  BY DEF Others, Procs
<1>2. \A r \in Redeemers : pc[r] # "idle" => on[r] \in Flows
  BY DEF Sound, Roles, RedeemerRole
<1>3. /\ UNCHANGED <<code, note, opened, lost>> /\ open' \subseteq open
      /\ \A f \in Flows : /\ request'[f].offline = request[f].offline
                          /\ request'[f].state = request[f].state \/ request'[f].state = "done"
  BY ActElsewhere
<1>4. Settled'
  BY <1>1, <1>2, <1>3 DEF ReuseInv, Settled
<1>5. \A f \in Flows : Touched(f)' => Touched(f)
  BY <1>1, <1>3 DEF Touched
<1>6. Noted'
  BY <1>3, <1>5 DEF ReuseInv, Noted
<1>7. Refusing'
  BY <1>1, <1>3 DEF ReuseInv, Refusing
<1>8. NotesOpened'
  BY <1>3 DEF ReuseInv, NotesOpened
<1> QED
  BY <1>4, <1>6, <1>7, <1>8 DEF ReuseInv

\* A redemption opens a session only for a request that allows one.
LEMMA RedeemSettled ==
  ASSUME Sound, Sound', ReuseInv, NEW p \in Redeemers, Act(p), Others(p), Onward(p) PROVE Settled'
<1>0. /\ TypeOK /\ Settled
      /\ \A r \in Redeemers : RedeemerRole(r)
      /\ \A r \in Redeemers \ {p} : pc'[r] = pc[r] /\ on'[r] = on[r]
  BY DEF Sound, Roles, ReuseInv, Others, Procs
<1>00. p \in Procs
  BY DEF Procs
<1> USE DEF TypeOK, Settled, RedeemerRole, At, Go, Idle, Known, store, local, past
<1>1. CASE \E g \in Flows, k \in Codes : Redeem(p, g, k)
  BY <1>0, <1>00, <1>1 DEF Redeem
<1>2. CASE AuthRequestByCode(p)
  <2>1. /\ pc[p] = "request" /\ on' = on /\ request' = request /\ code' = code /\ open' = open /\ opened' = opened
        /\ pc'[p] \in {"record", "involve", "note"} /\ (pc'[p] = "record" => request[on[p]].offline)
    BY <1>0, <1>00, <1>2 DEF AuthRequestByCode
  <2> HIDE DEF TypeOK, RedeemerRole, At, Go, Idle, Known, store, local, past
  <2>2. \A r \in Redeemers : /\ pc'[r] = pc[r] \/ (r = p /\ pc[r] = "request" /\ pc'[r] \in {"record", "involve", "note"})
                            /\ on'[r] = on[r] /\ (r = p /\ pc'[r] = "record" => request[on[r]].offline)
    BY <1>0, <2>1
  <2> QED
    BY <1>0, <2>1, <2>2
<1>3. CASE GetNote(p)
  BY <1>0, <1>00, <1>3 DEF GetNote
<1>4. CASE EndNoted(p)
  BY <1>0, <1>00, <1>4 DEF EndNoted
<1>5. CASE DeleteNote(p)
  BY <1>0, <1>00, <1>5 DEF DeleteNote
<1>6. CASE Record(p)
  BY <1>0, <1>00, <1>6 DEF Record
<1>7. CASE SetNote(p)
  BY <1>0, <1>00, <1>7 DEF SetNote
<1>8. CASE Involve(p)
  BY <1>0, <1>00, <1>8 DEF Involve
<1>9. CASE DeleteAuthRequest(p)
  BY <1>0, <1>00, <1>9 DEF DeleteAuthRequest, Without
<1>10. CASE Fail(p)
  BY <1>0, <1>00, <1>10 DEF Fail
<1> HIDE DEF TypeOK, Settled, RedeemerRole, At, Go, Idle, Known, store, local, past
<1> QED
  BY Redeeming, <1>1, <1>2, <1>3, <1>4, <1>5, <1>6, <1>7, <1>8, <1>9, <1>10

\* The note is written before the request counts as redeemed, and taken back only
\* once the session has ended.
LEMMA RedeemNoted ==
  ASSUME Sound, Sound', ReuseInv, Settled', NEW p \in Redeemers, Act(p), Others(p), Onward(p) PROVE Noted'
<1>0. /\ TypeOK /\ Settled /\ Noted /\ Refusing
      /\ \A r \in Redeemers : RedeemerRole(r)
      /\ \A r \in Redeemers \ {p} : pc'[r] = pc[r] /\ on'[r] = on[r] /\ (r \in hurt' <=> r \in hurt)
      /\ hurt \subseteq hurt'
  BY ActUnder DEF Sound, Roles, ReuseInv, Others, Procs
<1>00. p \in Procs /\ (pc[p] # "idle" => on[p] \in Flows /\ on'[p] = on[p] /\ request[on[p]].state # "none")
  BY <1>0, ActFixed DEF Procs, RedeemerRole, Settled
<1>1. SUFFICES ASSUME NEW f \in Flows, f \notin lost', Touched(f)', request'[f].offline
               PROVE  /\ opened'[f] # {}
                      /\ \A q \in Redeemers : opened'[f] = {q} => note'[f].session = q \/ q \notin open'
  BY DEF Noted
<1>2. /\ f \notin lost /\ request[f].offline
  <2>1. lost \subseteq lost' /\ (request' = request \/ DeleteAuthRequest(p))
    BY Redeeming DEF local, past, store, Redeem, AuthRequestByCode, GetNote, EndNoted, DeleteNote,
           Record, SetNote, Involve, DeleteAuthRequest, Fail
  <2>2. ASSUME DeleteAuthRequest(p) PROVE request'[f].offline = request[f].offline
    BY <1>0, <1>00, <2>2 DEF DeleteAuthRequest, Without, TypeOK, At
  <2> QED
    BY <1>1, <2>1, <2>2
<1>r. \A r \in Redeemers : r # p /\ on'[r] = f /\
            (pc'[r] \in {"involve", "delete"} \/ (r \notin hurt' /\ pc'[r] \in {"note", "revoked", "unnote", "denied", "reused"}))
          => Touched(f)
  BY <1>0 DEF Touched
<1>3. Touched(f) \/ (SetNote(p) /\ on[p] = f)
  <2> USE DEF Touched, Hurt, Go, At, Known, TypeOK, local, past, store
  <2>1. CASE \E g \in Flows, k \in Codes : Redeem(p, g, k)
    BY <1>0, <1>00, <1>1, <1>2, <2>1 DEF Redeem
  <2>2. CASE AuthRequestByCode(p)
    <3>1. /\ request' = request /\ on'[p] = on[p] /\ on[p] \in Flows
          /\ pc'[p] \in {"record", "involve", "note"}
          /\ pc'[p] = "involve" => ~request[on[p]].offline
          /\ pc'[p] = "note" => p \in hurt' \/ ~Known(on[p])
      BY <1>0, <1>00, <2>2 DEF AuthRequestByCode
    <3>2. pc'[p] = "note" /\ p \notin hurt' => request[on[p]].state = "gone"
      BY <1>0, <1>00, <2>2, <3>1 DEF AuthRequestByCode
    <3> HIDE DEF TypeOK, Go, At, Known, Hurt, local, past, store
    <3> QED
      BY <1>1, <1>2, <1>r, <3>1, <3>2
  <2>3. CASE GetNote(p)
    BY <1>0, <1>00, <1>1, <1>2, <2>3 DEF GetNote
  <2>4. CASE EndNoted(p)
    BY <1>0, <1>00, <1>1, <1>2, <2>4 DEF EndNoted
  <2>5. CASE DeleteNote(p)
    BY <1>0, <1>00, <1>1, <1>2, <2>5 DEF DeleteNote
  <2>6. CASE Record(p)
    BY <1>0, <1>00, <1>1, <1>2, <2>6 DEF Record
  <2>7. CASE SetNote(p)
    BY <1>0, <1>00, <1>1, <1>2, <2>7 DEF SetNote
  <2>8. CASE Involve(p)
    BY <1>0, <1>00, <1>1, <1>2, <2>8 DEF Involve
  <2>9. CASE DeleteAuthRequest(p)
    <3>1. pc[p] = "delete" /\ (pc'[p] = "issued" \/ pc'[p] = "delete") /\ on'[p] = on[p] /\ on[p] \in Flows
      BY <1>0, <1>00, <2>9 DEF DeleteAuthRequest
    <3>2. f # on[p] => request'[f] = request[f]
      BY <1>0, <1>00, <2>9 DEF DeleteAuthRequest, Without
    <3> HIDE DEF TypeOK, Go, At, Known, Hurt, local, past, store
    <3> QED
      BY <1>1, <1>r, <3>1, <3>2
  <2>10. CASE Fail(p)
    BY <1>0, <1>00, <1>1, <1>2, <2>10 DEF Fail
  <2> HIDE DEF Touched, Hurt, Go, At, Known, TypeOK, local, past, store
  <2> QED
    BY Redeeming, <2>1, <2>2, <2>3, <2>4, <2>5, <2>6, <2>7, <2>8, <2>9, <2>10

<1>4. CASE SetNote(p) /\ on[p] = f
  <2>1. p \in opened[f] /\ opened' = opened
    BY <1>0, <1>4 DEF SetNote, At, Settled
  <2>2. note'[f].session = p
    BY <1>0, <1>1, <1>4 DEF SetNote, TypeOK
  <2> QED
    BY <2>1, <2>2
<1>5. CASE Touched(f) /\ ~(SetNote(p) /\ on[p] = f)
  <2>1. opened[f] # {} /\ \A q \in Redeemers : opened[f] = {q} => note[f].session = q \/ q \notin open
    BY <1>0, <1>2, <1>5 DEF Noted
  <2>2. CASE Record(p)
    <3>1. p \notin opened[f] /\ note' = note /\ open' = open \cup {p}
      BY <1>0, <2>2 DEF Record, At, Settled
    <3>2. opened'[f] = opened[f] \/ opened'[f] = opened[f] \cup {p}
      BY <1>0, <1>00, <2>2 DEF Record, At, TypeOK
    <3> QED
      BY <2>1, <3>1, <3>2
  <2>3. CASE DeleteNote(p)
    <3>1. todo[p] \subseteq opened[on[p]] /\ todo[p] # {} /\ todo[p] \cap open = {} /\ opened' = opened /\ open' = open
      BY <1>0, <2>3 DEF DeleteNote, At, Refusing, past
    <3>2. CASE f = on[p]
      BY <2>1, <3>1, <3>2
    <3>3. CASE f # on[p]
      BY <1>0, <2>1, <2>3, <3>1, <3>3 DEF DeleteNote, Unnoted, TypeOK
    <3> QED
      BY <3>2, <3>3
  <2>4. CASE SetNote(p)
    BY <1>0, <1>5, <2>1, <2>4 DEF SetNote, TypeOK
  <2>5. CASE ~Record(p) /\ ~DeleteNote(p) /\ ~SetNote(p)
    <3>1. opened' = opened /\ note' = note /\ open' \subseteq open
      BY <2>5, Redeeming DEF local, past, store, Redeem, AuthRequestByCode, GetNote, EndNoted,
             Involve, DeleteAuthRequest, Fail
    <3> QED
      BY <2>1, <3>1
  <2> QED
    BY <2>2, <2>3, <2>4, <2>5
<1> QED
  BY <1>3, <1>4, <1>5

\* A redemption that was refused has ended what it found, and nothing is opened
\* for the request after it.
LEMMA RedeemRefusing ==
  ASSUME Sound, Sound', ReuseInv, NEW p \in Redeemers, Act(p), Others(p), Onward(p) PROVE Refusing' /\ NotesOpened'
<1>0. /\ TypeOK /\ Settled /\ Noted /\ Refusing /\ NotesOpened
      /\ \A r \in Redeemers : RedeemerRole(r)
      /\ \A r \in Redeemers \ {p} :
           pc'[r] = pc[r] /\ on'[r] = on[r] /\ todo'[r] = todo[r] /\ (r \in hurt' <=> r \in hurt)
      /\ hurt \subseteq hurt'
  BY ActUnder DEF Sound, Roles, ReuseInv, Others, Procs
<1>00. p \in Procs /\ (pc[p] # "idle" => on[p] \in Flows /\ on'[p] = on[p])
  BY <1>0, ActFixed DEF Procs, RedeemerRole
<1>n. None \notin Redeemers
  BY SignInAssumption
<1>1. \A r \in Redeemers :
        pc[r] \in {"note", "denied", "reused"} /\ r \notin hurt /\ on[r] \notin lost /\ request[on[r]].offline =>
        /\ opened[on[r]] # {}
        /\ \A q \in Redeemers : opened[on[r]] = {q} => note[on[r]].session = q \/ q \notin open
  BY <1>0 DEF Noted, Touched, RedeemerRole
<1>2. NotesOpened'
  <2> USE DEF NotesOpened, Settled, At, Go, TypeOK, local, past, store
  <2>1. CASE \E g \in Flows, k \in Codes : Redeem(p, g, k)
    BY <1>0, <1>00, <1>n, <2>1 DEF Redeem
  <2>2. CASE AuthRequestByCode(p)
    BY <1>0, <1>00, <1>n, <2>2 DEF AuthRequestByCode
  <2>3. CASE GetNote(p)
    BY <1>0, <1>00, <1>n, <2>3 DEF GetNote
  <2>4. CASE EndNoted(p)
    BY <1>0, <1>00, <1>n, <2>4 DEF EndNoted
  <2>5. CASE DeleteNote(p)
    BY <1>0, <1>00, <1>n, <2>5 DEF DeleteNote, Unnoted
  <2>6. CASE Record(p)
    BY <1>0, <1>00, <1>n, <2>6 DEF Record
  <2>7. CASE SetNote(p)
    <3>1. p \in opened[on[p]] /\ on[p] \in Flows /\ opened' = opened
      BY <1>0, <1>00, <2>7 DEF SetNote
    <3>2. \A f \in Flows : note'[f] = note[f] \/ (f = on[p] /\ note'[f].session = p)
      BY <1>0, <2>7, <3>1 DEF SetNote
    <3> QED
      BY <1>0, <3>1, <3>2
  <2>8. CASE Involve(p)
    BY <1>0, <1>00, <1>n, <2>8 DEF Involve
  <2>9. CASE DeleteAuthRequest(p)
    BY <1>0, <1>00, <1>n, <2>9 DEF DeleteAuthRequest
  <2>10. CASE Fail(p)
    BY <1>0, <1>00, <1>n, <2>10 DEF Fail
  <2> HIDE DEF NotesOpened, Settled, At, Go, TypeOK, local, past, store
  <2> QED
    BY Redeeming, <2>1, <2>2, <2>3, <2>4, <2>5, <2>6, <2>7, <2>8, <2>9, <2>10

<1>3. \A f \in Flows : /\ opened[f] \subseteq opened'[f]
                       /\ \A q \in opened[f] : q \in open' => q \in open
                       /\ request'[f].offline = request[f].offline
                       /\ f \in lost => f \in lost'
  <2> USE DEF Settled, At, Go, TypeOK, local, past, store
  <2>1. CASE \E g \in Flows, k \in Codes : Redeem(p, g, k)
    BY <1>0, <1>00, <2>1 DEF Redeem
  <2>2. CASE AuthRequestByCode(p)
    BY <1>0, <1>00, <2>2 DEF AuthRequestByCode
  <2>3. CASE GetNote(p)
    BY <1>0, <1>00, <2>3 DEF GetNote
  <2>4. CASE EndNoted(p)
    BY <1>0, <1>00, <2>4 DEF EndNoted
  <2>5. CASE DeleteNote(p)
    BY <1>0, <1>00, <2>5 DEF DeleteNote
  <2>6. CASE Record(p)
    BY <1>0, <1>00, <2>6 DEF Record
  <2>7. CASE SetNote(p)
    BY <1>0, <1>00, <2>7 DEF SetNote
  <2>8. CASE Involve(p)
    BY <1>0, <1>00, <2>8 DEF Involve
  <2>9. CASE DeleteAuthRequest(p)
    BY <1>0, <1>00, <2>9 DEF DeleteAuthRequest, Without
  <2>10. CASE Fail(p)
    BY <1>0, <1>00, <2>10 DEF Fail
  <2> HIDE DEF Settled, At, Go, TypeOK, local, past, store
  <2> QED
    BY Redeeming, <2>1, <2>2, <2>3, <2>4, <2>5, <2>6, <2>7, <2>8, <2>9, <2>10

<1>4. ASSUME NEW r \in Redeemers, r # p
      PROVE  /\ pc'[r] = "revoked" => todo'[r] \subseteq opened'[on'[r]] /\ todo'[r] # {}
             /\ pc'[r] = "unnote" => todo'[r] \subseteq opened'[on'[r]] /\ todo'[r] # {} /\ todo'[r] \cap open' = {}
             /\ pc'[r] \in {"denied", "reused"} /\ r \notin hurt' /\ on'[r] \notin lost' =>
                  \A q \in Redeemers : opened'[on'[r]] = {q} => q \notin open'
  <2>1. /\ pc'[r] = pc[r] /\ on'[r] = on[r] /\ todo'[r] = todo[r] /\ (r \in hurt' <=> r \in hurt)
        /\ pc[r] # "idle" => on[r] \in Flows
    BY <1>0, <1>4 DEF RedeemerRole
  <2>2. pc[r] \in {"revoked", "unnote"} => todo[r] \subseteq opened[on[r]] /\ todo[r] # {}
    BY <1>0 DEF Refusing
  <2>3. pc[r] = "unnote" => todo[r] \cap open = {}
    BY <1>0 DEF Refusing
  <2>4. ASSUME pc[r] \in {"denied", "reused"}, r \notin hurt, on[r] \notin lost', NEW q \in Redeemers, opened'[on[r]] = {q}
        PROVE  q \notin open'
    <3>1. on[r] \in Flows /\ on[r] \notin lost /\ request[on[r]].offline
      BY <1>0, <1>3, <2>1, <2>4, RedeemSettled DEF Settled
    <3>2. opened[on[r]] = {q}
      BY <1>1, <1>3, <2>4, <3>1
    <3> QED
      BY <1>0, <1>3, <2>4, <3>1, <3>2 DEF Refusing
  <2> QED
    BY <1>3, <2>1, <2>2, <2>3, <2>4
<1>5. pc'[p] = "revoked" => todo'[p] \subseteq opened'[on'[p]] /\ todo'[p] # {}
  <2>1. CASE GetNote(p)
    <3>1. pc[p] = "note" /\ opened' = opened /\ on[p] \in Flows /\ on'[p] = on[p]
      BY <1>00, <2>1 DEF GetNote, At, past
    <3>2. todo'[p] = {note[on[p]].session} \ {None} /\ (pc'[p] = "revoked" => todo'[p] # {})
      BY <1>0, <1>00, <2>1 DEF GetNote, Go, TypeOK
    <3> QED
      BY <1>0, <3>1, <3>2 DEF NotesOpened
  <2>2. CASE ~GetNote(p)
    <3>1. pc'[p] # "revoked"
      <4> USE DEF At, Go, TypeOK
      <4>1. CASE \E g \in Flows, k \in Codes : Redeem(p, g, k)
        BY <1>0, <1>00, <2>2, <4>1 DEF Redeem
      <4>2. CASE AuthRequestByCode(p)
        BY <1>0, <1>00, <2>2, <4>2 DEF AuthRequestByCode
      <4>3. CASE GetNote(p)
        BY <1>0, <1>00, <2>2, <4>3 DEF GetNote
      <4>4. CASE EndNoted(p)
        BY <1>0, <1>00, <2>2, <4>4 DEF EndNoted
      <4>5. CASE DeleteNote(p)
        BY <1>0, <1>00, <2>2, <4>5 DEF DeleteNote
      <4>6. CASE Record(p)
        BY <1>0, <1>00, <2>2, <4>6 DEF Record
      <4>7. CASE SetNote(p)
        BY <1>0, <1>00, <2>2, <4>7 DEF SetNote
      <4>8. CASE Involve(p)
        BY <1>0, <1>00, <2>2, <4>8 DEF Involve
      <4>9. CASE DeleteAuthRequest(p)
        BY <1>0, <1>00, <2>2, <4>9 DEF DeleteAuthRequest
      <4>10. CASE Fail(p)
        BY <1>0, <1>00, <2>2, <4>10 DEF Fail
      <4> HIDE DEF At, Go, TypeOK
      <4> QED
        BY Redeeming, <4>1, <4>2, <4>3, <4>4, <4>5, <4>6, <4>7, <4>8, <4>9, <4>10

    <3> QED
      BY <3>1
  <2> QED
    BY <2>1, <2>2
<1>6. pc'[p] = "unnote" => todo'[p] \subseteq opened'[on'[p]] /\ todo'[p] # {} /\ todo'[p] \cap open' = {}
  <2>1. CASE EndNoted(p)
    BY <1>0, <1>00, <2>1 DEF EndNoted, At, Refusing, local, past
  <2>2. CASE ~EndNoted(p)
    <3>1. pc'[p] # "unnote"
      <4> USE DEF At, Go, TypeOK
      <4>1. CASE \E g \in Flows, k \in Codes : Redeem(p, g, k)
        BY <1>0, <1>00, <2>2, <4>1 DEF Redeem
      <4>2. CASE AuthRequestByCode(p)
        BY <1>0, <1>00, <2>2, <4>2 DEF AuthRequestByCode
      <4>3. CASE GetNote(p)
        BY <1>0, <1>00, <2>2, <4>3 DEF GetNote
      <4>4. CASE EndNoted(p)
        BY <1>0, <1>00, <2>2, <4>4 DEF EndNoted
      <4>5. CASE DeleteNote(p)
        BY <1>0, <1>00, <2>2, <4>5 DEF DeleteNote
      <4>6. CASE Record(p)
        BY <1>0, <1>00, <2>2, <4>6 DEF Record
      <4>7. CASE SetNote(p)
        BY <1>0, <1>00, <2>2, <4>7 DEF SetNote
      <4>8. CASE Involve(p)
        BY <1>0, <1>00, <2>2, <4>8 DEF Involve
      <4>9. CASE DeleteAuthRequest(p)
        BY <1>0, <1>00, <2>2, <4>9 DEF DeleteAuthRequest
      <4>10. CASE Fail(p)
        BY <1>0, <1>00, <2>2, <4>10 DEF Fail
      <4> HIDE DEF At, Go, TypeOK
      <4> QED
        BY Redeeming, <4>1, <4>2, <4>3, <4>4, <4>5, <4>6, <4>7, <4>8, <4>9, <4>10

    <3> QED
      BY <3>1
  <2> QED
    BY <2>1, <2>2
<1>7. ASSUME pc'[p] \in {"denied", "reused"}, p \notin hurt', on'[p] \notin lost',
             NEW q \in Redeemers, opened'[on'[p]] = {q}
      PROVE  q \notin open'
  <2>1. CASE GetNote(p)
    <3>1. pc[p] = "note" /\ opened' = opened /\ open' = open /\ lost' = lost /\ on[p] \in Flows /\ on'[p] = on[p]
      BY <1>00, <2>1 DEF GetNote, At, past, store
    <3>2. note[on[p]].session = None
      BY <1>0, <1>00, <1>7, <2>1 DEF GetNote, Go, TypeOK
    <3>3. request[on[p]].offline
      BY <1>0, <1>7, <3>1 DEF Settled
    <3> QED
      BY <1>0, <1>n, <1>1, <1>7, <3>1, <3>2, <3>3
  <2>2. CASE DeleteNote(p)
    <3>1. pc[p] = "unnote" /\ opened' = opened /\ open' = open /\ on'[p] = on[p]
      BY <1>00, <2>2 DEF DeleteNote, At, past
    <3> QED
      BY <1>0, <1>7, <3>1 DEF Refusing
  <2>3. CASE ~GetNote(p) /\ ~DeleteNote(p)
    <3>1. pc'[p] \notin {"denied", "reused"}
      <4> USE DEF At, Go, TypeOK
      <4>1. CASE \E g \in Flows, k \in Codes : Redeem(p, g, k)
        BY <1>0, <1>00, <2>3, <4>1 DEF Redeem
      <4>2. CASE AuthRequestByCode(p)
        BY <1>0, <1>00, <2>3, <4>2 DEF AuthRequestByCode
      <4>3. CASE GetNote(p)
        BY <1>0, <1>00, <2>3, <4>3 DEF GetNote
      <4>4. CASE EndNoted(p)
        BY <1>0, <1>00, <2>3, <4>4 DEF EndNoted
      <4>5. CASE DeleteNote(p)
        BY <1>0, <1>00, <2>3, <4>5 DEF DeleteNote
      <4>6. CASE Record(p)
        BY <1>0, <1>00, <2>3, <4>6 DEF Record
      <4>7. CASE SetNote(p)
        BY <1>0, <1>00, <2>3, <4>7 DEF SetNote
      <4>8. CASE Involve(p)
        BY <1>0, <1>00, <2>3, <4>8 DEF Involve
      <4>9. CASE DeleteAuthRequest(p)
        BY <1>0, <1>00, <2>3, <4>9 DEF DeleteAuthRequest
      <4>10. CASE Fail(p)
        BY <1>0, <1>00, <2>3, <4>10 DEF Fail
      <4> HIDE DEF At, Go, TypeOK
      <4> QED
        BY Redeeming, <4>1, <4>2, <4>3, <4>4, <4>5, <4>6, <4>7, <4>8, <4>9, <4>10

    <3> QED
      BY <1>7, <3>1
  <2> QED
    BY <2>1, <2>2, <2>3
<1>8. Refusing'
  BY <1>4, <1>5, <1>6, <1>7 DEF Refusing
<1> QED
  BY <1>2, <1>8

\* What expires by itself is counted as lost, and a request is made only once.
LEMMA EnvironmentReuse ==
  ASSUME Sound, ReuseInv, Environment PROVE ReuseInv'
<1>0. /\ TypeOK /\ Settled /\ Noted /\ Refusing /\ NotesOpened
      /\ \A r \in Redeemers : pc[r] # "idle" => on[r] \in Flows
  BY DEF Sound, Roles, RedeemerRole, ReuseInv
<1>1. UNCHANGED <<open, pc, on, todo, hurt, opened>> /\ lost \subseteq lost'
  BY EnvironmentFrame DEF local
<1>2. ASSUME NEW f \in Flows, NEW offline \in BOOLEAN, CreateAuthRequest(f, offline) PROVE ReuseInv'
  <2>1. /\ request[f].state = "none" /\ code' = code /\ note' = note /\ lost' = lost
        /\ \A g \in Flows : g # f => request'[g] = request[g]
        /\ request'[f].state = "waiting"
    BY <1>0, <1>2 DEF CreateAuthRequest, TypeOK, past
  <2>2. Settled'
    BY <1>0, <1>1, <2>1 DEF Settled
  <2>3. Noted'
    <3>1. ~Touched(f)' \/ \E r \in Redeemers : on[r] = f /\ pc[r] # "idle"
      BY <1>1, <2>1 DEF Touched
    <3>2. ~Touched(f)'
      BY <1>0, <2>1, <3>1 DEF Settled
    <3>3. \A g \in Flows : g # f => (Touched(g)' <=> Touched(g))
      BY <1>1, <2>1 DEF Touched
    <3> QED
      BY <1>0, <1>1, <2>1, <3>2, <3>3 DEF Noted
  <2> QED
    BY <1>0, <1>1, <2>1, <2>2, <2>3 DEF ReuseInv, Refusing, NotesOpened
<1>3. ASSUME NEW f \in Flows, NEW k \in Codes, SaveAuthCode(f, k) PROVE ReuseInv'
  <2>1. /\ request[f].state = "done" /\ request' = request /\ note' = note /\ lost' = lost
        /\ \A g \in Flows : g # f => code'[g] = code[g]
    BY <1>0, <1>3 DEF SaveAuthCode, TypeOK, past
  <2>2. Settled'
    BY <1>0, <1>1, <2>1 DEF Settled
  <2> QED
    BY <1>0, <1>1, <2>1, <2>2 DEF ReuseInv, Refusing, NotesOpened, Noted, Touched
<1>4. ASSUME NEW f \in Flows, ExpireRequest(f) PROVE ReuseInv'
  <2>1. /\ request[f].state # "none" /\ code' = code /\ note' = note /\ lost' = lost \cup {f}
        /\ \A g \in Flows : g # f => request'[g] = request[g]
        /\ request'[f].state = "gone" /\ request'[f].offline = request[f].offline
    BY <1>0, <1>4 DEF ExpireRequest, Without, Known, TypeOK
  <2>2. Settled'
    BY <1>0, <1>1, <2>1 DEF Settled
  <2>3. Noted'
    BY <1>0, <1>1, <2>1 DEF Noted, Touched
  <2> QED
    BY <1>0, <1>1, <2>1, <2>2, <2>3 DEF ReuseInv, Refusing, NotesOpened
<1>5. ASSUME NEW f \in Flows, NEW k \in Codes, ExpireCode(f, k) PROVE ReuseInv'
  <2>1. /\ request' = request
        /\ \A g \in Flows : g # f => code'[g] = code[g]
        /\ \/ note' = note /\ lost' = lost
           \/ note' = Unnoted(f) /\ lost' = lost \cup {f}
    BY <1>0, <1>5 DEF ExpireCode, TypeOK
  <2>2. request[f].state # "none"
    BY <1>0, <1>5 DEF ExpireCode, Settled
  <2>3. \A g \in Flows : (note'[g] = note[g] \/ note'[g].session = None) /\ (g \notin lost' => note'[g] = note[g])
    BY <1>0, <2>1 DEF Unnoted, TypeOK
  <2>4. Settled'
    BY <1>0, <1>1, <2>1, <2>2 DEF Settled
  <2>5. Noted'
    BY <1>0, <1>1, <2>1, <2>3 DEF Noted, Touched
  <2> QED
    BY <1>0, <1>1, <2>1, <2>3, <2>4, <2>5 DEF ReuseInv, Refusing, NotesOpened
<1>6. ASSUME NEW s \in Entrants, Repair(s) PROVE ReuseInv'
  BY <1>0, <1>1, <1>6 DEF Repair, past, ReuseInv, Settled, Noted, Touched, Refusing, NotesOpened
<1> QED
  BY <1>2, <1>3, <1>4, <1>5, <1>6 DEF Environment

\* Nothing has been redeemed in the beginning.
LEMMA InitReuse == Init => ReuseInv
BY DEF Init, ReuseInv, Settled, Noted, Touched, Refusing, NotesOpened, Procs

\* Every step keeps the one session of a redeemed request noted or ended.
LEMMA NextReuse == Sound /\ ReuseInv /\ [Next]_vars => ReuseInv'
<1> SUFFICES ASSUME Sound, ReuseInv, [Next]_vars PROVE ReuseInv'
  OBVIOUS
<1>0. Sound'
  BY NextSound
<1>1. ASSUME NEW p \in Procs, Act(p) PROVE ReuseInv'
  <2>1. Others(p) /\ Onward(p)
    BY <1>1, ActSound
  <2>2. CASE p \in Redeemers
    BY <1>0, <1>1, <2>1, <2>2, RedeemSettled, RedeemNoted, RedeemRefusing DEF ReuseInv
  <2>3. CASE p \notin Redeemers
    BY <1>0, <1>1, <2>1, <2>3, ReuseElsewhere
  <2> QED
    BY <2>2, <2>3
<1>2. CASE Environment
  BY <1>2, EnvironmentReuse
<1>3. CASE UNCHANGED vars
  BY <1>3 DEF ReuseInv, Settled, Noted, Touched, Refusing, NotesOpened, vars, store, local, past
<1> QED
  BY <1>1, <1>2, <1>3, Steps

\* A code presented again after its request was deleted ends the session its one
\* redemption opened, in whatever order two redemptions and a sign-out move, unless
\* the note could not be written or something expired (AuthRequestByCode,
\* revokeCodeSession, CreateAccessAndRefreshTokens).
THEOREM ReuseEndsHolds == Spec => []ReuseEnds
<1>1. ReuseInv => ReuseEnds
  BY DEF ReuseInv, Refusing, ReuseEnds
<1> QED
  BY InitSound, NextSound, InitReuse, NextReuse, <1>1, PTL DEF Spec

-----------------------------------------------------------------------------
(* Signing out. *)

\* Ending a sign-in goes on until it has ended, or one who failed has not.
LEMMA EndingStays ==
  ASSUME Sound, EndedGone, NEW p \in Procs, Act(p), Others(p),
         NEW s \in Entrants, NEW q \in Procs, Ending(q, s), sso'[s] = "live"
  PROVE  Ending(q, s)'
<1>1. CASE q # p
  BY <1>1 DEF Others, Ending
<1>2. CASE q = p
  <2>0. /\ under[p] = s /\ under'[p] = s /\ hurt \subseteq hurt' /\ TypeOK
    BY <1>2, ActUnder DEF Ending, Sound
  <2>1. CASE p \in hurt
    BY <1>2, <2>0, <2>1 DEF Ending
  <2>2. CASE pc[p] \in {"endof", "endclients", "endsso", "endremove", "enddelete"}
    <3>1. pc[p] = "endremove" => FALSE
      <4>1. ASSUME pc[p] = "endremove" PROVE p \in Leavers /\ sso[s] = "gone" /\ Begun(s)
        BY <2>0, <4>1 DEF EndedGone, Sound, Roles, Procs, EntrantRole, RedeemerRole, LeaverRole,
               EntrantPlaces, RedeemerPlaces, EndPlaces
      <4> QED
        BY <4>1, ActGone
    <3>2. pc'[p] \in {"endof", "endclients", "endsso"} \/ p \in hurt'
      <4> USE DEF At, Idle, Hurt, Go, TypeOK
      <4>1. CASE \E g \in Flows : Callback(p, g)
        BY <2>0, <2>2, <3>1, <4>1 DEF Callback
      <4>2. CASE \E g \in Flows, t \in Entrants : Silent(p, g, t)
        BY <2>0, <2>2, <3>1, <4>2 DEF Silent
      <4>3. CASE Begin(p) \/ BeginAdd(p) \/ BeginFails(p)
        BY <2>0, <2>2, <3>1, <4>3 DEF Begin, BeginAdd, BeginFails
      <4>4. CASE CompleteRead(p) \/ Audit(p) \/ CompleteWrite(p)
        BY <2>0, <2>2, <3>1, <4>4 DEF CompleteRead, Audit, CompleteWrite
      <4>5. CASE \E g \in Flows, k \in Codes : Redeem(p, g, k)
        BY <2>0, <2>2, <3>1, <4>5 DEF Redeem
      <4>6. CASE AuthRequestByCode(p) \/ GetNote(p) \/ EndNoted(p) \/ DeleteNote(p)
        BY <2>0, <2>2, <3>1, <4>6 DEF AuthRequestByCode, GetNote, EndNoted, DeleteNote
      <4>7. CASE Record(p) \/ SetNote(p) \/ Involve(p) \/ DeleteAuthRequest(p)
        BY <2>0, <2>2, <3>1, <4>7 DEF Record, SetNote, Involve, DeleteAuthRequest
      <4>8. CASE RevokeSessions(p) \/ \E t \in Entrants, how \in {"signout", "browser"} : SignOut(p, t, how)
        BY <2>0, <2>2, <3>1, <4>8 DEF RevokeSessions, SignOut
      <4>9. CASE GetSso(p) \/ List(p) \/ Involved(p)
        BY <2>0, <2>2, <3>1, <4>9 DEF GetSso, List, Involved
      <4>10. CASE Walk(p) \/ RevokeNext(p) \/ RevokeFails(p)
        BY <2>0, <2>2, <3>1, <4>10 DEF Walk, RevokeNext, RevokeFails
      <4>11. CASE EndGet(p) \/ End(p) \/ EndFails(p)
        BY <2>0, <2>2, <3>1, <4>11 DEF EndGet, End, EndFails
      <4>12. CASE EndFor(p) \/ EndForNext(p)
        BY <2>0, <2>2, <3>1, <4>12 DEF EndFor, EndForNext
      <4>13. CASE Fail(p)
        BY <2>0, <2>2, <3>1, <4>13 DEF Fail
      <4> HIDE DEF At, Idle, Hurt, Go, TypeOK
      <4> QED
        BY Handlers, <4>1, <4>2, <4>3, <4>4, <4>5, <4>6, <4>7, <4>8, <4>9, <4>10, <4>11, <4>12, <4>13

    <3> QED
      BY <1>2, <2>0, <3>2 DEF Ending
  <2> QED
    BY <1>2, <2>1, <2>2 DEF Ending
<1> QED
  BY <1>1, <1>2

\* A sign-in that was begun is not revived.
LEMMA ActLive ==
  ASSUME Sound, NEW p \in Procs, Act(p), NEW s \in Entrants, Begun(s), sso'[s] = "live"
  PROVE  sso[s] = "live"
<1>0. TypeOK
  BY DEF Sound
<1> USE DEF TypeOK, Begun, At, local, store
<1>1. CASE \E g \in Flows : Callback(p, g)
  BY <1>0, <1>1 DEF Callback
<1>2. CASE \E g \in Flows, t \in Entrants : Silent(p, g, t)
  BY <1>0, <1>2 DEF Silent
<1>3. CASE Begin(p) \/ BeginAdd(p) \/ BeginFails(p)
  BY <1>0, <1>3 DEF Begin, BeginAdd, BeginFails
<1>4. CASE CompleteRead(p) \/ Audit(p) \/ CompleteWrite(p)
  BY <1>0, <1>4 DEF CompleteRead, Audit, CompleteWrite
<1>5. CASE \E g \in Flows, k \in Codes : Redeem(p, g, k)
  BY <1>0, <1>5 DEF Redeem
<1>6. CASE AuthRequestByCode(p) \/ GetNote(p) \/ EndNoted(p) \/ DeleteNote(p)
  BY <1>0, <1>6 DEF AuthRequestByCode, GetNote, EndNoted, DeleteNote
<1>7. CASE Record(p) \/ SetNote(p) \/ Involve(p) \/ DeleteAuthRequest(p)
  BY <1>0, <1>7 DEF Record, SetNote, Involve, DeleteAuthRequest
<1>8. CASE RevokeSessions(p) \/ \E t \in Entrants, how \in {"signout", "browser"} : SignOut(p, t, how)
  BY <1>0, <1>8 DEF RevokeSessions, SignOut
<1>9. CASE GetSso(p) \/ List(p) \/ Involved(p)
  BY <1>0, <1>9 DEF GetSso, List, Involved
<1>10. CASE Walk(p) \/ RevokeNext(p) \/ RevokeFails(p)
  BY <1>0, <1>10 DEF Walk, RevokeNext, RevokeFails
<1>11. CASE EndGet(p) \/ End(p) \/ EndFails(p)
  BY <1>0, <1>11 DEF EndGet, End, EndFails
<1>12. CASE EndFor(p) \/ EndForNext(p)
  BY <1>0, <1>12 DEF EndFor, EndForNext
<1>13. CASE Fail(p)
  BY <1>0, <1>13 DEF Fail
<1> HIDE DEF TypeOK, Begun, At, local, store
<1> QED
  BY Handlers, <1>1, <1>2, <1>3, <1>4, <1>5, <1>6, <1>7, <1>8, <1>9, <1>10, <1>11, <1>12, <1>13

\* A live sign-in leaves the identity's set only by the hand of one who ends it.
LEMMA KeptStays ==
  ASSUME Sound, EndedGone, NEW p \in Procs, Act(p), Others(p), NEW s \in Entrants, Begun(s), Kept(s)
  PROVE  Kept(s)'
<1> SUFFICES ASSUME sso'[s] = "live", s \notin ssoOf' PROVE \E q \in Procs : Ending(q, s)'
  BY DEF Kept
<1>0. TypeOK /\ sso[s] = "live"
  BY ActLive DEF Sound
<1>1. CASE \E q \in Procs : Ending(q, s)
  BY <1>1, EndingStays
<1>2. CASE s \in ssoOf
  <2>1. (p \in Entrants \cup Leavers /\ End(p)) \/ (p \in Entrants \cup Leavers /\ EndForNext(p))
    BY <1>2, Handlers DEF local, past, store, Callback, Silent, Begin, BeginAdd, BeginFails, CompleteRead, Audit, CompleteWrite, Redeem, AuthRequestByCode, GetNote, EndNoted, DeleteNote, Record, SetNote, Involve, DeleteAuthRequest, RevokeSessions, SignOut, GetSso, List, Involved, Walk, RevokeNext, RevokeFails, EndGet, EndFails, EndFor, Fail
  <2>2. CASE End(p)
    <3>1. pc[p] = "endof" /\ under[p] = s
      BY <1>2, <2>2 DEF End, At
    <3>2. Ending(p, s)'
      BY <1>0, <2>2, <3>1 DEF End, Ending, At, Go, TypeOK, local
    <3> QED
      BY <3>2
  <2>3. CASE EndForNext(p)
    <3>1. pc[p] = "endremove" /\ under[p] = s
      BY <1>2, <2>3 DEF EndForNext, At
    <3>2. p \in Leavers
      BY <2>1, <3>1 DEF Sound, Roles, EntrantRole, EntrantPlaces, EndPlaces
    <3> QED
      BY <1>0, <3>1, <3>2 DEF EndedGone
  <2> QED
    BY <2>1, <2>2, <2>3
<1> QED
  BY <1>0, <1>1, <1>2 DEF Kept

\* What a request that ends sign-ins may do.
LEMMA Leaving ==
  ASSUME NEW p \in Leavers, Act(p)
  PROVE  \/ RevokeSessions(p)
         \/ \E t \in Entrants, how \in {"signout", "browser"} : SignOut(p, t, how)
         \/ GetSso(p) \/ List(p) \/ Involved(p) \/ Walk(p) \/ RevokeNext(p) \/ RevokeFails(p)
         \/ EndGet(p) \/ End(p) \/ EndFails(p) \/ EndFor(p) \/ EndForNext(p)
         \/ Fail(p)
BY SignInAssumption DEF Act, LeaveStep

\* What was open before, and is open, is under the sign-in it was under; what is
\* newly open nobody has seen.
LEMMA ActUnderOpen ==
  ASSUME Sound, Settled, Walked, NEW p \in Procs, Act(p), Others(p)
  PROVE  /\ \A s : Under(s) \cap open' \subseteq Under(s)'
         /\ \A r \in Leavers : (before[r] \cup held[r]) \cap open' \subseteq open
<1>0. TypeOK
  BY DEF Sound
<1>1. \A q \in open : under'[q] = under[q]
  BY <1>0, ActUnder DEF Settled, Others, TypeOK, Procs
<1>2. ASSUME NEW s PROVE Under(s) \cap open' \subseteq Under(s)'
  BY <1>1 DEF Under
<1>3. ASSUME NEW r \in Leavers PROVE (before[r] \cup held[r]) \cap open' \subseteq open
  BY ActOpen DEF Walked, Record, At
<1> QED
  BY <1>2, <1>3

\* A request that is ending sessions keeps what it has seen, whoever else moves.
LEMMA WalkedElsewhere ==
  ASSUME Sound, Settled, Walked, NEW p \in Procs, Act(p), Others(p), Onward(p), NEW r \in Leavers, r # p
  PROVE  /\ pc'[r] \in {"idle", "getsso"} => before'[r] = {} /\ held'[r] = {}
         /\ pc'[r] \in {"list", "involved"} => Left(r)' \subseteq Under(under[r])'
         /\ pc'[r] = "walk" /\ kind'[r] # "everywhere" => Left(r)' \subseteq Under(under[r])'
         /\ pc'[r] = "revoke" => Left(r)' \subseteq todo'[r]
         /\ pc'[r] \in EndPlaces \cup {"endfor", "endnext", "enddelete", "endremove", "out"} /\ r \notin hurt' =>
              Left(r)' = {}
<1>1. /\ pc'[r] = pc[r] /\ kind'[r] = kind[r] /\ under'[r] = under[r] /\ todo'[r] = todo[r]
      /\ before'[r] = before[r] /\ held'[r] = held[r] /\ (r \in hurt' <=> r \in hurt)
  BY DEF Others, Procs
<1>2. Left(r)' \subseteq Left(r) /\ Left(r)' \subseteq open'
  BY <1>1, ActUnderOpen DEF Left
<1>3. Under(under[r]) \cap open' \subseteq Under(under[r])'
  <2>1. PICK u : u = under[r]
    OBVIOUS
  <2>2. Under(u) \cap open' \subseteq Under(u)'
    BY ActUnderOpen
  <2> QED
    BY <1>1, <2>1, <2>2 DEF Under
<1> QED
  BY <1>1, <1>2, <1>3 DEF Walked

\* A request that is ending sessions ends every one it saw.
LEMMA WalkedHere ==
  ASSUME Sound, Sound', Settled, Walked, NEW p \in Leavers, Act(p), Others(p), Onward(p)
  PROVE  /\ pc'[p] \in {"idle", "getsso"} => before'[p] = {} /\ held'[p] = {}
         /\ pc'[p] \in {"list", "involved"} => Left(p)' \subseteq Under(under[p])'
         /\ pc'[p] = "walk" /\ kind'[p] # "everywhere" => Left(p)' \subseteq Under(under[p])'
         /\ pc'[p] = "revoke" => Left(p)' \subseteq todo'[p]
         /\ pc'[p] \in EndPlaces \cup {"endfor", "endnext", "enddelete", "endremove", "out"} /\ p \notin hurt' =>
              Left(p)' = {}
<1>0. /\ TypeOK /\ LeaverRole(p) /\ Walked /\ p \in Procs
      /\ \A q \in open : under'[q] = under[q]
  BY ActUnder DEF Sound, Roles, Procs, Settled, Others, TypeOK
<1>n. /\ Entrants \cap Redeemers = {} /\ Flows \cap Redeemers = {}
  BY SignInAssumption
<1> USE DEF TypeOK, LeaverRole, Walked, Left, Under, EndPlaces, Begun, At, Idle, Go, Hurt, local, past, store
<1>1. CASE RevokeSessions(p)
  BY <1>0, <1>n, <1>1 DEF RevokeSessions
<1>2. CASE \E t \in Entrants, how \in {"signout", "browser"} : SignOut(p, t, how)
  BY <1>0, <1>n, <1>2 DEF SignOut
<1>3. CASE GetSso(p)
  BY <1>0, <1>n, <1>3 DEF GetSso
<1>4. CASE List(p)
  BY <1>0, <1>n, <1>4 DEF List
<1>5. CASE Involved(p)
  BY <1>0, <1>n, <1>5 DEF Involved
<1>6. CASE Walk(p)
  BY <1>0, <1>n, <1>6 DEF Walk
<1>7. CASE RevokeNext(p)
  BY <1>0, <1>n, <1>7 DEF RevokeNext
<1>8. CASE RevokeFails(p)
  BY <1>0, <1>n, <1>8 DEF RevokeFails
<1>9. CASE EndGet(p)
  BY <1>0, <1>n, <1>9 DEF EndGet
<1>10. CASE End(p)
  BY <1>0, <1>n, <1>10 DEF End
<1>11. CASE EndFails(p)
  BY <1>0, <1>n, <1>11 DEF EndFails
<1>12. CASE EndFor(p)
  BY <1>0, <1>n, <1>12 DEF EndFor
<1>13. CASE EndForNext(p)
  BY <1>0, <1>n, <1>13 DEF EndForNext
<1>14. CASE Fail(p)
  BY <1>0, <1>n, <1>14 DEF Fail
<1> HIDE DEF TypeOK, LeaverRole, Walked, Left, Under, EndPlaces, Begun, At, Idle, Go, Hurt, local, past, store
<1> QED
  BY Leaving, <1>1, <1>2, <1>3, <1>4, <1>5, <1>6, <1>7, <1>8, <1>9, <1>10, <1>11, <1>12, <1>13, <1>14

\* A request's step keeps what every other has to end.
LEMMA ActWalked ==
  ASSUME Sound, Sound', Settled, Settled', Walked, NEW p \in Procs, Act(p), Others(p), Onward(p) PROVE Walked'
<1>1. ASSUME NEW r \in Leavers, NEW q \in Redeemers, pc'[q] \in {"idle", "request", "record"}
      PROVE  q \notin before'[r] \cup held'[r]
  <2>1. q \notin open'
    BY <1>1 DEF Settled
  <2>2. pc[q] \in {"idle", "request", "record"}
    <3>1. CASE q # p
      BY <1>1, <3>1 DEF Others, Procs
    <3>2. CASE q = p
      <4>0. TypeOK
        BY DEF Sound
      <4>1. pc'[p] \in {"idle", "request", "record"} => pc[p] \in {"idle", "request", "record"}
        <5> USE DEF TypeOK, Go, At, Idle
        <5>1. CASE \E g \in Flows : Callback(p, g)
          BY <4>0, <5>1 DEF Callback
        <5>2. CASE \E g \in Flows, t \in Entrants : Silent(p, g, t)
          BY <4>0, <5>2 DEF Silent
        <5>3. CASE Begin(p) \/ BeginAdd(p) \/ BeginFails(p)
          BY <4>0, <5>3 DEF Begin, BeginAdd, BeginFails
        <5>4. CASE CompleteRead(p) \/ Audit(p) \/ CompleteWrite(p)
          BY <4>0, <5>4 DEF CompleteRead, Audit, CompleteWrite
        <5>5. CASE \E g \in Flows, k \in Codes : Redeem(p, g, k)
          BY <4>0, <5>5 DEF Redeem
        <5>6. CASE AuthRequestByCode(p) \/ GetNote(p) \/ EndNoted(p) \/ DeleteNote(p)
          BY <4>0, <5>6 DEF AuthRequestByCode, GetNote, EndNoted, DeleteNote
        <5>7. CASE Record(p) \/ SetNote(p) \/ Involve(p) \/ DeleteAuthRequest(p)
          BY <4>0, <5>7 DEF Record, SetNote, Involve, DeleteAuthRequest
        <5>8. CASE RevokeSessions(p) \/ \E t \in Entrants, how \in {"signout", "browser"} : SignOut(p, t, how)
          BY <4>0, <5>8 DEF RevokeSessions, SignOut
        <5>9. CASE GetSso(p) \/ List(p) \/ Involved(p)
          BY <4>0, <5>9 DEF GetSso, List, Involved
        <5>10. CASE Walk(p) \/ RevokeNext(p) \/ RevokeFails(p)
          BY <4>0, <5>10 DEF Walk, RevokeNext, RevokeFails
        <5>11. CASE EndGet(p) \/ End(p) \/ EndFails(p)
          BY <4>0, <5>11 DEF EndGet, End, EndFails
        <5>12. CASE EndFor(p) \/ EndForNext(p)
          BY <4>0, <5>12 DEF EndFor, EndForNext
        <5>13. CASE Fail(p)
          BY <4>0, <5>13 DEF Fail
        <5> HIDE DEF TypeOK, Go, At, Idle
        <5> QED
          BY Handlers, <5>1, <5>2, <5>3, <5>4, <5>5, <5>6, <5>7, <5>8, <5>9, <5>10, <5>11, <5>12, <5>13

      <4> QED
        BY <1>1, <3>2, <4>1
    <3> QED
      BY <3>1, <3>2
  <2>3. q \notin before[r] \cup held[r] /\ q \notin open
    BY <2>2 DEF Walked, Settled
  <2>4. CASE r # p
    BY <2>3, <2>4 DEF Others, Procs
  <2>5. CASE r = p
    <3>0. TypeOK /\ p \in Leavers /\ (pc[p] \in {"getsso", "list", "involved"} => under[p] \in Entrants)
      BY <2>5 DEF Sound, Roles, LeaverRole, Begun
    <3>1. before'[p] \subseteq before[p] \cup open \cup Entrants \cup Flows
      <4> USE DEF TypeOK, At, past, Under
      <4>1. CASE RevokeSessions(p)
        BY <3>0, <4>1 DEF RevokeSessions
      <4>2. CASE \E t \in Entrants, how \in {"signout", "browser"} : SignOut(p, t, how)
        BY <3>0, <4>2 DEF SignOut
      <4>3. CASE GetSso(p)
        BY <3>0, <4>3 DEF GetSso
      <4>4. CASE List(p)
        BY <3>0, <4>4 DEF List
      <4>5. CASE Involved(p)
        BY <3>0, <4>5 DEF Involved
      <4>6. CASE Walk(p)
        BY <3>0, <4>6 DEF Walk
      <4>7. CASE RevokeNext(p)
        BY <3>0, <4>7 DEF RevokeNext
      <4>8. CASE RevokeFails(p)
        BY <3>0, <4>8 DEF RevokeFails
      <4>9. CASE EndGet(p)
        BY <3>0, <4>9 DEF EndGet
      <4>10. CASE End(p)
        BY <3>0, <4>10 DEF End
      <4>11. CASE EndFails(p)
        BY <3>0, <4>11 DEF EndFails
      <4>12. CASE EndFor(p)
        BY <3>0, <4>12 DEF EndFor
      <4>13. CASE EndForNext(p)
        BY <3>0, <4>13 DEF EndForNext
      <4>14. CASE Fail(p)
        BY <3>0, <4>14 DEF Fail
      <4> HIDE DEF TypeOK, At, past, Under
      <4> QED
        BY Leaving, <3>0, <4>1, <4>2, <4>3, <4>4, <4>5, <4>6, <4>7, <4>8, <4>9, <4>10, <4>11, <4>12, <4>13, <4>14

    <3>2. held'[p] \subseteq held[p] \cup open
      <4> USE DEF TypeOK, At, local, Under
      <4>1. CASE RevokeSessions(p)
        BY <3>0, <4>1 DEF RevokeSessions
      <4>2. CASE \E t \in Entrants, how \in {"signout", "browser"} : SignOut(p, t, how)
        BY <3>0, <4>2 DEF SignOut
      <4>3. CASE GetSso(p)
        BY <3>0, <4>3 DEF GetSso
      <4>4. CASE List(p)
        BY <3>0, <4>4 DEF List
      <4>5. CASE Involved(p)
        BY <3>0, <4>5 DEF Involved
      <4>6. CASE Walk(p)
        BY <3>0, <4>6 DEF Walk
      <4>7. CASE RevokeNext(p)
        BY <3>0, <4>7 DEF RevokeNext
      <4>8. CASE RevokeFails(p)
        BY <3>0, <4>8 DEF RevokeFails
      <4>9. CASE EndGet(p)
        BY <3>0, <4>9 DEF EndGet
      <4>10. CASE End(p)
        BY <3>0, <4>10 DEF End
      <4>11. CASE EndFails(p)
        BY <3>0, <4>11 DEF EndFails
      <4>12. CASE EndFor(p)
        BY <3>0, <4>12 DEF EndFor
      <4>13. CASE EndForNext(p)
        BY <3>0, <4>13 DEF EndForNext
      <4>14. CASE Fail(p)
        BY <3>0, <4>14 DEF Fail
      <4> HIDE DEF TypeOK, At, local, Under
      <4> QED
        BY Leaving, <3>0, <4>1, <4>2, <4>3, <4>4, <4>5, <4>6, <4>7, <4>8, <4>9, <4>10, <4>11, <4>12, <4>13, <4>14

    <3> QED
      BY <2>3, <2>5, <3>1, <3>2, SignInAssumption
  <2> QED
    BY <2>4, <2>5
<1> QED
  BY <1>1, WalkedElsewhere, WalkedHere DEF Walked

\* What a request is to end it keeps, or somebody else is ending it.
LEMMA EndsElsewhere ==
  ASSUME Sound, EndedGone, EndsAll, NEW p \in Procs, Act(p), Others(p), Onward(p), NEW r \in Leavers, r # p
  PROVE  /\ (\A s \in Ends(r) : Begun(s) /\ Kept(s))'
         /\ pc'[r] = "getsso" => Kept(under[r])'
         /\ kind'[r] \in {"signout", "browser"} => Ends(r)' \subseteq {under'[r]}
         /\ kind'[r] = "everywhere" /\ pc'[r] \in {"endnext", "enddelete", "endremove", "out"} /\ r \notin hurt' =>
              \A s \in Ends(r)' : sso'[s] = "live" /\ ~(pc'[r] # "out" /\ s \in todo'[r]) =>
                \E q \in Procs \ {r} : Ending(q, s)'
<1>1. /\ pc'[r] = pc[r] /\ kind'[r] = kind[r] /\ under'[r] = under[r] /\ todo'[r] = todo[r]
      /\ before'[r] = before[r] /\ (r \in hurt' <=> r \in hurt)
  BY DEF Others, Procs
<1>2. Ends(r)' = Ends(r) /\ Ends(r) \subseteq Entrants
  BY <1>1 DEF Ends
<1>3. ASSUME NEW s \in Entrants, Begun(s), Kept(s) PROVE Begun(s)' /\ Kept(s)'
  BY <1>3, KeptStays, RolesFrame
<1>4. (\A s \in Ends(r) : Begun(s) /\ Kept(s))'
  BY <1>2, <1>3 DEF EndsAll
<1>5. ASSUME pc'[r] = "getsso" PROVE Kept(under[r])'
  <2>1. PICK u \in Entrants : u = under[r] /\ Begun(u)
    BY <1>1, <1>5 DEF Sound, Roles, LeaverRole, Begun
  <2>2. Kept(u)'
    BY <1>1, <1>3, <1>5, <2>1 DEF EndsAll
  <2> QED
    BY <1>1, <2>1, <2>2 DEF Kept, Ending
<1>6. ASSUME kind[r] = "everywhere", pc[r] \in {"endnext", "enddelete", "endremove", "out"}, r \notin hurt,
             NEW s \in Ends(r), sso'[s] = "live", ~(pc[r] # "out" /\ s \in todo[r])
      PROVE  \E q \in Procs \ {r} : Ending(q, s)'
  <2>1. s \in Entrants /\ sso[s] = "live"
    BY <1>2, <1>6, ActLive DEF EndsAll
  <2>2. PICK q \in Procs \ {r} : Ending(q, s)
    BY <1>6, <2>1 DEF EndsAll
  <2> QED
    BY <1>6, <2>1, <2>2, EndingStays
<1> QED
  BY <1>1, <1>2, <1>4, <1>5, <1>6 DEF EndsAll

\* What a request sets out to end is known to the identity's set, and a walk through
\* that set leaves only what somebody else is ending.
LEMMA EndsHere ==
  ASSUME Sound, Sound', EndedGone, Walked, EndsAll, NEW p \in Leavers, Act(p), Others(p), Onward(p)
  PROVE  /\ (\A s \in Ends(p) : Begun(s) /\ Kept(s))'
         /\ pc'[p] = "getsso" => Kept(under[p])'
         /\ kind'[p] \in {"signout", "browser"} => Ends(p)' \subseteq {under'[p]}
         /\ kind'[p] = "everywhere" /\ pc'[p] \in {"endnext", "enddelete", "endremove", "out"} /\ p \notin hurt' =>
              \A s \in Ends(p)' : sso'[s] = "live" /\ ~(pc'[p] # "out" /\ s \in todo'[p]) =>
                \E q \in Procs \ {p} : Ending(q, s)'
<1>0. /\ TypeOK /\ LeaverRole(p) /\ p \in Procs /\ \A s \in cookies : Begun(s) /\ Kept(s)
      /\ pc[p] = "idle" => p \notin hurt /\ before[p] = {}
  BY DEF Sound, Roles, Procs, EndsAll, Walked
<1>n. Entrants \cap Redeemers = {} /\ Flows \cap Entrants = {}
  BY SignInAssumption
<1>3. ASSUME NEW s \in Entrants, Begun(s), Kept(s) PROVE Begun(s)' /\ Kept(s)'
  BY <1>0, <1>3, KeptStays, RolesFrame
<1>g. ASSUME GetSso(p) PROVE Ends(p)' \subseteq Ends(p) \cup {under[p]} /\ pc[p] = "getsso"
  <2>1. under[p] \in Entrants /\ pc[p] = "getsso"
    BY <1>0, <1>g DEF GetSso, At, LeaverRole, Begun
  <2>2. Under(under[p]) \cap Entrants = {} /\ involved[under[p]] \cap Entrants = {}
    BY <1>0, <1>n, <2>1 DEF Under, TypeOK
  <2>3. before' = before \/ before' = [before EXCEPT ![p] = Under(under[p]) \cup {under[p]} \cup involved[under[p]]]
    BY <1>g DEF GetSso
  <2>4. before'[p] = before[p] \/ before'[p] = Under(under[p]) \cup {under[p]} \cup involved[under[p]]
    BY <1>0, <2>3 DEF TypeOK
  <2> QED
    BY <2>1, <2>2, <2>4 DEF Ends
<1>4. (\A s \in Ends(p) : Begun(s) /\ Kept(s))'
  <2>1. \A s \in Ends(p)' : s \in Ends(p) \/ s \in cookies \/ (pc[p] = "getsso" /\ s = under[p])
    <3> USE DEF Ends, TypeOK, At, past, Under
    <3>1. CASE RevokeSessions(p)
      BY <1>0, <1>n, <3>1 DEF RevokeSessions
    <3>2. CASE \E t \in Entrants, how \in {"signout", "browser"} : SignOut(p, t, how)
      BY <1>0, <1>n, <3>2 DEF SignOut
    <3>3. CASE GetSso(p)
      BY <1>g, <3>3
    <3>4. CASE List(p)
      BY <1>0, <1>n, <3>4 DEF List
    <3>5. CASE Involved(p)
      BY <1>0, <1>n, <3>5 DEF Involved
    <3>6. CASE Walk(p)
      BY <1>0, <1>n, <3>6 DEF Walk
    <3>7. CASE RevokeNext(p)
      BY <1>0, <1>n, <3>7 DEF RevokeNext
    <3>8. CASE RevokeFails(p)
      BY <1>0, <1>n, <3>8 DEF RevokeFails
    <3>9. CASE EndGet(p)
      BY <1>0, <1>n, <3>9 DEF EndGet
    <3>10. CASE End(p)
      BY <1>0, <1>n, <3>10 DEF End
    <3>11. CASE EndFails(p)
      BY <1>0, <1>n, <3>11 DEF EndFails
    <3>12. CASE EndFor(p)
      BY <1>0, <1>n, <3>12 DEF EndFor
    <3>13. CASE EndForNext(p)
      BY <1>0, <1>n, <3>13 DEF EndForNext
    <3>14. CASE Fail(p)
      BY <1>0, <1>n, <3>14 DEF Fail
    <3> HIDE DEF Ends, TypeOK, At, past, Under
    <3> QED
      BY Leaving, <3>1, <3>2, <3>3, <3>4, <3>5, <3>6, <3>7, <3>8, <3>9, <3>10, <3>11, <3>12, <3>13, <3>14

  <2>2. \A s \in Ends(p)' : s \in Entrants /\ Begun(s) /\ Kept(s)
    BY <1>0, <2>1 DEF EndsAll, LeaverRole, Begun, Ends
  <2> QED
    BY <1>3, <2>2
<1>5. ASSUME pc'[p] = "getsso" PROVE Kept(under[p])'
  <2>1. PICK u \in cookies : u = under'[p]
    <3> USE DEF TypeOK, At, Go, Idle
    <3>1. CASE RevokeSessions(p)
      BY <1>0, <1>5, <3>1 DEF RevokeSessions
    <3>2. CASE \E t \in Entrants, how \in {"signout", "browser"} : SignOut(p, t, how)
      BY <1>0, <1>5, <3>2 DEF SignOut
    <3>3. CASE GetSso(p)
      BY <1>0, <1>5, <3>3 DEF GetSso
    <3>4. CASE List(p)
      BY <1>0, <1>5, <3>4 DEF List
    <3>5. CASE Involved(p)
      BY <1>0, <1>5, <3>5 DEF Involved
    <3>6. CASE Walk(p)
      BY <1>0, <1>5, <3>6 DEF Walk
    <3>7. CASE RevokeNext(p)
      BY <1>0, <1>5, <3>7 DEF RevokeNext
    <3>8. CASE RevokeFails(p)
      BY <1>0, <1>5, <3>8 DEF RevokeFails
    <3>9. CASE EndGet(p)
      BY <1>0, <1>5, <3>9 DEF EndGet
    <3>10. CASE End(p)
      BY <1>0, <1>5, <3>10 DEF End
    <3>11. CASE EndFails(p)
      BY <1>0, <1>5, <3>11 DEF EndFails
    <3>12. CASE EndFor(p)
      BY <1>0, <1>5, <3>12 DEF EndFor
    <3>13. CASE EndForNext(p)
      BY <1>0, <1>5, <3>13 DEF EndForNext
    <3>14. CASE Fail(p)
      BY <1>0, <1>5, <3>14 DEF Fail
    <3> HIDE DEF TypeOK, At, Go, Idle
    <3> QED
      BY Leaving, <3>1, <3>2, <3>3, <3>4, <3>5, <3>6, <3>7, <3>8, <3>9, <3>10, <3>11, <3>12, <3>13, <3>14

  <2>2. Kept(u)'
    BY <1>0, <1>3, <2>1 DEF TypeOK
  <2> QED
    BY <2>1, <2>2 DEF Kept, Ending
<1>6. ASSUME kind'[p] \in {"signout", "browser"} PROVE Ends(p)' \subseteq {under'[p]}
  <2>1. pc[p] # "idle" => kind'[p] = kind[p] /\ under'[p] = under[p]
    BY <1>0, <1>6, ActFixed, ActUnder DEF LeaverRole
  <2>2. pc[p] # "idle" => Ends(p) \subseteq {under[p]}
    BY <1>6, <2>1 DEF EndsAll
  <2> USE DEF Ends, TypeOK, At, Idle, past, Under
  <2>21. CASE RevokeSessions(p)
    BY <1>0, <1>n, <1>6, <2>1, <2>2, <2>21 DEF RevokeSessions
  <2>22. CASE \E t \in Entrants, how \in {"signout", "browser"} : SignOut(p, t, how)
    BY <1>0, <1>n, <1>6, <2>1, <2>2, <2>22 DEF SignOut
  <2>3. CASE GetSso(p)
    BY <1>g, <2>1, <2>2, <2>3
  <2>4. CASE List(p)
    BY <1>0, <1>n, <1>6, <2>1, <2>2, <2>4 DEF List
  <2>5. CASE Involved(p)
    BY <1>0, <1>n, <1>6, <2>1, <2>2, <2>5 DEF Involved
  <2>6. CASE Walk(p)
    BY <1>0, <1>n, <1>6, <2>1, <2>2, <2>6 DEF Walk
  <2>7. CASE RevokeNext(p)
    BY <1>0, <1>n, <1>6, <2>1, <2>2, <2>7 DEF RevokeNext
  <2>8. CASE RevokeFails(p)
    BY <1>0, <1>n, <1>6, <2>1, <2>2, <2>8 DEF RevokeFails
  <2>9. CASE EndGet(p)
    BY <1>0, <1>n, <1>6, <2>1, <2>2, <2>9 DEF EndGet
  <2>10. CASE End(p)
    BY <1>0, <1>n, <1>6, <2>1, <2>2, <2>10 DEF End
  <2>11. CASE EndFails(p)
    BY <1>0, <1>n, <1>6, <2>1, <2>2, <2>11 DEF EndFails
  <2>12. CASE EndFor(p)
    BY <1>0, <1>n, <1>6, <2>1, <2>2, <2>12 DEF EndFor
  <2>13. CASE EndForNext(p)
    BY <1>0, <1>n, <1>6, <2>1, <2>2, <2>13 DEF EndForNext
  <2>14. CASE Fail(p)
    BY <1>0, <1>n, <1>6, <2>1, <2>2, <2>14 DEF Fail
  <2> HIDE DEF Ends, TypeOK, At, Idle, past, Under
  <2> QED
    BY Leaving, <2>21, <2>22, <2>3, <2>4, <2>5, <2>6, <2>7, <2>8, <2>9, <2>10, <2>11, <2>12, <2>13, <2>14

<1>7. ASSUME kind'[p] = "everywhere", pc'[p] \in {"endnext", "enddelete", "endremove", "out"}, p \notin hurt',
             NEW s \in Ends(p)', sso'[s] = "live", ~(pc'[p] # "out" /\ s \in todo'[p])
      PROVE  \E q \in Procs \ {p} : Ending(q, s)'
  <2>1. pc[p] # "idle" /\ kind[p] = "everywhere" /\ p \notin hurt
    <3>1. pc[p] # "idle"
      <4> USE DEF TypeOK, At, Go, Idle, EndPlaces
      <4>1. CASE RevokeSessions(p)
        BY <1>0, <1>7, <4>1 DEF RevokeSessions
      <4>2. CASE \E t \in Entrants, how \in {"signout", "browser"} : SignOut(p, t, how)
        BY <1>0, <1>7, <4>2 DEF SignOut
      <4>3. CASE GetSso(p)
        BY <1>0, <1>7, <4>3 DEF GetSso
      <4>4. CASE List(p)
        BY <1>0, <1>7, <4>4 DEF List
      <4>5. CASE Involved(p)
        BY <1>0, <1>7, <4>5 DEF Involved
      <4>6. CASE Walk(p)
        BY <1>0, <1>7, <4>6 DEF Walk
      <4>7. CASE RevokeNext(p)
        BY <1>0, <1>7, <4>7 DEF RevokeNext
      <4>8. CASE RevokeFails(p)
        BY <1>0, <1>7, <4>8 DEF RevokeFails
      <4>9. CASE EndGet(p)
        BY <1>0, <1>7, <4>9 DEF EndGet
      <4>10. CASE End(p)
        BY <1>0, <1>7, <4>10 DEF End
      <4>11. CASE EndFails(p)
        BY <1>0, <1>7, <4>11 DEF EndFails
      <4>12. CASE EndFor(p)
        BY <1>0, <1>7, <4>12 DEF EndFor
      <4>13. CASE EndForNext(p)
        BY <1>0, <1>7, <4>13 DEF EndForNext
      <4>14. CASE Fail(p)
        BY <1>0, <1>7, <4>14 DEF Fail
      <4> HIDE DEF TypeOK, At, Go, Idle, EndPlaces
      <4> QED
        BY Leaving, <4>1, <4>2, <4>3, <4>4, <4>5, <4>6, <4>7, <4>8, <4>9, <4>10, <4>11, <4>12, <4>13, <4>14

    <3> QED
      BY <1>0, <1>7, <3>1, ActFixed, ActUnder DEF LeaverRole
  <2>2. EndFor(p) \/ EndForNext(p)
    <3> USE DEF TypeOK, At, Go, Idle, Hurt, LeaverRole, EndPlaces
    <3>1. CASE RevokeSessions(p)
      BY <1>0, <1>7, <2>1, <3>1 DEF RevokeSessions
    <3>2. CASE \E t \in Entrants, how \in {"signout", "browser"} : SignOut(p, t, how)
      BY <1>0, <1>7, <2>1, <3>2 DEF SignOut
    <3>3. CASE GetSso(p)
      BY <1>0, <1>7, <2>1, <3>3 DEF GetSso
    <3>4. CASE List(p)
      BY <1>0, <1>7, <2>1, <3>4 DEF List
    <3>5. CASE Involved(p)
      BY <1>0, <1>7, <2>1, <3>5 DEF Involved
    <3>6. CASE Walk(p)
      BY <1>0, <1>7, <2>1, <3>6 DEF Walk
    <3>7. CASE RevokeNext(p)
      BY <1>0, <1>7, <2>1, <3>7 DEF RevokeNext
    <3>8. CASE RevokeFails(p)
      BY <1>0, <1>7, <2>1, <3>8 DEF RevokeFails
    <3>9. CASE EndGet(p)
      BY <1>0, <1>7, <2>1, <3>9 DEF EndGet
    <3>10. CASE End(p)
      BY <1>0, <1>7, <2>1, <3>10 DEF End
    <3>11. CASE EndFails(p)
      BY <1>0, <1>7, <2>1, <3>11 DEF EndFails
    <3>12. CASE EndFor(p)
      BY <1>0, <1>7, <2>1, <3>12 DEF EndFor
    <3>13. CASE EndForNext(p)
      BY <1>0, <1>7, <2>1, <3>13 DEF EndForNext
    <3>14. CASE Fail(p)
      BY <1>0, <1>7, <2>1, <3>14 DEF Fail
    <3> HIDE DEF TypeOK, At, Go, Idle, Hurt, LeaverRole, EndPlaces
    <3> QED
      BY Leaving, <3>1, <3>2, <3>3, <3>4, <3>5, <3>6, <3>7, <3>8, <3>9, <3>10, <3>11, <3>12, <3>13, <3>14

  <2>3. /\ s \in Ends(p) /\ s \in Entrants /\ Begun(s)
    BY <1>0, <1>7, <2>2 DEF EndFor, EndForNext, Ends, past, EndsAll
  <2>4. sso[s] = "live"
    BY <1>0, <1>7, <2>3, ActLive
  <2>5. SUFFICES \E q \in Procs \ {p} : Ending(q, s)
    BY <1>0, <1>7, <2>3, EndingStays
  <2>6. CASE EndFor(p)
    <3>1. pc[p] = "endfor" /\ s \notin ssoOf
      BY <1>0, <1>7, <2>6 DEF EndFor, At, Go, TypeOK
    <3>2. ~Ending(p, s)
      BY <2>1, <3>1 DEF Ending
    <3>3. Kept(s)
      BY <2>3 DEF EndsAll
    <3> QED
      BY <2>4, <3>1, <3>2, <3>3 DEF Kept
  <2>7. CASE EndForNext(p)
    <3>1. pc[p] \in {"endnext", "enddelete", "endremove"}
      BY <2>7 DEF EndForNext, At
    <3>2. s \notin todo[p]
      <4>1. CASE pc[p] = "endnext"
        BY <1>0, <1>7, <2>7, <4>1 DEF EndForNext, At, Go, TypeOK
      <4>2. CASE pc[p] = "enddelete"
        BY <1>0, <1>7, <2>7, <4>2 DEF EndForNext, At, Go, TypeOK
      <4>3. CASE pc[p] = "endremove"
        <5>1. under[p] # s
          BY <2>4, <4>3 DEF EndedGone
        <5> QED
          BY <1>0, <1>7, <2>7, <4>3, <5>1 DEF EndForNext, At, Go, TypeOK
      <4> QED
        BY <3>1, <4>1, <4>2, <4>3
    <3> QED
      BY <2>1, <2>3, <2>4, <3>1, <3>2 DEF EndsAll
  <2> QED
    BY <2>2, <2>6, <2>7
<1> QED
  BY <1>4, <1>5, <1>6, <1>7

\* A request's step keeps what every request has to end within reach.
LEMMA ActEndsAll ==
  ASSUME Sound, Sound', EndedGone, Walked, EndsAll, NEW p \in Procs, Act(p), Others(p), Onward(p) PROVE EndsAll'
<1>1. ASSUME NEW s \in cookies' PROVE Kept(s)'
  <2>1. CASE s \in cookies
    <3>1. s \in Entrants /\ Begun(s) /\ Kept(s)
      BY <2>1 DEF Sound, TypeOK, Roles, EndsAll
    <3> QED
      BY <3>1, KeptStays
  <2>2. CASE s \notin cookies
    <3>1. s \in ssoOf'
      BY <1>1, <2>2, Handlers DEF local, past, store, At, Callback, Silent, Begin, BeginAdd, BeginFails, CompleteRead, Audit, CompleteWrite, Redeem, AuthRequestByCode, GetNote, EndNoted, DeleteNote, Record, SetNote, Involve, DeleteAuthRequest, RevokeSessions, SignOut, GetSso, List, Involved, Walk, RevokeNext, RevokeFails, EndGet, End, EndFails, EndFor, EndForNext, Fail
    <3> QED
      BY <3>1 DEF Kept
  <2> QED
    BY <2>1, <2>2
<1>2. \A r \in Leavers :
         /\ (\A s \in Ends(r) : Begun(s) /\ Kept(s))'
         /\ pc'[r] = "getsso" => Kept(under[r])'
         /\ kind'[r] \in {"signout", "browser"} => Ends(r)' \subseteq {under'[r]}
         /\ kind'[r] = "everywhere" /\ pc'[r] \in {"endnext", "enddelete", "endremove", "out"} /\ r \notin hurt' =>
              \A s \in Ends(r)' : sso'[s] = "live" /\ ~(pc'[r] # "out" /\ s \in todo'[r]) =>
                \E q \in Procs \ {r} : Ending(q, s)'
  BY EndsElsewhere, EndsHere
<1> QED
  BY <1>1, <1>2 DEF EndsAll

\* Whoever is ending the same sign-in as another still is, one step later.
LEMMA OtherStays ==
  ASSUME Sound, NEW p \in Procs, Act(p), Others(p), NEW r \in Leavers, kind[r] = "signout", Other(r)
  PROVE  Other(r)'
<1>0. TypeOK /\ r \in Procs /\ \A q \in Procs : kind[q] # "none" => pc[q] # "idle"
  BY DEF Sound, Roles, EntrantRole, RedeemerRole, LeaverRole, Procs
<1>1. ASSUME NEW q \in Procs, kind[q] \in {"signout", "browser", "sparing", "drop"}
      PROVE  kind'[q] = kind[q] /\ under'[q] = under[q]
  BY <1>0, <1>1, ActFixed, ActUnder DEF Others
<1>2. ASSUME NEW q \in Procs, kind[q] = "everywhere" PROVE kind'[q] = "everywhere"
  BY <1>0, <1>2, ActFixed DEF Others
<1>3. PICK q \in Procs \ {r} :
        \/ kind[q] = "everywhere"
        \/ under[q] = under[r] /\ kind[q] \in {"signout", "browser", "sparing", "drop"}
  BY DEF Other
<1> QED
  BY <1>0, <1>1, <1>2, <1>3 DEF Other

\* A client forgotten under the hands of a sign-out was forgotten by another.
LEMMA ActInvolved ==
  ASSUME Sound, NEW p \in Procs, Act(p), NEW r \in Leavers, r # p, Begun(under[r])
  PROVE  involved[under[r]] \subseteq involved'[under[r]] \/ Other(r)
<1>0. TypeOK
  BY DEF Sound
<1>1. CASE p \in Redeemers /\ Involve(p)
  BY <1>0, <1>1 DEF Involve, TypeOK, Begun, Sound, Roles, RedeemerRole
<1>2. CASE p \in Entrants \cup Leavers /\ End(p)
  <2>1. pc[p] \in EndPlaces => kind[p] \in {"signout", "browser", "sparing", "drop"} /\ under[p] \in Entrants
    BY <1>2 DEF Sound, Roles, EntrantRole, LeaverRole, Begun
  <2>2. CASE under[p] = under[r]
    BY <1>2, <2>1, <2>2 DEF End, At, EndPlaces, Other
  <2>3. CASE under[p] # under[r]
    BY <1>0, <1>2, <2>1, <2>3 DEF End, At, EndPlaces, TypeOK, Begun
  <2> QED
    BY <2>2, <2>3
<1>3. CASE p \in Entrants \cup Leavers /\ EndForNext(p)
  <2>1. kind[p] = "everywhere"
    BY <1>3 DEF EndForNext, At, Sound, Roles, LeaverRole, EntrantRole, EntrantPlaces, EndPlaces
  <2> QED
    BY <2>1 DEF Other
<1>4. CASE involved' = involved
  BY <1>4
<1> QED
  BY <1>1, <1>2, <1>3, <1>4, Handlers DEF local, past, store, Callback, Silent, Begin, BeginAdd, BeginFails, CompleteRead, Audit, CompleteWrite, Redeem, AuthRequestByCode, GetNote, EndNoted, DeleteNote, Record, SetNote, DeleteAuthRequest, RevokeSessions, SignOut, GetSso, List, Involved, Walk, RevokeNext, RevokeFails, EndGet, EndFails, EndFor, Fail

\* A sign-out tells the clients it found remembered, unless another is ending the
\* same sign-in.
LEMMA ActTelling ==
  ASSUME Sound, Sound', Walked, Telling, NEW p \in Procs, Act(p), Others(p), Onward(p) PROVE Telling'
<1>0. TypeOK /\ (\A r \in Leavers : LeaverRole(r)) /\ (\A r \in Leavers : r \in Procs)
  BY DEF Sound, Roles, Procs
<1>1. ASSUME NEW r \in Leavers, r # p, kind'[r] = "signout"
      PROVE  /\ pc'[r] \in {"list", "involved"} => before'[r] \cap Flows \subseteq involved'[under'[r]] \/ Other(r)'
             /\ pc'[r] \in {"walk", "revoke", "out"} \cup EndPlaces /\ r \notin hurt' =>
                  before'[r] \cap Flows \subseteq told'[r] \/ Other(r)'
  <2>1. /\ pc'[r] = pc[r] /\ kind'[r] = kind[r] /\ under'[r] = under[r] /\ told'[r] = told[r]
        /\ before'[r] = before[r] /\ (r \in hurt' <=> r \in hurt)
    BY <1>0, <1>1 DEF Others
  <2>2. Other(r) => Other(r)'
    BY <1>1, <2>1, OtherStays
  <2>3. pc[r] \in {"list", "involved"} => involved[under[r]] \subseteq involved'[under[r]] \/ Other(r)
    BY <1>0, <1>1, ActInvolved DEF LeaverRole
  <2> QED
    BY <1>1, <2>1, <2>2, <2>3 DEF Telling
<1>2. ASSUME p \in Leavers, kind'[p] = "signout"
      PROVE  /\ pc'[p] \in {"list", "involved"} => before'[p] \cap Flows \subseteq involved'[under'[p]] \/ Other(p)'
             /\ pc'[p] \in {"walk", "revoke", "out"} \cup EndPlaces /\ p \notin hurt' =>
                  before'[p] \cap Flows \subseteq told'[p] \/ Other(p)'
  <2>0. /\ LeaverRole(p) /\ Other(p) /\ kind[p] = "signout" => Other(p)'
        /\ pc[p] # "idle" => kind[p] = "signout"
        /\ pc[p] = "getsso" => before[p] = {}
        /\ hurt \subseteq hurt'
    BY <1>0, <1>2, OtherStays, ActFixed, ActUnder DEF Walked
  <2>00. Flows \cap Redeemers = {} /\ Flows \cap Entrants = {}
    BY SignInAssumption
  <2> USE DEF TypeOK, LeaverRole, Telling, Begun, EndPlaces, At, Go, Idle, Under, local, past, store
  <2>1. CASE RevokeSessions(p)
    BY <1>0, <1>2, <2>0, <2>00, <2>1 DEF RevokeSessions
  <2>2. CASE \E t \in Entrants, how \in {"signout", "browser"} : SignOut(p, t, how)
    BY <1>0, <1>2, <2>0, <2>00, <2>2 DEF SignOut
  <2>3. CASE GetSso(p)
    BY <1>0, <1>2, <2>0, <2>00, <2>3 DEF GetSso
  <2>4. CASE List(p)
    BY <1>0, <1>2, <2>0, <2>00, <2>4 DEF List
  <2>5. CASE Involved(p)
    <3>1. CASE p \in hurt'
      BY <1>0, <1>2, <2>5, <3>1 DEF Involved
    <3>2. CASE p \notin hurt'
      <4>1. told'[p] = {FlowOf(q) : q \in held[p]} \cup (involved[under[p]] \ {FlowOf(q) : q \in held[p]})
        BY <1>0, <1>2, <2>0, <2>5, <3>2 DEF Involved, Hurt
      <4>2. involved[under[p]] \subseteq told'[p]
        BY <4>1
      <4> QED
        BY <1>0, <1>2, <2>0, <2>00, <2>5, <3>2, <4>2 DEF Involved
    <3> QED
      BY <3>1, <3>2
  <2>6. CASE Walk(p)
    BY <1>0, <1>2, <2>0, <2>00, <2>6 DEF Walk
  <2>7. CASE RevokeNext(p)
    BY <1>0, <1>2, <2>0, <2>00, <2>7 DEF RevokeNext
  <2>8. CASE RevokeFails(p)
    BY <1>0, <1>2, <2>0, <2>00, <2>8 DEF RevokeFails
  <2>9. CASE EndGet(p)
    BY <1>0, <1>2, <2>0, <2>00, <2>9 DEF EndGet
  <2>10. CASE End(p)
    BY <1>0, <1>2, <2>0, <2>00, <2>10 DEF End
  <2>11. CASE EndFails(p)
    BY <1>0, <1>2, <2>0, <2>00, <2>11 DEF EndFails
  <2>12. CASE EndFor(p)
    BY <1>0, <1>2, <2>0, <2>00, <2>12 DEF EndFor
  <2>13. CASE EndForNext(p)
    BY <1>0, <1>2, <2>0, <2>00, <2>13 DEF EndForNext
  <2>14. CASE Fail(p)
    BY <1>0, <1>2, <2>0, <2>00, <2>14 DEF Fail
  <2> HIDE DEF TypeOK, LeaverRole, Telling, Begun, EndPlaces, At, Go, Idle, Under, local, past, store
  <2> QED
    BY <1>2, Leaving, <2>1, <2>2, <2>3, <2>4, <2>5, <2>6, <2>7, <2>8, <2>9, <2>10, <2>11, <2>12, <2>13, <2>14

<1> QED
  BY <1>1, <1>2 DEF Telling

\* What happens by itself takes only ended sign-ins out of the sets.
LEMMA EnvironmentLeave ==
  ASSUME Sound, LeaveInv, Environment PROVE LeaveInv'
<1>1. /\ UNCHANGED <<sso, involved, open, cookies, pc, kind, on, under, held, todo, told, hurt, before>>
      /\ ssoOf' \subseteq ssoOf /\ \A s \in ssoOf \ ssoOf' : sso[s] = "gone"
  BY EnvironmentFrame DEF local
<1>2. Walked'
  BY <1>1 DEF LeaveInv, Walked, Left, Under
<1>3. \A s : Kept(s) => Kept(s)'
  BY <1>1 DEF Kept, Ending
<1>4. \A s, q : (Ending(q, s)' <=> Ending(q, s)) /\ (Begun(s)' <=> Begun(s))
  BY <1>1 DEF Ending, Begun
<1>5. \A p \in Leavers : Ends(p)' = Ends(p) /\ (Kept(under[p]) => Kept(under[p])')
  BY <1>1 DEF Ends, Kept, Ending
<1>6. EndsAll'
  BY <1>1, <1>3, <1>4, <1>5 DEF LeaveInv, EndsAll
<1>7. Telling'
  BY <1>1 DEF LeaveInv, Telling, Other
<1> QED
  BY <1>2, <1>6, <1>7 DEF LeaveInv

\* Nobody is leaving in the beginning.
LEMMA InitLeave == Init => LeaveInv
<1> SUFFICES ASSUME Init PROVE LeaveInv
  OBVIOUS
<1>1. Walked
  BY DEF Init, Walked, Left, Procs, EndPlaces
<1>2. EndsAll
  BY DEF Init, EndsAll, Ends, Procs
<1>3. Telling
  BY DEF Init, Telling, Procs
<1> QED
  BY <1>1, <1>2, <1>3 DEF LeaveInv

\* Every step keeps what a leaving request has yet to end in its sight.
LEMMA NextLeave ==
  RecoveryInv /\ Settled /\ Settled' /\ LeaveInv /\ [Next]_vars => LeaveInv'
<1> SUFFICES ASSUME RecoveryInv, Settled, Settled', LeaveInv, [Next]_vars PROVE LeaveInv'
  OBVIOUS
<1>0. Sound /\ Sound' /\ EndedGone
  BY NextRecovery DEF RecoveryInv
<1>1. ASSUME NEW p \in Procs, Act(p) PROVE LeaveInv'
  <2>1. Others(p) /\ Onward(p)
    BY <1>0, <1>1, ActSound
  <2> QED
    BY <1>0, <1>1, <2>1, ActWalked, ActEndsAll, ActTelling DEF LeaveInv
<1>2. CASE Environment
  BY <1>0, <1>2, EnvironmentLeave
<1>3. CASE UNCHANGED vars
  BY <1>3 DEF LeaveInv, Walked, Left, Under, EndsAll, Ends, Kept, Ending, Begun, Telling, Other, vars, store, local, past
<1> QED
  BY <1>1, <1>2, <1>3, Steps

\* The three layers hold together.
LEMMA LeaveAlways == Spec => [](RecoveryInv /\ ReuseInv /\ LeaveInv)
<1>1. Init => RecoveryInv /\ ReuseInv /\ LeaveInv
  BY InitRecovery, InitReuse, InitLeave
<1>2. RecoveryInv /\ ReuseInv /\ LeaveInv /\ [Next]_vars => (RecoveryInv /\ ReuseInv /\ LeaveInv)'
  <2> SUFFICES ASSUME RecoveryInv, ReuseInv, LeaveInv, [Next]_vars PROVE (RecoveryInv /\ ReuseInv /\ LeaveInv)'
    OBVIOUS
  <2>1. RecoveryInv'
    BY NextRecovery
  <2>2. ReuseInv'
    BY NextReuse DEF RecoveryInv
  <2>3. LeaveInv'
    BY <2>2, NextLeave DEF ReuseInv
  <2> QED
    BY <2>1, <2>2, <2>3
<1> QED
  BY <1>1, <1>2, PTL DEF Spec

\* A sign-out, the end of one browser and the end of everything, once through, leave
\* no session and no sign-in of what they found, other than what somebody else is
\* ending or failed to end (signOut, RevokeSessions, SSO.EndFor).
THEOREM SignOutHolding == Spec => []SignOutHolds
<1>1. RecoveryInv /\ ReuseInv /\ LeaveInv => SignOutHolds
  <2> SUFFICES ASSUME RecoveryInv, LeaveInv, NEW p \in Leavers, pc[p] = "out", p \notin hurt
               PROVE  /\ before[p] \cap open = {}
                      /\ \A s \in before[p] \cap Entrants :
                            sso[s] = "live" => \E q \in Procs \ {p} : Ending(q, s)
    BY DEF SignOutHolds
  <2>1. before[p] \cap open = {}
    BY DEF LeaveInv, Walked, Left
  <2>2. ASSUME NEW s \in Ends(p), sso[s] = "live" PROVE \E q \in Procs \ {p} : Ending(q, s)
    <3>1. CASE kind[p] = "everywhere"
      BY <2>2, <3>1 DEF LeaveInv, EndsAll
    <3>2. CASE kind[p] \in {"signout", "browser"}
      BY <2>2, <3>2 DEF LeaveInv, EndsAll, RecoveryInv, EndedGone
    <3> QED
      BY <3>1, <3>2 DEF RecoveryInv, Sound, Roles, LeaverRole
  <2> QED
    BY <2>1, <2>2 DEF Ends
<1> QED
  BY <1>1, LeaveAlways, PTL

\* A sign-out tells every client issued an ID token under the sign-in, and no client
\* is told while a session it listed is open, unless another ends the same sign-in
\* at the same time (signOut, Involved).
THEOREM ClientsToldHolds == Spec => []ClientsTold
<1>1. RecoveryInv /\ ReuseInv /\ LeaveInv => ClientsTold
  <2> SUFFICES ASSUME LeaveInv, NEW p \in Leavers, kind[p] = "signout", p \notin hurt, pc[p] \in EndPlaces \cup {"out"}
               PROVE  held[p] \cap open = {} /\ (before[p] \cap Flows \subseteq told[p] \/ Other(p))
    BY DEF ClientsTold, EndPlaces, Other
  <2>1. held[p] \cap open = {}
    BY DEF LeaveInv, Walked, Left
  <2>2. before[p] \cap Flows \subseteq told[p] \/ Other(p)
    BY DEF LeaveInv, Telling
  <2> QED
    BY <2>1, <2>2
<1> QED
  BY <1>1, LeaveAlways, PTL

-----------------------------------------------------------------------------
(* KeyRing: the rotation of a signing key.                                 *)

\* A replica between reading a key that its ring does not hold and adopting it.
Pending(r, k) == step[r] \in {"first", "claim", "read"} /\ key[r] = k

\* ... that has its ActivateAt already.
Guessed(r, k) == step[r] \in {"claim", "read"} /\ key[r] = k

\* A replica whose Observe has recomputed.
Decided(r) == step[r] \in {"retire", "remove", "idle"}

----------------------------------------------------------------------------
(* What holds of a replica.                                                *)

\* A replica polls in time, and its file lags no longer than Sync.
Clocked(r) ==
    /\ step[r] # "down" => at[r] <= now /\ now <= at[r] + Poll
    /\ secret = 2 /\ file[r] = 1 => now <= issued + Sync

\* Before the rotation nobody has the second key.
Alone(r) == secret = 1 => ring[r][2] = 0 /\ file[r] = 1 /\ ~Pending(r, 2)

\* What the ring holds at each step of Observe.
Held(r) ==
    /\ signer[r] \subseteq Entries(r)
    /\ step[r] = "down" => ring[r][1] = 0 /\ ring[r][2] = 0
    /\ \A k \in Key : Pending(r, k) => ring[r][k] = 0
    /\ step[r] \in {"add", "refreshAdd"} => key[r] \in Entries(r)
    /\ step[r] = "absorb" => \A k \in left[r] : ring[r][k] = 0
    /\ step[r] \in {"refresh", "refreshAdd"} => left[r] \subseteq Entries(r)

\* A replica can sign with a key it read, or is about to, and once the lag
\* is over that is the second.
Seen(r) ==
    step[r] # "down" =>
        /\ signer[r] # {} \/ Pending(r, 1) \/ Pending(r, 2)
        /\ secret = 2 /\ at[r] > issued + Sync => 2 \in signer[r] \/ Pending(r, 2)

\* The second key waits out a delay, the first is adopted early.
Waits(r) ==
    /\ Pending(r, 1) /\ secret = 2 => at[r] <= issued + Sync
    /\ Pending(r, 2) => issued <= at[r]
    /\ \A k \in Key : Guessed(r, k) => at[r] <= guess[r]
    /\ Guessed(r, 2) => issued + BootDelay <= guess[r]
    /\ ring[r][2] # 0 => issued + BootDelay <= ring[r][2]

\* What recompute has left: the published and the active key, and the keys
\* to take out of the store.
Computed(r) ==
    /\ step[r] = "idle" => ~fresh[r] /\ left[r] = {}
    /\ step[r] = "remove" => key[r] \in left[r]
    /\ Decided(r) =>
        /\ published[r] = Entries(r)
        /\ active[r] = 1 => ring[r][2] = 0 \/ at[r] < ring[r][2]
        /\ active[r] = 2 => ring[r][2] # 0 /\ ring[r][2] <= at[r]
        /\ left[r] \subseteq {1}
        /\ left[r] # {} => ring[r][2] # 0

\* What holds of the store and the tokens.
StoreSound ==
    /\ issued <= now
    /\ secret = 1 => entry[2] = 0 /\ 2 \notin index
    /\ entry[2] # 0 => issued + BootDelay <= entry[2]
    /\ valid[2] > 0 => entry[2] # 0 \/ \E r \in Replica : ring[r][2] # 0

----------------------------------------------------------------------------
(* What holds as long as no replica has been restarted.                    *)

\* The schedule of the second key.
Scheduled(t) ==
    /\ 2 + Delay <= t /\ issued + Delay <= t
    /\ t <= issued + Delay + Sync + Poll

\* The first key may retire.
Retirable == secret = 2 /\ now > issued + Delay + Overlap

\* A replica read the second key within a poll of the lag, and retires the
\* first no sooner than an overlap after the earliest schedule.
Uninterrupted(r) ==
    /\ step[r] # "down"
    /\ fresh[r] => at[r] = 1
    /\ Pending(r, 1) => fresh[r]
    /\ Pending(r, 2) => ~fresh[r] /\ 2 <= at[r] /\ at[r] <= issued + Sync + Poll
    /\ Guessed(r, 1) => guess[r] <= 1 + BootDelay
    /\ Guessed(r, 2) => Scheduled(guess[r])
    /\ ring[r][1] <= 1 + BootDelay
    /\ ring[r][2] # 0 => Scheduled(ring[r][2])
    /\ ring[r][1] = 0 => Pending(r, 1) \/ (Retirable /\ ring[r][2] # 0)
    /\ Decided(r) /\ left[r] # {} => Retirable

\* What the store holds is some replica's schedule; the index holds the first
\* key until it may retire, and its last token is signed soon enough.
StoreLags ==
    /\ entry[1] <= 1 + BootDelay
    /\ entry[2] # 0 => Scheduled(entry[2])
    /\ secret = 2 /\ ~Retirable => 1 \in index
    /\ secret = 2 /\ valid[1] > 0 => now + valid[1] <= TokenLife + issued + Delay + Sync + Poll + Poll

----------------------------------------------------------------------------
(* What holds as long as no store call has failed.                         *)

\* The overlap after the recorded schedule of the second key is over.
Over == entry[2] # 0 /\ (now > entry[2] + Overlap \/ now > entry[2] + BootOverlap)

\* The first key activates at once.
FirstBound == IF secret = 1 THEN now ELSE issued

\* A replica's schedule is the recorded one, and until the overlap is over
\* it holds the first key, or is about to absorb it.
Recorded(r) ==
    /\ ring[r][2] # 0 => entry[2] = ring[r][2]
    /\ ring[r][2] # 0 => 2 \in index \/ (step[r] = "add" /\ key[r] = 2)
    /\ step[r] = "absorb" /\ 2 \in left[r] => 2 \in index
    /\ ring[r][1] <= FirstBound
    /\ ring[r][1] # 0 => entry[1] # 0 \/ Over
    /\ step[r] = "read" => entry[key[r]] # 0
    /\ step[r] = "claim" /\ key[r] = 1 => entry[1] # 0 \/ guess[r] <= FirstBound
    /\ secret = 2 /\ ring[r][1] = 0 =>
        /\ step[r] = "absorb" => Over \/ 1 \in left[r]
        /\ step[r] \in {"refresh", "refreshAdd"} \/ Decided(r) => Over
    /\ Decided(r) /\ left[r] # {} => Over

\* The record of the second key stays, that of the first until the overlap
\* is over, and its last token is signed no later than a poll after it.
StoreKeeps ==
    /\ entry[1] <= FirstBound
    /\ 1 \in index => entry[1] # 0 \/ Over
    /\ 2 \in index => entry[2] # 0
    /\ secret = 2 => index # {} /\ (1 \in index \/ Over)
    /\ entry[2] # 0 /\ valid[1] > 0 => now + valid[1] <= TokenLife + entry[2] + Poll

----------------------------------------------------------------------------
\* What always holds of a replica.
Local(r) == Clocked(r) /\ Alone(r) /\ Held(r) /\ Seen(r) /\ Waits(r) /\ Computed(r)

\* What holds through outages or through restarts: OneKind => RingInv is
\* inductive.
RingInv ==
    /\ mishaps.failed = 0 \/ mishaps.died = 0
    /\ StoreSound
    /\ \A r \in Replica : Local(r)
    /\ mishaps.died = 0 => StoreLags /\ \A r \in Replica : Uninterrupted(r)
    /\ mishaps.failed = 0 => StoreKeeps /\ \A r \in Replica : Recorded(r)
----------------------------------------------------------------------------
(* The keys, and the steps.                                                *)

\* With one rotation there are two keys.
LEMMA TwoKeys ==
    ASSUME Timings
    PROVE  Key = {1, 2} /\ 1 \in Key /\ 2 \in Key
BY KeyRingAssumption DEF Timings, Key

\* The constants are numbers.
LEMMA RingConstants ==
    /\ NKeys \in Nat \ {0} /\ Delay \in Nat \ {0} /\ Overlap \in Nat \ {0}
    /\ BootDelay \in Nat \ {0} /\ BootOverlap \in Nat \ {0}
    /\ Poll \in Nat \ {0} /\ Sync \in Nat \ {0} /\ TokenLife \in Nat \ {0}
    /\ MaxFailures \in Nat /\ MaxDeaths \in Nat /\ MaxTime \in Nat
BY KeyRingAssumption

\* Every variable of replica s keeps its value.
Untouched(s) ==
    /\ file'[s] = file[s] /\ ring'[s] = ring[s] /\ signer'[s] = signer[s]
    /\ active'[s] = active[s] /\ published'[s] = published[s]
    /\ step'[s] = step[s] /\ at'[s] = at[s] /\ key'[s] = key[s]
    /\ guess'[s] = guess[s] /\ left'[s] = left[s] /\ fresh'[s] = fresh[s]

\* A step of replica r leaves the clock, the Secret and the others alone.
Own(r) ==
    /\ now' = now /\ secret' = secret /\ issued' = issued
    /\ \A s \in Replica \ {r} : Untouched(s)

\* A store call ends one of the two ways.
LEMMA AnswerDoes ==
    ASSUME NEW ok \in BOOLEAN, RingTypeOK, Answer(ok)
    PROVE  /\ mishaps'.died = mishaps.died
           /\ mishaps'.failed = 0 => mishaps.failed = 0 /\ ok
           /\ mishaps' \in [failed : 0 .. MaxFailures, died : 0 .. MaxDeaths]
<1>1. mishaps \in [failed : 0 .. MaxFailures, died : 0 .. MaxDeaths]
  BY DEF RingTypeOK
<1>2. CASE ok /\ mishaps' = mishaps
  BY <1>1, <1>2
<1>3. CASE /\ ~ok /\ mishaps.failed < MaxFailures
           /\ mishaps' = [mishaps EXCEPT !.failed = @ + 1]
  BY <1>1, <1>3, RingConstants
<1>4. QED
  BY <1>2, <1>3 DEF Answer

----------------------------------------------------------------------------
(* What every step does to the replica that takes it.                      *)

\* Observe reads the file: the key is known, or is to be recorded.
LEMMA ObserveDoes ==
    ASSUME NEW r \in Replica, RingTypeOK, Observe(r)
    PROVE  /\ Own(r) /\ mishaps' = mishaps /\ entry' = entry /\ index' = index /\ valid' = valid
           /\ step[r] = "idle" /\ (at[r] < now \/ now = MaxTime)
           /\ file'[r] = file[r] /\ ring'[r] = ring[r] /\ active'[r] = active[r]
           /\ published'[r] = published[r] /\ guess'[r] = guess[r]
           /\ left'[r] = left[r] /\ fresh'[r] = fresh[r]
           /\ at'[r] = now /\ key'[r] = file[r]
           /\ \/ /\ file[r] \in Entries(r)
                 /\ signer'[r] = signer[r] \cup {file[r]} /\ step'[r] = "members"
              \/ /\ file[r] \notin Entries(r)
                 /\ signer'[r] = signer[r] /\ step'[r] = "first"
BY DEF RingTypeOK, Observe, Own, Untouched, world, storeVars

\* record decides on the delay.
LEMMA FirstKeyDoes ==
    ASSUME NEW r \in Replica, RingTypeOK, FirstKey(r)
    PROVE  /\ Own(r) /\ entry' = entry /\ index' = index /\ valid' = valid
           /\ step[r] = "first" /\ step'[r] = "claim"
           /\ file'[r] = file[r] /\ ring'[r] = ring[r] /\ signer'[r] = signer[r]
           /\ active'[r] = active[r] /\ published'[r] = published[r]
           /\ at'[r] = at[r] /\ key'[r] = key[r] /\ left'[r] = left[r] /\ fresh'[r] = fresh[r]
           /\ \E ok \in BOOLEAN :
                 /\ Answer(ok)
                 /\ \/ ok /\ index = {} /\ guess'[r] = at[r]
                    \/ ~ok /\ Entries(r) = {} /\ guess'[r] = at[r]
                    \/ /\ (ok /\ index # {}) \/ (~ok /\ Entries(r) # {})
                       /\ fresh[r] => guess'[r] = at[r] + BootDelay
                       /\ ~fresh[r] => guess'[r] = at[r] + Delay
<1>1. PICK ok \in BOOLEAN :
         /\ Answer(ok)
         /\ guess' = [guess EXCEPT ![r] =
               IF (IF ok THEN index = {} ELSE Entries(r) = {}) THEN at[r]
               ELSE at[r] + (IF fresh[r] THEN BootDelay ELSE Delay)]
  BY DEF FirstKey
<1>2. /\ Own(r) /\ entry' = entry /\ index' = index /\ valid' = valid
      /\ step[r] = "first" /\ step'[r] = "claim"
      /\ file'[r] = file[r] /\ ring'[r] = ring[r] /\ signer'[r] = signer[r]
      /\ active'[r] = active[r] /\ published'[r] = published[r]
      /\ at'[r] = at[r] /\ key'[r] = key[r] /\ left'[r] = left[r] /\ fresh'[r] = fresh[r]
  <2>1. guess' = [guess EXCEPT ![r] = guess'[r]]
    BY <1>1 DEF RingTypeOK
  <2>2. QED
    BY <2>1 DEF RingTypeOK, FirstKey, Own, Untouched, world, storeVars, ringVars
<1>3. \/ ok /\ index = {} /\ guess'[r] = at[r]
      \/ ~ok /\ Entries(r) = {} /\ guess'[r] = at[r]
      \/ /\ (ok /\ index # {}) \/ (~ok /\ Entries(r) # {})
         /\ fresh[r] => guess'[r] = at[r] + BootDelay
         /\ ~fresh[r] => guess'[r] = at[r] + Delay
  BY <1>1 DEF RingTypeOK
<1>4. QED
  BY <1>1, <1>2, <1>3

\* What Adopt does: the key enters the ring with its private half.
Adopted(r, t) ==
    /\ ring'[r] = [ring[r] EXCEPT ![key[r]] = t]
    /\ signer'[r] = signer[r] \cup {key[r]}
    /\ guess'[r] = 0 /\ step'[r] = "add"

\* SetIfAbsent wins, loses or fails.
LEMMA ClaimDoes ==
    ASSUME NEW r \in Replica, RingTypeOK, Claim(r)
    PROVE  /\ Own(r) /\ index' = index /\ valid' = valid
           /\ step[r] = "claim"
           /\ file'[r] = file[r] /\ active'[r] = active[r] /\ published'[r] = published[r]
           /\ at'[r] = at[r] /\ key'[r] = key[r] /\ left'[r] = left[r] /\ fresh'[r] = fresh[r]
           /\ \/ /\ entry[key[r]] = 0 /\ Answer(TRUE)
                 /\ entry' = [entry EXCEPT ![key[r]] = guess[r]] /\ Adopted(r, guess[r])
              \/ /\ entry[key[r]] # 0 /\ Answer(TRUE) /\ entry' = entry
                 /\ ring'[r] = ring[r] /\ signer'[r] = signer[r] /\ guess'[r] = guess[r]
                 /\ step'[r] = "read"
              \/ Answer(FALSE) /\ entry' = entry /\ Adopted(r, guess[r])
BY DEF RingTypeOK, Claim, Adopt, Adopted, Own, Untouched, world, storeVars, ringVars

\* The recorded schedule is read, or the guess is kept.
LEMMA ReadClaimDoes ==
    ASSUME NEW r \in Replica, RingTypeOK, ReadClaim(r)
    PROVE  /\ Own(r) /\ entry' = entry /\ index' = index /\ valid' = valid
           /\ step[r] = "read"
           /\ file'[r] = file[r] /\ active'[r] = active[r] /\ published'[r] = published[r]
           /\ at'[r] = at[r] /\ key'[r] = key[r] /\ left'[r] = left[r] /\ fresh'[r] = fresh[r]
           /\ \E ok \in BOOLEAN :
                 /\ Answer(ok)
                 /\ \/ ok /\ entry[key[r]] # 0 /\ Adopted(r, entry[key[r]])
                    \/ ~(ok /\ entry[key[r]] # 0) /\ Adopted(r, guess[r])
<1>1. PICK ok \in BOOLEAN :
         Answer(ok) /\ Adopt(r, IF ok /\ entry[key[r]] # 0 THEN entry[key[r]] ELSE guess[r])
  BY DEF ReadClaim
<1>2. PICK t : /\ Adopt(r, t)
               /\ \/ ok /\ entry[key[r]] # 0 /\ t = entry[key[r]]
                  \/ ~(ok /\ entry[key[r]] # 0) /\ t = guess[r]
  BY <1>1
<1>3. Adopted(r, t)
  BY <1>2 DEF RingTypeOK, Adopt, Adopted
<1>4. /\ Own(r) /\ entry' = entry /\ index' = index /\ valid' = valid
      /\ step[r] = "read"
      /\ file'[r] = file[r] /\ active'[r] = active[r] /\ published'[r] = published[r]
      /\ at'[r] = at[r] /\ key'[r] = key[r] /\ left'[r] = left[r] /\ fresh'[r] = fresh[r]
  BY <1>2 DEF RingTypeOK, ReadClaim, Adopt, Own, Untouched, world, storeVars, ringVars
<1>5. QED
  BY <1>1, <1>2, <1>3, <1>4

\* The key is added to the index, unless the call fails.
LEMMA AddKeyDoes ==
    ASSUME NEW r \in Replica, RingTypeOK, AddKey(r)
    PROVE  /\ Own(r) /\ entry' = entry /\ valid' = valid
           /\ step[r] = "add" /\ step'[r] = "members"
           /\ file'[r] = file[r] /\ ring'[r] = ring[r] /\ signer'[r] = signer[r]
           /\ active'[r] = active[r] /\ published'[r] = published[r] /\ at'[r] = at[r]
           /\ key'[r] = key[r] /\ guess'[r] = guess[r] /\ left'[r] = left[r] /\ fresh'[r] = fresh[r]
           /\ \E ok \in BOOLEAN :
                 Answer(ok) /\ (ok => index' = index \cup {key[r]}) /\ (~ok => index' = index)
BY DEF RingTypeOK, AddKey, Own, Untouched, world, storeVars, ringVars

\* absorb reads the index, unless the call fails.
LEMMA MembersDoes ==
    ASSUME NEW r \in Replica, RingTypeOK, Members(r)
    PROVE  /\ Own(r) /\ entry' = entry /\ index' = index /\ valid' = valid
           /\ step[r] = "members" /\ step'[r] = "absorb"
           /\ file'[r] = file[r] /\ ring'[r] = ring[r] /\ signer'[r] = signer[r]
           /\ active'[r] = active[r] /\ published'[r] = published[r] /\ at'[r] = at[r]
           /\ key'[r] = key[r] /\ guess'[r] = guess[r] /\ fresh'[r] = fresh[r]
           /\ \E ok \in BOOLEAN :
                 Answer(ok) /\ (ok => left'[r] = index \ Entries(r)) /\ (~ok => left'[r] = {})
BY DEF RingTypeOK, Members, Own, Untouched, world, storeVars, ringVars

\* One entry of the index is read, unless the call fails.
LEMMA AbsorbDoes ==
    ASSUME NEW r \in Replica, RingTypeOK, Absorb(r)
    PROVE  /\ Own(r) /\ entry' = entry /\ index' = index /\ valid' = valid
           /\ step[r] = "absorb" /\ step'[r] = "absorb"
           /\ file'[r] = file[r] /\ signer'[r] = signer[r]
           /\ active'[r] = active[r] /\ published'[r] = published[r] /\ at'[r] = at[r]
           /\ key'[r] = key[r] /\ guess'[r] = guess[r] /\ fresh'[r] = fresh[r]
           /\ \E k \in left[r], ok \in BOOLEAN :
                 /\ Answer(ok) /\ left'[r] = left[r] \ {k}
                 /\ ok => ring'[r] = [ring[r] EXCEPT ![k] = entry[k]]
                 /\ ~ok => ring'[r] = ring[r]
BY DEF RingTypeOK, Absorb, Own, Untouched, world, storeVars, ringVars

\* refresh starts over every entry.
LEMMA StartRefreshDoes ==
    ASSUME NEW r \in Replica, RingTypeOK, StartRefresh(r)
    PROVE  /\ Own(r) /\ mishaps' = mishaps /\ entry' = entry /\ index' = index /\ valid' = valid
           /\ step[r] = "absorb" /\ step'[r] = "refresh" /\ left[r] = {} /\ left'[r] = Entries(r)
           /\ file'[r] = file[r] /\ ring'[r] = ring[r] /\ signer'[r] = signer[r]
           /\ active'[r] = active[r] /\ published'[r] = published[r] /\ at'[r] = at[r]
           /\ key'[r] = key[r] /\ guess'[r] = guess[r] /\ fresh'[r] = fresh[r]
BY DEF RingTypeOK, StartRefresh, Own, Untouched, world, storeVars, ringVars

\* One entry is written again, unless the call fails.
LEMMA RefreshSetDoes ==
    ASSUME NEW r \in Replica, RingTypeOK, RefreshSet(r)
    PROVE  /\ Own(r) /\ index' = index /\ valid' = valid
           /\ step[r] = "refresh" /\ step'[r] = "refreshAdd"
           /\ file'[r] = file[r] /\ ring'[r] = ring[r] /\ signer'[r] = signer[r]
           /\ active'[r] = active[r] /\ published'[r] = published[r] /\ at'[r] = at[r]
           /\ guess'[r] = guess[r] /\ left'[r] = left[r] /\ fresh'[r] = fresh[r]
           /\ \E k \in left[r], ok \in BOOLEAN :
                 /\ Answer(ok) /\ key'[r] = k
                 /\ ok => entry' = [entry EXCEPT ![k] = ring[r][k]]
                 /\ ~ok => entry' = entry
BY DEF RingTypeOK, RefreshSet, Own, Untouched, world, storeVars, ringVars

\* ... and added to the index again.
LEMMA RefreshAddDoes ==
    ASSUME NEW r \in Replica, RingTypeOK, RefreshAdd(r)
    PROVE  /\ Own(r) /\ entry' = entry /\ valid' = valid
           /\ step[r] = "refreshAdd" /\ step'[r] = "refresh" /\ left'[r] = left[r] \ {key[r]}
           /\ file'[r] = file[r] /\ ring'[r] = ring[r] /\ signer'[r] = signer[r]
           /\ active'[r] = active[r] /\ published'[r] = published[r] /\ at'[r] = at[r]
           /\ key'[r] = key[r] /\ guess'[r] = guess[r] /\ fresh'[r] = fresh[r]
           /\ \E ok \in BOOLEAN :
                 Answer(ok) /\ (ok => index' = index \cup {key[r]}) /\ (~ok => index' = index)
BY DEF RingTypeOK, RefreshAdd, Own, Untouched, world, storeVars, ringVars

\* A retired key's record is deleted, unless the call fails.
LEMMA DeleteKeyDoes ==
    ASSUME NEW r \in Replica, RingTypeOK, DeleteKey(r)
    PROVE  /\ Own(r) /\ index' = index /\ valid' = valid
           /\ step[r] = "retire" /\ step'[r] = "remove"
           /\ file'[r] = file[r] /\ ring'[r] = ring[r] /\ signer'[r] = signer[r]
           /\ active'[r] = active[r] /\ published'[r] = published[r] /\ at'[r] = at[r]
           /\ guess'[r] = guess[r] /\ left'[r] = left[r] /\ fresh'[r] = fresh[r]
           /\ \E k \in left[r], ok \in BOOLEAN :
                 /\ Answer(ok) /\ key'[r] = k
                 /\ ok => entry' = [entry EXCEPT ![k] = 0]
                 /\ ~ok => entry' = entry
BY DEF RingTypeOK, DeleteKey, Own, Untouched, world, storeVars, ringVars

\* ... and its id removed from the index.
LEMMA RemoveKeyDoes ==
    ASSUME NEW r \in Replica, RingTypeOK, RemoveKey(r)
    PROVE  /\ Own(r) /\ entry' = entry /\ valid' = valid
           /\ step[r] = "remove" /\ step'[r] = "retire" /\ left'[r] = left[r] \ {key[r]}
           /\ file'[r] = file[r] /\ ring'[r] = ring[r] /\ signer'[r] = signer[r]
           /\ active'[r] = active[r] /\ published'[r] = published[r] /\ at'[r] = at[r]
           /\ key'[r] = key[r] /\ guess'[r] = guess[r] /\ fresh'[r] = fresh[r]
           /\ \E ok \in BOOLEAN :
                 Answer(ok) /\ (ok => index' = index \ {key[r]}) /\ (~ok => index' = index)
BY DEF RingTypeOK, RemoveKey, Own, Untouched, world, storeVars, ringVars

\* Observe returns, and the replica is configured.
LEMMA FinishDoes ==
    ASSUME NEW r \in Replica, RingTypeOK, Finish(r)
    PROVE  /\ Own(r) /\ mishaps' = mishaps /\ entry' = entry /\ index' = index /\ valid' = valid
           /\ step[r] = "retire" /\ step'[r] = "idle" /\ left[r] = {} /\ ~fresh'[r]
           /\ file'[r] = file[r] /\ ring'[r] = ring[r] /\ signer'[r] = signer[r]
           /\ active'[r] = active[r] /\ published'[r] = published[r] /\ at'[r] = at[r]
           /\ key'[r] = key[r] /\ guess'[r] = guess[r] /\ left'[r] = left[r]
BY DEF RingTypeOK, Finish, Own, Untouched, world, storeVars, ringVars

\* A replica dies, and its ring with it.
LEMMA CrashDoes ==
    ASSUME NEW r \in Replica, RingTypeOK, Crash(r)
    PROVE  /\ Own(r) /\ entry' = entry /\ index' = index /\ valid' = valid
           /\ step[r] # "down" /\ step'[r] = "down"
           /\ mishaps' = [mishaps EXCEPT !.died = @ + 1] /\ mishaps.died < MaxDeaths
           /\ file'[r] = file[r] /\ at'[r] = at[r] /\ key'[r] = key[r] /\ guess'[r] = guess[r]
           /\ ring'[r] = [k \in Key |-> 0] /\ signer'[r] = {} /\ active'[r] = 0
           /\ published'[r] = {} /\ left'[r] = {} /\ fresh'[r]
BY DEF RingTypeOK, Crash, Own, Untouched, world, storeVars, ringVars

\* Another starts with the file that is there.
LEMMA BootDoes ==
    ASSUME NEW r \in Replica, RingTypeOK, Boot(r)
    PROVE  /\ Own(r) /\ mishaps' = mishaps /\ entry' = entry /\ index' = index /\ valid' = valid
           /\ step[r] = "down" /\ step'[r] = "first"
           /\ file'[r] = file[r] /\ at'[r] = now /\ key'[r] = file[r]
           /\ ring'[r] = ring[r] /\ signer'[r] = signer[r]
           /\ active'[r] = active[r] /\ published'[r] = published[r]
           /\ guess'[r] = guess[r] /\ left'[r] = left[r] /\ fresh'[r] = fresh[r]
BY DEF RingTypeOK, Boot, Own, Untouched, world, storeVars, ringVars

\* A mounted file catches up.
LEMMA SyncFileDoes ==
    ASSUME NEW r \in Replica, RingTypeOK, SyncFile(r)
    PROVE  /\ Own(r) /\ mishaps' = mishaps /\ entry' = entry /\ index' = index /\ valid' = valid
           /\ file'[r] = secret /\ step'[r] = step[r] /\ at'[r] = at[r] /\ key'[r] = key[r]
           /\ ring'[r] = ring[r] /\ signer'[r] = signer[r]
           /\ active'[r] = active[r] /\ published'[r] = published[r]
           /\ guess'[r] = guess[r] /\ left'[r] = left[r] /\ fresh'[r] = fresh[r]
BY DEF RingTypeOK, SyncFile, Own, Untouched, world, storeVars, ringVars

\* Recompute with some order of the entries that activate together.
Recomputed(r, last, gone) ==
    /\ active' = [active EXCEPT ![r] = IF last = {} THEN 0 ELSE CHOOSE k \in last : TRUE]
    /\ published' = [published EXCEPT ![r] = Entries(r) \ gone]
    /\ ring' = [ring EXCEPT ![r] = [k \in Key |-> IF k \in gone THEN 0 ELSE @[k]]]
    /\ signer' = [signer EXCEPT ![r] = @ \ gone]
    /\ left' = [left EXCEPT ![r] = gone]

\* recompute sorts the entries some way.
LEMMA RecomputePicks ==
    ASSUME NEW r \in Replica, Recompute(r)
    PROVE  /\ step[r] = "refresh" /\ left[r] = {} /\ step' = [step EXCEPT ![r] = "retire"]
           /\ UNCHANGED <<world, mishaps, storeVars, at, key, guess, fresh>>
           /\ \E last \in SUBSET Activated(r), tie \in Ties :
                 /\ last = {k \in Activated(r) : \A j \in Activated(r) : ~Before(r, tie, k, j)}
                 /\ Recomputed(r, last, Retired(r, tie))
<1>1. PICK tie \in Ties :
         LET last == {k \in Activated(r) : \A j \in Activated(r) : ~Before(r, tie, k, j)}
             gone == Retired(r, tie) IN
         /\ active' = [active EXCEPT ![r] = IF last = {} THEN 0 ELSE CHOOSE k \in last : TRUE]
         /\ published' = [published EXCEPT ![r] = Entries(r) \ gone]
         /\ ring' = [ring EXCEPT ![r] = [k \in Key |-> IF k \in gone THEN 0 ELSE @[k]]]
         /\ signer' = [signer EXCEPT ![r] = @ \ gone]
         /\ left' = [left EXCEPT ![r] = gone]
  BY DEF Recompute
<1> DEFINE last == {k \in Activated(r) : \A j \in Activated(r) : ~Before(r, tie, k, j)}
<1>2. Recomputed(r, last, Retired(r, tie))
  BY <1>1 DEF Recomputed
<1>3. last \in SUBSET Activated(r)
  OBVIOUS
<1>4. QED
  BY <1>2, <1>3, Zenon DEF Recompute

\* The newest activated key signs; the first retires an overlap after it.
LEMMA RecomputeDoes ==
    ASSUME NEW r \in Replica, RingTypeOK, Timings, Recompute(r),
           ring[r][1] # 0 /\ ring[r][2] # 0 => ring[r][1] < ring[r][2]
    PROVE  /\ Own(r) /\ mishaps' = mishaps /\ entry' = entry /\ index' = index /\ valid' = valid
           /\ step[r] = "refresh" /\ step'[r] = "retire" /\ left[r] = {}
           /\ file'[r] = file[r] /\ at'[r] = at[r] /\ key'[r] = key[r]
           /\ guess'[r] = guess[r] /\ fresh'[r] = fresh[r]
           /\ published'[r] = Entries(r) \ left'[r]
           /\ ring'[r] = [k \in Key |-> IF k \in left'[r] THEN 0 ELSE ring[r][k]]
           /\ signer'[r] = signer[r] \ left'[r]
           /\ left'[r] \subseteq {1}
           /\ left'[r] # {} =>
                /\ ring[r][2] # 0 /\ ring[r][2] <= at[r]
                /\ fresh[r] => at[r] > ring[r][2] + BootOverlap
                /\ ~fresh[r] => at[r] > ring[r][2] + Overlap
           /\ active'[r] = 1 => ring[r][2] = 0 \/ at[r] < ring[r][2]
           /\ active'[r] = 2 => ring[r][2] # 0 /\ ring[r][2] <= at[r]
<1>1. PICK last \in SUBSET Activated(r), tie \in Ties :
         /\ last = {k \in Activated(r) : \A j \in Activated(r) : ~Before(r, tie, k, j)}
         /\ Recomputed(r, last, Retired(r, tie))
  BY RecomputePicks
<1> DEFINE gone == Retired(r, tie)
<1>2. /\ Own(r) /\ mishaps' = mishaps /\ entry' = entry /\ index' = index /\ valid' = valid
      /\ step[r] = "refresh" /\ step'[r] = "retire" /\ left[r] = {}
      /\ file'[r] = file[r] /\ at'[r] = at[r] /\ key'[r] = key[r]
      /\ guess'[r] = guess[r] /\ fresh'[r] = fresh[r]
  <2> HIDE DEF gone
  <2>1. Recomputed(r, last, gone)
    BY <1>1 DEF gone
  <2>2. PICK a, p, e, g :
           /\ active' = [active EXCEPT ![r] = a] /\ published' = [published EXCEPT ![r] = p]
           /\ ring' = [ring EXCEPT ![r] = e] /\ signer' = [signer EXCEPT ![r] = g]
           /\ left' = [left EXCEPT ![r] = gone]
    BY <2>1 DEF Recomputed
  <2>3. /\ step[r] = "refresh" /\ left[r] = {} /\ step' = [step EXCEPT ![r] = "retire"]
        /\ UNCHANGED <<world, mishaps, storeVars, at, key, guess, fresh>>
    BY RecomputePicks
  <2>4. \A s \in Replica \ {r} : Untouched(s)
    BY <2>2, <2>3 DEF RingTypeOK, Untouched, world
  <2>5. QED
    BY <2>3, <2>4 DEF RingTypeOK, Own, world, storeVars
<1>3. /\ left'[r] = gone /\ published'[r] = Entries(r) \ gone
      /\ ring'[r] = [k \in Key |-> IF k \in gone THEN 0 ELSE ring[r][k]]
      /\ signer'[r] = signer[r] \ gone
      /\ active'[r] = IF last = {} THEN 0 ELSE CHOOSE k \in last : TRUE
  <2> HIDE DEF gone
  <2>1. Recomputed(r, last, gone)
    BY <1>1 DEF gone
  <2>2. QED
    BY <2>1 DEF RingTypeOK, Recomputed
<1>4. Key = {1, 2} /\ ring[r][1] \in Nat /\ ring[r][2] \in Nat
  BY TwoKeys DEF RingTypeOK
<1>5. \A k \in Key : ~Before(r, tie, k, k)
  <2>1. \A k \in Key : ring[r][k] \in Nat /\ tie[k] \in Nat
    BY <1>4 DEF Ties
  <2>2. QED
    BY <2>1 DEF Before
<1>6. 1 \in Activated(r) /\ 2 \in Activated(r) => Before(r, tie, 1, 2) /\ ~Before(r, tie, 2, 1)
  BY <1>4 DEF Activated, Before
<1>7. Activated(r) \subseteq {1, 2} /\ (2 \in Activated(r) <=> ring[r][2] # 0 /\ ring[r][2] <= at[r])
  BY <1>4 DEF Activated
<1>8. gone \subseteq {1}
  <2>1. ASSUME 2 \in gone PROVE FALSE
    <3>1. 2 \in Activated(r) /\ \E k \in Activated(r) : Before(r, tie, 2, k)
      BY <2>1 DEF Retired
    <3>2. QED
      BY <3>1, <1>4, <1>5, <1>6, <1>7
  <2>2. gone \subseteq Activated(r)
    BY DEF Retired
  <2>3. QED
    BY <2>1, <2>2, <1>7
<1>9. gone # {} =>
        /\ ring[r][2] # 0 /\ ring[r][2] <= at[r]
        /\ fresh[r] => at[r] > ring[r][2] + BootOverlap
        /\ ~fresh[r] => at[r] > ring[r][2] + Overlap
  <2>1. SUFFICES ASSUME 1 \in gone
                 PROVE  /\ ring[r][2] # 0 /\ ring[r][2] <= at[r]
                        /\ fresh[r] => at[r] > ring[r][2] + BootOverlap
                        /\ ~fresh[r] => at[r] > ring[r][2] + Overlap
    BY <1>8
  <2>2. PICK k \in Activated(r) :
           /\ Before(r, tie, 1, k)
           /\ at[r] > ring[r][k] + (IF fresh[r] THEN BootOverlap ELSE Overlap)
    BY <2>1 DEF Retired
  <2>3. k = 2
    BY <2>2, <1>4, <1>5, <1>7
  <2>4. QED
    BY <2>2, <2>3, <1>7
<1>10. /\ active'[r] = 1 => 2 \notin Activated(r)
       /\ active'[r] = 2 => 2 \in Activated(r)
  <2>1. active'[r] \in last \/ active'[r] = 0
    BY <1>3
  <2>2. 1 \in last => 2 \notin Activated(r)
    BY <1>1, <1>6
  <2>3. QED
    BY <2>1, <2>2, <1>1
<1>11. QED
  <2>1. at[r] \in Nat
    BY DEF RingTypeOK
  <2>2. active'[r] = 1 => ring[r][2] = 0 \/ at[r] < ring[r][2]
    BY <1>10, <1>7, <1>4, <2>1
  <2> HIDE DEF gone
  <2>3. QED
    BY <1>2, <1>3, <1>7, <1>8, <1>9, <1>10, <2>2

----------------------------------------------------------------------------
(* Type correctness.                                                       *)

\* Every step keeps the types.
LEMMA RingTyped ==
    ASSUME RingTypeOK, [RingNext]_allRingVars
    PROVE  RingTypeOK'
<1> USE RingConstants
<1>1. ASSUME NEW r \in Replica, Observe(r) PROVE RingTypeOK'
  <2>1. signer' \in [Replica -> SUBSET Key] /\ step' \in [Replica -> PCs]
    <3>1. CASE /\ signer' = [signer EXCEPT ![r] = @ \cup {file[r]}]
               /\ step' = [step EXCEPT ![r] = "members"]
      BY <3>1 DEF RingTypeOK, PCs
    <3>2. CASE signer' = signer /\ step' = [step EXCEPT ![r] = "first"]
      BY <3>2 DEF RingTypeOK, PCs
    <3>3. QED
      BY <1>1, <3>1, <3>2 DEF Observe
  <2>2. at' \in [Replica -> Nat \ {0}] /\ key' \in [Replica -> Key]
    BY <1>1 DEF RingTypeOK, Observe
  <2>3. QED
    BY <1>1, <2>1, <2>2 DEF RingTypeOK, Observe, world, storeVars
<1>2. ASSUME NEW r \in Replica, FirstKey(r) PROVE RingTypeOK'
  <2>1. PICK ok \in BOOLEAN, g \in Nat : Answer(ok) /\ guess' = [guess EXCEPT ![r] = g]
    <3>1. PICK ok \in BOOLEAN :
             Answer(ok) /\ guess' = [guess EXCEPT ![r] =
                IF (IF ok THEN index = {} ELSE Entries(r) = {}) THEN at[r]
                ELSE at[r] + (IF fresh[r] THEN BootDelay ELSE Delay)]
      BY <1>2 DEF FirstKey
    <3>2. at[r] \in Nat
      BY DEF RingTypeOK
    <3>3. PICK g \in Nat : guess' = [guess EXCEPT ![r] = g]
      BY <3>1, <3>2
    <3>4. QED
      BY <3>1, <3>3
  <2>2. mishaps' \in [failed : 0 .. MaxFailures, died : 0 .. MaxDeaths]
    BY <2>1, AnswerDoes
  <2>3. QED
    BY <1>2, <2>1, <2>2 DEF RingTypeOK, FirstKey, world, storeVars, ringVars, PCs
<1>3. ASSUME NEW r \in Replica, NEW t \in Nat, Adopt(r, t)
      PROVE  /\ ring' \in [Replica -> [Key -> Nat]] /\ signer' \in [Replica -> SUBSET Key]
             /\ guess' \in [Replica -> Nat] /\ step' \in [Replica -> PCs]
  BY <1>3 DEF RingTypeOK, Adopt, PCs
<1>4. ASSUME NEW r \in Replica, Claim(r) PROVE RingTypeOK'
  <2>1. mishaps' \in [failed : 0 .. MaxFailures, died : 0 .. MaxDeaths]
    BY <1>4, AnswerDoes DEF Claim
  <2>2. /\ entry' \in [Key -> Nat]
        /\ ring' \in [Replica -> [Key -> Nat]] /\ signer' \in [Replica -> SUBSET Key]
        /\ guess' \in [Replica -> Nat] /\ step' \in [Replica -> PCs]
    <3>1. guess[r] \in Nat
      BY DEF RingTypeOK
    <3>2. CASE entry' = [entry EXCEPT ![key[r]] = guess[r]] /\ Adopt(r, guess[r])
      <4>1. entry' \in [Key -> Nat]
        BY <3>1, <3>2 DEF RingTypeOK
      <4>2. QED
        BY <1>3, <3>1, <3>2, <4>1
    <3>3. CASE /\ step' = [step EXCEPT ![r] = "read"]
               /\ UNCHANGED <<entry, ring, signer, guess>>
      BY <3>3 DEF RingTypeOK, PCs
    <3>4. CASE entry' = entry /\ Adopt(r, guess[r])
      BY <1>3, <3>1, <3>4 DEF RingTypeOK
    <3>5. QED
      BY <1>4, <3>2, <3>3, <3>4 DEF Claim
  <2>3. QED
    BY <1>4, <2>1, <2>2 DEF RingTypeOK, Claim, world
<1>5. ASSUME NEW r \in Replica, ReadClaim(r) PROVE RingTypeOK'
  <2>1. PICK ok \in BOOLEAN, t \in Nat : Answer(ok) /\ Adopt(r, t)
    BY <1>5 DEF RingTypeOK, ReadClaim
  <2>2. mishaps' \in [failed : 0 .. MaxFailures, died : 0 .. MaxDeaths]
    BY <2>1, AnswerDoes
  <2>3. QED
    BY <1>5, <1>3, <2>1, <2>2 DEF RingTypeOK, ReadClaim, world, storeVars
<1>6. ASSUME NEW r \in Replica, AddKey(r) \/ RefreshAdd(r) \/ RemoveKey(r) PROVE RingTypeOK'
  <2>1. mishaps' \in [failed : 0 .. MaxFailures, died : 0 .. MaxDeaths]
    BY <1>6, AnswerDoes DEF AddKey, RefreshAdd, RemoveKey
  <2>2. index' \subseteq Key
    <3>1. key[r] \in Key /\ index \subseteq Key
      BY DEF RingTypeOK
    <3>2. index' \in {index, index \cup {key[r]}, index \ {key[r]}}
      BY <1>6 DEF AddKey, RefreshAdd, RemoveKey
    <3>3. QED
      BY <3>1, <3>2
  <2>4. step' \in [Replica -> PCs]
    <3>1. PICK place \in PCs : step' = [step EXCEPT ![r] = place]
      BY <1>6 DEF AddKey, RefreshAdd, RemoveKey, PCs
    <3>2. QED
      BY <3>1 DEF RingTypeOK
  <2>5. left' \in [Replica -> SUBSET Key]
    BY <1>6 DEF RingTypeOK, AddKey, RefreshAdd, RemoveKey
  <2>3. QED
    BY <1>6, <2>1, <2>2, <2>4, <2>5 DEF RingTypeOK, AddKey, RefreshAdd, RemoveKey, world, ringVars
<1>7. ASSUME NEW r \in Replica, Members(r) PROVE RingTypeOK'
  <2>1. mishaps' \in [failed : 0 .. MaxFailures, died : 0 .. MaxDeaths]
    BY <1>7, AnswerDoes DEF Members
  <2>2. step' \in [Replica -> PCs] /\ left' \in [Replica -> SUBSET Key]
    BY <1>7 DEF RingTypeOK, Members, PCs
  <2>3. QED
    BY <1>7, <2>1, <2>2 DEF RingTypeOK, Members, world, storeVars, ringVars
<1>8. ASSUME NEW r \in Replica, Absorb(r) PROVE RingTypeOK'
  <2>1. mishaps' \in [failed : 0 .. MaxFailures, died : 0 .. MaxDeaths]
    BY <1>8, AnswerDoes DEF Absorb
  <2>2. ring' \in [Replica -> [Key -> Nat]] /\ left' \in [Replica -> SUBSET Key]
    BY <1>8 DEF RingTypeOK, Absorb
  <2>3. QED
    BY <1>8, <2>1, <2>2 DEF RingTypeOK, Absorb, world, storeVars
<1>9. ASSUME NEW r \in Replica, StartRefresh(r) PROVE RingTypeOK'
  BY <1>9 DEF RingTypeOK, StartRefresh, world, storeVars, ringVars, PCs, Entries
<1>10. ASSUME NEW r \in Replica, RefreshSet(r) \/ DeleteKey(r) PROVE RingTypeOK'
  <2>1. mishaps' \in [failed : 0 .. MaxFailures, died : 0 .. MaxDeaths]
    BY <1>10, AnswerDoes DEF RefreshSet, DeleteKey
  <2>2. entry' \in [Key -> Nat] /\ key' \in [Replica -> Key]
    <3>1. PICK k \in left[r], t \in Nat :
             /\ entry' = [entry EXCEPT ![k] = t] \/ entry' = entry
             /\ key' = [key EXCEPT ![r] = k]
      <4>1. CASE RefreshSet(r)
        <5>1. PICK k \in left[r], ok \in BOOLEAN :
                 /\ entry' = IF ok THEN [entry EXCEPT ![k] = ring[r][k]] ELSE entry
                 /\ key' = [key EXCEPT ![r] = k]
          BY <4>1 DEF RefreshSet
        <5>2. ring[r][k] \in Nat
          BY DEF RingTypeOK
        <5>3. QED
          BY <5>1, <5>2
      <4>2. CASE DeleteKey(r)
        BY <4>2 DEF DeleteKey
      <4>3. QED
        BY <1>10, <4>1, <4>2
    <3>2. k \in Key
      BY DEF RingTypeOK
    <3>3. QED
      BY <3>1, <3>2 DEF RingTypeOK
  <2>4. step' \in [Replica -> PCs]
    <3>1. PICK place \in PCs : step' = [step EXCEPT ![r] = place]
      BY <1>10 DEF RefreshSet, DeleteKey, PCs
    <3>2. QED
      BY <3>1 DEF RingTypeOK
  <2>3. QED
    BY <1>10, <2>1, <2>2, <2>4 DEF RingTypeOK, RefreshSet, DeleteKey, world, ringVars
<1>11. ASSUME NEW r \in Replica, Recompute(r) PROVE RingTypeOK'
  <2>1. PICK last \in SUBSET Activated(r), tie \in Ties : Recomputed(r, last, Retired(r, tie))
    BY <1>11, RecomputePicks
  <2>2. /\ step[r] = "refresh" /\ left[r] = {} /\ step' = [step EXCEPT ![r] = "retire"]
        /\ UNCHANGED <<world, mishaps, storeVars, at, key, guess, fresh>>
    BY <1>11, RecomputePicks
  <2>3. Retired(r, tie) \in SUBSET Key /\ last \in SUBSET Key
    BY DEF Retired, Activated
  <2> DEFINE gone == Retired(r, tie)
  <2>4. Recomputed(r, last, gone) /\ gone \in SUBSET Key
    BY <2>1, <2>3
  <2> HIDE DEF gone
  <2>5. PICK a \in 0 .. NKeys : active' = [active EXCEPT ![r] = a]
    <3>1. (IF last = {} THEN 0 ELSE CHOOSE k \in last : TRUE) \in 0 .. NKeys
      <4>1. CASE last = {}
        BY <4>1
      <4>2. CASE last # {}
        <5>1. (CHOOSE k \in last : TRUE) \in last
          BY <4>2
        <5>2. \A k \in Key : k \in 0 .. NKeys
          BY DEF Key
        <5>3. QED
          BY <4>2, <5>1, <5>2, <2>3, Zenon
      <4>3. QED
        BY <4>1, <4>2
    <3>2. QED
      BY <3>1, <2>4 DEF Recomputed
  <2>6. /\ published' \in [Replica -> SUBSET Key] /\ signer' \in [Replica -> SUBSET Key]
        /\ left' \in [Replica -> SUBSET Key]
    BY <2>4 DEF RingTypeOK, Recomputed, Entries
  <2>7. ring' \in [Replica -> [Key -> Nat]]
    BY <2>4 DEF RingTypeOK, Recomputed
  <2>8. QED
    BY <2>2, <2>5, <2>6, <2>7 DEF RingTypeOK, PCs, world, storeVars
<1>12. ASSUME NEW r \in Replica, Finish(r) PROVE RingTypeOK'
  BY <1>12 DEF RingTypeOK, Finish, world, storeVars, ringVars, PCs
<1>13. ASSUME NEW r \in Replica, Sign(r) PROVE RingTypeOK'
  <2>1. PICK k \in Signs(r) : valid' = [valid EXCEPT ![k] = TokenLife]
    BY <1>13 DEF Sign
  <2>2. valid' \in [Key -> 0 .. TokenLife]
    <3>1. valid \in [Key -> 0 .. TokenLife] /\ TokenLife \in 0 .. TokenLife
      BY DEF RingTypeOK
    <3>2. QED
      BY <2>1, <3>1
  <2>3. QED
    BY <1>13, <2>2 DEF RingTypeOK, Sign, storeVars, ringVars
<1>14. ASSUME NEW r \in Replica, Crash(r) PROVE RingTypeOK'
  <2>1. mishaps' \in [failed : 0 .. MaxFailures, died : 0 .. MaxDeaths]
    BY <1>14 DEF RingTypeOK, Crash
  <2>2. QED
    BY <1>14, <2>1 DEF RingTypeOK, Crash, storeVars, PCs
<1>15. ASSUME NEW r \in Replica, Boot(r) PROVE RingTypeOK'
  BY <1>15 DEF RingTypeOK, Boot, world, storeVars, ringVars, PCs
<1>16. ASSUME NEW r \in Replica, SyncFile(r) PROVE RingTypeOK'
  BY <1>16 DEF RingTypeOK, SyncFile, storeVars, ringVars
<1>17. CASE Rotate
  <2>1. secret' \in Key
    BY <1>17 DEF RingTypeOK, Rotate, Key
  <2>2. QED
    BY <1>17, <2>1 DEF RingTypeOK, Rotate, storeVars, ringVars
<1>18. CASE Tick
  <2>1. valid' \in [Key -> 0 .. TokenLife]
    <3>1. \A k \in Key : valid[k] \in 0 .. TokenLife
      BY DEF RingTypeOK
    <3>2. \A k \in Key : (IF valid[k] = 0 THEN 0 ELSE valid[k] - 1) \in 0 .. TokenLife
      BY <3>1
    <3>3. QED
      BY <1>18, <3>2 DEF Tick
  <2>2. QED
    BY <1>18, <2>1 DEF RingTypeOK, Tick, storeVars, ringVars
<1>19. CASE UNCHANGED allRingVars
  BY <1>19 DEF RingTypeOK, allRingVars, world, storeVars, ringVars
<1>20. QED
  BY <1>1, <1>2, <1>4, <1>5, <1>6, <1>7, <1>8, <1>9, <1>10, <1>11, <1>12, <1>13, <1>14,
     <1>15, <1>16, <1>17, <1>18, <1>19 DEF RingNext, ObserveStep

\* The values of the rings, of the store and of the clock have their types,
\* for any number of keys and whatever the timings.
THEOREM RingTypeCorrect == RingSpec => []RingTypeOK
<1>1. RingInit => RingTypeOK
  BY RingConstants DEF RingInit, RingTypeOK, PCs, Key
<1>2. QED
  BY <1>1, RingTyped, PTL DEF RingSpec

----------------------------------------------------------------------------
(* Frames, and what the parts of the invariant say together.               *)

\* The types of what a replica reads, one value at a time.
LEMMA RingSizes ==
    ASSUME RingTypeOK, Timings, NEW r \in Replica
    PROVE  /\ now \in Nat /\ 1 <= now /\ issued \in Nat /\ 1 <= issued /\ secret \in {1, 2}
           /\ entry \in [Key -> Nat] /\ entry[1] \in Nat /\ entry[2] \in Nat
           /\ index \subseteq {1, 2}
           /\ valid[1] \in Nat /\ valid[1] <= TokenLife /\ valid[2] \in Nat
           /\ ring[r] \in [Key -> Nat] /\ ring[r][1] \in Nat /\ ring[r][2] \in Nat
           /\ at[r] \in Nat /\ 1 <= at[r] /\ guess[r] \in Nat
           /\ key[r] \in {1, 2} /\ file[r] \in {1, 2}
           /\ left[r] \subseteq {1, 2} /\ signer[r] \subseteq {1, 2}
           /\ fresh[r] \in BOOLEAN
BY TwoKeys, RingConstants DEF RingTypeOK

\* The ring of a replica, by its two entries.
LEMMA EntriesAre ==
    ASSUME Timings, NEW r \in Replica
    PROVE  /\ Entries(r) \subseteq {1, 2}
           /\ 1 \in Entries(r) <=> ring[r][1] # 0
           /\ 2 \in Entries(r) <=> ring[r][2] # 0
           /\ Entries(r) = {} <=> ring[r][1] = 0 /\ ring[r][2] = 0
BY TwoKeys DEF Entries

\* A replica that no step touches keeps what holds of it.
LEMMA LocalKept ==
    ASSUME NEW s \in Replica, Untouched(s), now' = now, secret' = secret, issued' = issued
    PROVE  /\ Local(s) => Local(s)'
           /\ Uninterrupted(s) => Uninterrupted(s)'
<1>1. /\ \A k : Pending(s, k)' <=> Pending(s, k)
      /\ \A k : Guessed(s, k)' <=> Guessed(s, k)
      /\ Decided(s)' <=> Decided(s)
  BY DEF Untouched, Pending, Guessed, Decided
<1>2. Entries(s)' = Entries(s)
  BY DEF Untouched, Entries
<1>3. Clocked(s) => Clocked(s)'
  BY DEF Untouched, Clocked
<1>4. Alone(s) => Alone(s)'
  BY <1>1 DEF Untouched, Alone
<1>5. Held(s) => Held(s)'
  BY <1>1, <1>2 DEF Untouched, Held
<1>6. Seen(s) => Seen(s)'
  BY <1>1 DEF Untouched, Seen
<1>7. Waits(s) => Waits(s)'
  BY <1>1 DEF Untouched, Waits
<1>8. Computed(s) => Computed(s)'
  BY <1>1, <1>2 DEF Untouched, Computed
<1>9. Retirable' <=> Retirable
  BY DEF Retirable
<1>10. \A t : Scheduled(t)' <=> Scheduled(t)
  BY DEF Scheduled
<1>11. Uninterrupted(s) => Uninterrupted(s)'
  BY <1>1, <1>9, <1>10 DEF Untouched, Uninterrupted
<1>12. QED
  BY <1>3, <1>4, <1>5, <1>6, <1>7, <1>8, <1>11 DEF Local

\* What RingInv says of one replica.
LEMMA RingInvAt ==
    ASSUME RingInv, NEW r \in Replica
    PROVE  /\ Clocked(r) /\ Alone(r) /\ Held(r) /\ Seen(r) /\ Waits(r) /\ Computed(r)
           /\ mishaps.died = 0 => Uninterrupted(r)
           /\ mishaps.failed = 0 => Recorded(r)
BY DEF RingInv, Local

\* The first key activates before the second, at every replica.
LEMMA FirstBeforeSecond ==
    ASSUME RingTypeOK, RingInv, Timings, NEW r \in Replica
    PROVE  ring[r][1] # 0 /\ ring[r][2] # 0 => ring[r][1] < ring[r][2]
<1>1. CASE mishaps.died = 0
  BY <1>1, RingInvAt, RingSizes, RingConstants DEF Uninterrupted, Scheduled, Timings
<1>2. CASE mishaps.failed = 0
  <2>1. ring[r][2] # 0 => secret = 2
    BY RingInvAt, RingSizes DEF Alone
  <2>2. ring[r][1] <= FirstBound
    BY <1>2, RingInvAt DEF Recorded
  <2>3. QED
    BY <2>1, <2>2, RingInvAt, RingSizes, RingConstants DEF FirstBound, Waits, Timings
<1>3. QED
  BY <1>1, <1>2 DEF RingInv

\* The second key is later than the last replica's reading of it.
LEMMA SecondIsLate ==
    ASSUME RingTypeOK, RingInv, Timings, NEW r \in Replica,
           ring[r][2] # 0, ring[r][2] <= at[r], NEW s \in Replica, step[r] # "down", step[s] # "down"
    PROVE  secret = 2 /\ at[s] > issued + Sync
<1>1. secret = 2
  BY RingInvAt, RingSizes DEF Alone
<1>2. /\ at[r] \in Nat /\ at[s] \in Nat /\ now \in Nat /\ issued \in Nat /\ ring[r][2] \in Nat
  BY RingSizes
<1>3. at[r] <= now /\ now <= at[s] + Poll /\ issued + BootDelay <= ring[r][2]
  BY RingInvAt DEF Clocked, Waits
<1>4. QED
  BY <1>1, <1>2, <1>3, RingConstants DEF Timings

\* While a replica may still adopt the first key, nobody retires it.
LEMMA PendingIsEarly ==
    ASSUME RingTypeOK, RingInv, Timings, NEW r \in Replica, Pending(r, 1)
    PROVE  ~Over /\ (secret = 2 => now <= issued + Sync + Poll)
<1>1. step[r] # "down"
  BY DEF Pending
<1>2. secret = 2 => now <= issued + Sync + Poll
  <2>1. now <= at[r] + Poll /\ (secret = 2 => at[r] <= issued + Sync)
    BY <1>1, RingInvAt DEF Clocked, Waits
  <2>2. QED
    BY <2>1, RingSizes, RingConstants
<1>3. ~Over
  <2>1. entry[2] # 0 => secret = 2 /\ issued + BootDelay <= entry[2]
    BY RingSizes DEF RingInv, StoreSound
  <2>2. QED
    BY <1>2, <2>1, RingSizes, RingConstants DEF Over, Timings
<1>4. QED
  BY <1>2, <1>3

\* What a step must show: the others are kept by LocalKept.
LEMMA RingInvKept ==
    ASSUME RingInv, NEW r \in Replica, Own(r),
           mishaps'.failed = 0 \/ mishaps'.died = 0,
           StoreSound', Local(r)',
           mishaps'.died = 0 => mishaps.died = 0 /\ StoreLags' /\ Uninterrupted(r)',
           mishaps'.failed = 0 => mishaps.failed = 0 /\ StoreKeeps' /\ \A s \in Replica : Recorded(s)'
    PROVE  RingInv'
<1>1. now' = now /\ secret' = secret /\ issued' = issued /\ \A s \in Replica \ {r} : Untouched(s)
  BY DEF Own
<1>2. \A s \in Replica : Local(s)'
  BY <1>1, LocalKept DEF RingInv
<1>3. mishaps'.died = 0 => \A s \in Replica : Uninterrupted(s)'
  BY <1>1, LocalKept DEF RingInv
<1>4. QED
  BY <1>2, <1>3 DEF RingInv

\* A record that only grows, or loses the first key once it is over, keeps
\* what it holds of a replica the step did not touch.
LEMMA RecordedKept ==
    ASSUME RingTypeOK, RingInv, Timings, NEW s \in Replica, Untouched(s), Recorded(s),
           now' = now, secret' = secret, issued' = issued,
           entry[2] # 0 => entry'[2] = entry[2],
           2 \in index => 2 \in index',
           entry[1] # 0 => entry'[1] # 0 \/ Over
    PROVE  Recorded(s)'
<1>1. /\ FirstBound' = FirstBound /\ (Over => Over') /\ (Decided(s)' <=> Decided(s))
  BY DEF FirstBound, Over, Untouched, Decided
<1>2. step[s] \in {"claim", "read"} /\ key[s] = 1 => ~Over
  BY PendingIsEarly DEF Pending
<1>3. key[s] \in {1, 2} /\ key'[s] = key[s] /\ step'[s] = step[s] /\ guess'[s] = guess[s]
      /\ ring'[s] = ring[s] /\ left'[s] = left[s]
  BY RingSizes DEF Untouched
<1>4. step'[s] = "read" => entry'[key'[s]] # 0
  BY <1>2, <1>3, RingSizes DEF Recorded
<1>5. step'[s] = "claim" /\ key'[s] = 1 => entry'[1] # 0 \/ guess'[s] <= FirstBound'
  BY <1>1, <1>2, <1>3 DEF Recorded
<1>6. /\ ring'[s][2] # 0 => entry'[2] = ring'[s][2]
      /\ ring'[s][2] # 0 => 2 \in index' \/ (step'[s] = "add" /\ key'[s] = 2)
      /\ ring'[s][1] <= FirstBound'
      /\ ring'[s][1] # 0 => entry'[1] # 0 \/ Over'
  BY <1>1, <1>3 DEF Recorded
<1>7. /\ secret' = 2 /\ ring'[s][1] = 0 =>
           /\ step'[s] = "absorb" => Over' \/ 1 \in left'[s]
           /\ step'[s] \in {"refresh", "refreshAdd"} \/ Decided(s)' => Over'
      /\ Decided(s)' /\ left'[s] # {} => Over'
      /\ step'[s] = "absorb" /\ 2 \in left'[s] => 2 \in index'
  BY <1>1, <1>3 DEF Recorded
<1>8. QED
  BY <1>4, <1>5, <1>6, <1>7 DEF Recorded


\* A step that leaves the store alone keeps what holds of it.
LEMMA StoreKept ==
    ASSUME now' = now, secret' = secret, issued' = issued,
           entry' = entry, index' = index, valid' = valid
    PROVE  /\ StoreLags => StoreLags'
           /\ StoreKeeps => StoreKeeps'
           /\ Over' <=> Over
           /\ FirstBound' = FirstBound
           /\ Retirable' <=> Retirable
           /\ \A t : Scheduled(t)' <=> Scheduled(t)
<1>1. /\ Over' <=> Over
      /\ FirstBound' = FirstBound
      /\ Retirable' <=> Retirable
      /\ \A t : Scheduled(t)' <=> Scheduled(t)
  BY DEF Over, FirstBound, Retirable, Scheduled
<1>2. StoreLags => StoreLags'
  BY <1>1 DEF StoreLags
<1>3. StoreKeeps => StoreKeeps'
  BY <1>1 DEF StoreKeeps
<1>4. QED
  BY <1>1, <1>2, <1>3

\* What a step that leaves the store alone must show.
LEMMA OwnStepKeeps ==
    ASSUME RingTypeOK, RingInv, Timings, NEW r \in Replica, Own(r),
           entry' = entry, index' = index, valid' = valid,
           mishaps'.failed = 0 \/ mishaps'.died = 0,
           ring[r][2] # 0 => ring'[r][2] # 0 \/ entry[2] # 0,
           Local(r)',
           mishaps'.died = 0 => mishaps.died = 0 /\ Uninterrupted(r)',
           mishaps'.failed = 0 => mishaps.failed = 0 /\ Recorded(r)'
    PROVE  RingInv'
<1>1. now' = now /\ secret' = secret /\ issued' = issued /\ \A s \in Replica \ {r} : Untouched(s)
  BY DEF Own
<1>2. mishaps'.died = 0 => StoreLags'
  BY <1>1, StoreKept DEF RingInv
<1>3. mishaps'.failed = 0 => StoreKeeps'
  BY <1>1, StoreKept DEF RingInv
<1>4. \A s \in Replica \ {r} : mishaps'.failed = 0 => Recorded(s)'
  BY <1>1, RecordedKept, RingInvAt
<1>5. valid'[2] > 0 => entry'[2] # 0 \/ \E s \in Replica : ring'[s][2] # 0
  <2>1. ASSUME valid[2] > 0, entry[2] = 0
        PROVE  \E s \in Replica : ring'[s][2] # 0
    <3>1. PICK s \in Replica : ring[s][2] # 0
      BY <2>1 DEF RingInv, StoreSound
    <3>2. CASE s = r
      BY <2>1, <3>1, <3>2
    <3>3. CASE s # r
      BY <1>1, <3>1, <3>3 DEF Untouched
    <3>4. QED
      BY <3>2, <3>3
  <2>2. QED
    BY <2>1
<1>6. StoreSound'
  BY <1>1, <1>5 DEF RingInv, StoreSound
<1>7. QED
  BY <1>2, <1>3, <1>4, <1>6, RingInvKept

\* A key read from the file is read within a poll of the lag.
LEMMA ObserveKeeps ==
    ASSUME RingTypeOK, RingInv, Timings, NEW r \in Replica, Observe(r)
    PROVE  RingInv'
<1>1. /\ Own(r) /\ mishaps' = mishaps /\ entry' = entry /\ index' = index /\ valid' = valid
      /\ step[r] = "idle" /\ (at[r] < now \/ now = MaxTime)
      /\ file'[r] = file[r] /\ ring'[r] = ring[r] /\ active'[r] = active[r]
      /\ published'[r] = published[r] /\ guess'[r] = guess[r]
      /\ left'[r] = left[r] /\ fresh'[r] = fresh[r]
      /\ at'[r] = now /\ key'[r] = file[r]
      /\ \/ /\ file[r] \in Entries(r)
            /\ signer'[r] = signer[r] \cup {file[r]} /\ step'[r] = "members"
         \/ /\ file[r] \notin Entries(r)
            /\ signer'[r] = signer[r] /\ step'[r] = "first"
  BY ObserveDoes
<1>2. now' = now /\ secret' = secret /\ issued' = issued
  BY <1>1 DEF Own
<1>3. Entries(r)' = Entries(r)
  BY <1>1 DEF Entries
<1>4. Clocked(r)'
  BY <1>1, <1>2, RingInvAt, RingSizes, RingConstants DEF Clocked
<1>5. Alone(r)'
  BY <1>1, <1>2, RingInvAt DEF Alone, Pending
<1>6. Held(r)'
  BY <1>1, <1>2, <1>3, RingInvAt, RingSizes, EntriesAre DEF Held, Pending
<1>7. Seen(r)'
  BY <1>1, <1>2, RingInvAt, RingSizes, RingConstants DEF Seen, Pending, Clocked
<1>8. Waits(r)'
  BY <1>1, <1>2, RingInvAt, RingSizes, RingConstants DEF Waits, Pending, Guessed, Clocked, RingInv, StoreSound
<1>9. Computed(r)'
  BY <1>1, <1>2 DEF Computed, Decided
<1>10. ASSUME mishaps.died = 0 PROVE Uninterrupted(r)'
  <2>1. Uninterrupted(r)
    BY <1>10, RingInvAt
  <2>2. /\ Retirable' <=> Retirable
        /\ \A t : Scheduled(t)' <=> Scheduled(t)
    BY <1>1, <1>2, StoreKept
  <2>3. ~fresh[r] /\ ~fresh'[r]
    BY <1>1, RingInvAt DEF Computed
  <2>4. ASSUME Pending(r, 1)' PROVE FALSE
    <3>1. file[r] = 1 /\ ring[r][1] = 0
      BY <2>4, <1>1, EntriesAre DEF Pending
    <3>2. Retirable
      BY <3>1, <2>1, <1>1 DEF Uninterrupted, Pending
    <3>3. secret = 2 /\ now <= issued + Sync
      BY <3>1, <3>2, <1>1, RingInvAt DEF Clocked, Retirable
    <3>4. QED
      BY <3>2, <3>3, RingSizes, RingConstants DEF Retirable, Timings
  <2>5. ASSUME Pending(r, 2)' PROVE 2 <= at'[r] /\ at'[r] <= issued + Sync + Poll
    <3>1. 2 \notin signer[r]
      BY <2>5, <1>1, RingInvAt, EntriesAre DEF Pending, Held
    <3>2. secret = 2
      BY <2>5, <1>1, RingInvAt, RingSizes DEF Pending, Alone
    <3>3. at[r] <= issued + Sync /\ now <= at[r] + Poll
      BY <3>1, <3>2, <1>1, RingInvAt, RingSizes, RingConstants DEF Seen, Pending, Clocked
    <3>4. QED
      BY <3>3, <1>1, RingSizes, RingConstants DEF Timings
  <2>6. ring'[r][1] = 0 => Retirable' /\ ring'[r][2] # 0
    BY <1>1, <2>1, <2>2 DEF Uninterrupted, Pending
  <2>7. step'[r] # "down" /\ ~Guessed(r, 1)' /\ ~Guessed(r, 2)' /\ ~Decided(r)'
    BY <1>1 DEF Guessed, Decided
  <2>8. QED
    BY <1>1, <1>2, <2>1, <2>2, <2>3, <2>4, <2>5, <2>6, <2>7 DEF Uninterrupted
<1>11. ASSUME mishaps.failed = 0 PROVE Recorded(r)'
  <2>1. Recorded(r)
    BY <1>11, RingInvAt
  <2>2. (Over' <=> Over) /\ FirstBound' = FirstBound
    BY <1>1, <1>2, StoreKept
  <2>3. QED
    BY <1>1, <1>2, <2>1, <2>2 DEF Recorded, Decided
<1>12. QED
  <2>1. Local(r)'
    BY <1>4, <1>5, <1>6, <1>7, <1>8, <1>9 DEF Local
  <2>2. mishaps'.failed = 0 \/ mishaps'.died = 0
    BY <1>1 DEF RingInv
  <2>3. QED
    BY <2>1, <2>2, <1>1, <1>10, <1>11, OwnStepKeeps

\* Only the installation's first key is given no delay.
LEMMA FirstKeyKeeps ==
    ASSUME RingTypeOK, RingInv, Timings, NEW r \in Replica, FirstKey(r), OneKind'
    PROVE  RingInv'
<1>1. /\ Own(r) /\ entry' = entry /\ index' = index /\ valid' = valid
      /\ step[r] = "first" /\ step'[r] = "claim"
      /\ file'[r] = file[r] /\ ring'[r] = ring[r] /\ signer'[r] = signer[r]
      /\ active'[r] = active[r] /\ published'[r] = published[r]
      /\ at'[r] = at[r] /\ key'[r] = key[r] /\ left'[r] = left[r] /\ fresh'[r] = fresh[r]
  BY FirstKeyDoes
<1>2. PICK ok \in BOOLEAN :
         /\ Answer(ok)
         /\ \/ ok /\ index = {} /\ guess'[r] = at[r]
            \/ ~ok /\ Entries(r) = {} /\ guess'[r] = at[r]
            \/ /\ (ok /\ index # {}) \/ (~ok /\ Entries(r) # {})
               /\ fresh[r] => guess'[r] = at[r] + BootDelay
               /\ ~fresh[r] => guess'[r] = at[r] + Delay
  BY FirstKeyDoes
<1>3. /\ mishaps'.died = mishaps.died
      /\ mishaps'.failed = 0 => mishaps.failed = 0 /\ ok
      /\ mishaps'.failed = 0 \/ mishaps'.died = 0
  BY <1>2, AnswerDoes DEF RingInv, OneKind
<1>4. now' = now /\ secret' = secret /\ issued' = issued
  BY <1>1 DEF Own
<1>5. Entries(r)' = Entries(r)
  BY <1>1 DEF Entries
<1>6. /\ \A k : Pending(r, k)' <=> Pending(r, k)
      /\ \A k : Guessed(r, k)' <=> Pending(r, k)
      /\ Pending(r, 1) \/ Pending(r, 2)
  BY <1>1, RingSizes DEF Pending, Guessed
<1>7. at[r] <= guess'[r]
  BY <1>2, RingSizes, RingConstants
<1>8. ASSUME Pending(r, 2)
      PROVE  /\ fresh[r] => guess'[r] = at[r] + BootDelay
             /\ ~fresh[r] => guess'[r] = at[r] + Delay
  <2>1. secret = 2 /\ key[r] = 2 /\ step[r] # "down"
    BY <1>1, <1>8, RingInvAt, RingSizes DEF Alone, Pending
  <2>2. CASE mishaps.failed = 0 /\ ok
    BY <1>2, <2>1, <2>2 DEF RingInv, StoreKeeps
  <2>3. CASE mishaps.died = 0
    <3>1. Uninterrupted(r) /\ StoreLags
      BY <2>3, RingInvAt DEF RingInv
    <3>2. ring[r][2] = 0
      BY <1>8, RingInvAt, TwoKeys DEF Held
    <3>3. ring[r][1] # 0
      BY <3>1, <3>2, <2>1 DEF Uninterrupted, Pending
    <3>4. now <= issued + Sync + Poll + Poll
      BY <3>1, <1>8, <2>1, RingInvAt, RingSizes, RingConstants DEF Uninterrupted, Clocked
    <3>5. 1 \in index
      BY <3>1, <3>4, <2>1, RingSizes, RingConstants DEF StoreLags, Retirable, Timings
    <3>6. QED
      BY <1>2, <3>3, <3>5, EntriesAre
  <2>4. QED
    BY <1>3, <2>2, <2>3
<1>9. Clocked(r)' /\ Alone(r)' /\ Seen(r)'
  BY <1>1, <1>4, <1>6, RingInvAt DEF Clocked, Alone, Seen
<1>10. Held(r)'
  BY <1>1, <1>5, <1>6, RingInvAt DEF Held
<1>11. Waits(r)'
  <2>1. Pending(r, 2) => issued + BootDelay <= guess'[r]
    BY <1>8, RingInvAt, RingSizes, RingConstants DEF Waits, Timings
  <2>2. QED
    BY <1>1, <1>4, <1>6, <1>7, <2>1, RingInvAt DEF Waits
<1>12. Computed(r)'
  BY <1>1 DEF Computed, Decided
<1>13. ASSUME mishaps.died = 0 PROVE Uninterrupted(r)'
  <2>1. Uninterrupted(r)
    BY <1>13, RingInvAt
  <2>2. /\ Retirable' <=> Retirable
        /\ \A t : Scheduled(t)' <=> Scheduled(t)
    BY <1>1, <1>4, StoreKept
  <2>3. Pending(r, 1) => guess'[r] <= 1 + BootDelay
    BY <1>2, <2>1, RingSizes, RingConstants DEF Uninterrupted
  <2>4. Pending(r, 2) => Scheduled(guess'[r])
    <3>1. ASSUME Pending(r, 2)
          PROVE  /\ guess'[r] = at[r] + Delay /\ 2 <= at[r] /\ at[r] <= issued + Sync + Poll
                 /\ issued <= at[r]
      BY <3>1, <1>8, <2>1, RingInvAt DEF Uninterrupted, Waits
    <3>2. QED
      BY <3>1, RingSizes, RingConstants DEF Scheduled
  <2>5. ~Decided(r)'
    BY <1>1 DEF Decided
  <2>6. QED
    BY <1>1, <1>4, <1>6, <2>1, <2>2, <2>3, <2>4, <2>5 DEF Uninterrupted
<1>14. ASSUME mishaps'.failed = 0 PROVE Recorded(r)'
  <2>1. Recorded(r) /\ ok /\ StoreKeeps
    BY <1>3, <1>14, RingInvAt DEF RingInv
  <2>2. (Over' <=> Over) /\ FirstBound' = FirstBound
    BY <1>1, <1>4, StoreKept
  <2>3. key[r] = 1 => entry[1] # 0 \/ guess'[r] <= FirstBound
    <3>1. ASSUME key[r] = 1, entry[1] = 0 PROVE guess'[r] <= FirstBound
      <4>1. ~Over
        BY <1>1, <3>1, PendingIsEarly DEF Pending
      <4>2. 1 \notin index /\ secret # 2
        BY <2>1, <3>1, <4>1 DEF StoreKeeps
      <4>3. secret = 1 /\ index = {}
        BY <4>2, RingSizes DEF RingInv, StoreSound
      <4>4. guess'[r] = at[r] /\ at[r] <= now
        BY <1>1, <1>2, <2>1, <4>3, RingInvAt DEF Clocked
      <4>5. QED
        BY <4>3, <4>4 DEF FirstBound
    <3>2. QED
      BY <3>1
  <2>4. QED
    BY <1>1, <1>4, <2>1, <2>2, <2>3 DEF Recorded, Decided
<1>15. QED
  <2>1. Local(r)'
    BY <1>9, <1>10, <1>11, <1>12 DEF Local
  <2>2. QED
    BY <2>1, <1>1, <1>3, <1>13, <1>14, OwnStepKeeps

\* The key of a replica's file enters its ring.
LEMMA AdoptKeeps ==
    ASSUME RingTypeOK, RingInv, Timings, NEW r \in Replica, NEW t \in Nat \ {0}, Adopted(r, t),
           now' = now, secret' = secret, issued' = issued,
           step[r] \in {"claim", "read"}, file'[r] = file[r],
           at'[r] = at[r], key'[r] = key[r], left'[r] = left[r], fresh'[r] = fresh[r],
           key[r] = 2 => issued + BootDelay <= t,
           mishaps.died = 0 =>
             /\ key[r] = 1 => t <= 1 + BootDelay
             /\ key[r] = 2 => Scheduled(t)
    PROVE  /\ Local(r)' /\ ring'[r][key[r]] = t /\ step'[r] = "add"
           /\ \A k \in Key : k # key[r] => ring'[r][k] = ring[r][k]
           /\ mishaps.died = 0 => Uninterrupted(r)'
<1>1. /\ Pending(r, key[r]) /\ ~Pending(r, 1)' /\ ~Pending(r, 2)' /\ ~Decided(r)'
      /\ \A k : ~Pending(r, k)' /\ ~Guessed(r, k)'
      /\ \A k : Pending(r, k) => k = key[r]
  BY DEF Adopted, Pending, Decided, Guessed
<1>2. /\ ring'[r][key[r]] = t /\ step'[r] = "add" /\ signer'[r] = signer[r] \cup {key[r]}
      /\ \A k \in Key : k # key[r] => ring'[r][k] = ring[r][k]
  BY RingSizes, TwoKeys DEF Adopted
<1>3. Key = {1, 2} /\ key[r] \in {1, 2} /\ secret \in {1, 2} /\ signer[r] \subseteq {1, 2}
  BY RingSizes, TwoKeys
<1>4. Clocked(r)' /\ Alone(r)'
  BY <1>1, <1>2, <1>3, RingInvAt DEF Clocked, Alone
<1>5. Held(r)'
  <2>1. Entries(r)' = Entries(r) \cup {key[r]}
    BY <1>2, <1>3 DEF Entries
  <2>2. QED
    BY <1>1, <1>2, <2>1, RingInvAt DEF Held
<1>6. Seen(r)'
  BY <1>1, <1>2, <1>3, RingInvAt DEF Seen
<1>7. Waits(r)'
  BY <1>1, <1>2, <1>3, RingInvAt DEF Waits
<1>8. Computed(r)'
  BY <1>1, <1>2 DEF Computed
<1>9. ASSUME mishaps.died = 0 PROVE Uninterrupted(r)'
  <2>1. Uninterrupted(r)
    BY <1>9, RingInvAt
  <2>2. /\ Retirable' <=> Retirable
        /\ \A u : Scheduled(u)' <=> Scheduled(u)
    BY DEF Retirable, Scheduled
  <2>3. ring'[r][1] = 0 => Retirable' /\ ring'[r][2] # 0
    BY <1>1, <1>2, <1>3, <2>1, <2>2 DEF Uninterrupted
  <2>4. ring'[r][1] <= 1 + BootDelay /\ (ring'[r][2] # 0 => Scheduled(ring'[r][2]))
    BY <1>2, <1>3, <1>9, <2>1 DEF Uninterrupted
  <2>5. QED
    BY <1>1, <1>2, <2>1, <2>2, <2>3, <2>4 DEF Uninterrupted
<1>10. QED
  BY <1>2, <1>4, <1>5, <1>6, <1>7, <1>8, <1>9 DEF Local

\* The recorded schedule, or this replica's own, is a schedule of the key.
LEMMA ReadClaimKeeps ==
    ASSUME RingTypeOK, RingInv, Timings, NEW r \in Replica, ReadClaim(r), OneKind'
    PROVE  RingInv'
<1>1. /\ Own(r) /\ entry' = entry /\ index' = index /\ valid' = valid
      /\ step[r] = "read"
      /\ file'[r] = file[r] /\ active'[r] = active[r] /\ published'[r] = published[r]
      /\ at'[r] = at[r] /\ key'[r] = key[r] /\ left'[r] = left[r] /\ fresh'[r] = fresh[r]
  BY ReadClaimDoes
<1>2. PICK ok \in BOOLEAN :
         /\ Answer(ok)
         /\ \/ ok /\ entry[key[r]] # 0 /\ Adopted(r, entry[key[r]])
            \/ ~(ok /\ entry[key[r]] # 0) /\ Adopted(r, guess[r])
  BY ReadClaimDoes
<1>3. /\ mishaps'.died = mishaps.died
      /\ mishaps'.failed = 0 => mishaps.failed = 0 /\ ok
      /\ mishaps'.failed = 0 \/ mishaps'.died = 0
  BY <1>2, AnswerDoes DEF RingInv, OneKind
<1>4. now' = now /\ secret' = secret /\ issued' = issued
  BY <1>1 DEF Own
<1>5. PICK t \in Nat \ {0} :
         /\ Adopted(r, t)
         /\ t = entry[key[r]] \/ t = guess[r]
         /\ ok /\ entry[key[r]] # 0 => t = entry[key[r]]
  <2>1. Guessed(r, key[r]) /\ key[r] \in Key
    BY <1>1, RingSizes, TwoKeys DEF Guessed
  <2>2. 1 <= guess[r] /\ guess[r] \in Nat /\ entry[key[r]] \in Nat
    BY <2>1, RingInvAt, RingSizes DEF Waits
  <2>3. QED
    BY <1>2, <2>2
<1>6. /\ key[r] = 2 => issued + BootDelay <= t
      /\ mishaps.died = 0 =>
            /\ key[r] = 1 => t <= 1 + BootDelay
            /\ key[r] = 2 => Scheduled(t)
  <2>1. Guessed(r, key[r])
    BY <1>1 DEF Guessed
  <2>2. key[r] = 2 => issued + BootDelay <= t
    BY <1>5, <2>1, RingInvAt DEF RingInv, StoreSound, Waits
  <2>3. ASSUME mishaps.died = 0
        PROVE  /\ key[r] = 1 => t <= 1 + BootDelay
               /\ key[r] = 2 => Scheduled(t)
    BY <1>5, <2>1, <2>3, RingInvAt DEF RingInv, StoreLags, Uninterrupted
  <2>4. QED
    BY <2>2, <2>3
<1>7. /\ Local(r)' /\ ring'[r][key[r]] = t /\ step'[r] = "add"
      /\ \A k \in Key : k # key[r] => ring'[r][k] = ring[r][k]
      /\ mishaps.died = 0 => Uninterrupted(r)'
  BY <1>1, <1>4, <1>5, <1>6, AdoptKeeps
<1>8. Key = {1, 2} /\ key[r] \in {1, 2}
  BY RingSizes, TwoKeys
<1>9. ASSUME mishaps'.failed = 0 PROVE Recorded(r)'
  <2>1. Recorded(r) /\ ok /\ StoreKeeps
    BY <1>3, <1>9, RingInvAt DEF RingInv
  <2>2. (Over' <=> Over) /\ FirstBound' = FirstBound
    BY <1>1, <1>4, StoreKept
  <2>3. t = entry[key[r]]
    BY <1>1, <1>5, <2>1 DEF Recorded
  <2>4. QED
    BY <1>1, <1>4, <1>7, <1>8, <2>1, <2>2, <2>3 DEF Recorded, StoreKeeps, Decided
<1>10. ring[r][2] # 0 => ring'[r][2] # 0
  BY <1>5, <1>7, <1>8
<1>11. QED
  BY <1>1, <1>3, <1>7, <1>9, <1>10, OwnStepKeeps

\* absorb sees the first key in the index as long as it may be verified against.
LEMMA MembersKeeps ==
    ASSUME RingTypeOK, RingInv, Timings, NEW r \in Replica, Members(r), OneKind'
    PROVE  RingInv'
<1>1. /\ Own(r) /\ entry' = entry /\ index' = index /\ valid' = valid
      /\ step[r] = "members" /\ step'[r] = "absorb"
      /\ file'[r] = file[r] /\ ring'[r] = ring[r] /\ signer'[r] = signer[r]
      /\ active'[r] = active[r] /\ published'[r] = published[r] /\ at'[r] = at[r]
      /\ key'[r] = key[r] /\ guess'[r] = guess[r] /\ fresh'[r] = fresh[r]
  BY MembersDoes
<1>2. PICK ok \in BOOLEAN :
         Answer(ok) /\ (ok => left'[r] = index \ Entries(r)) /\ (~ok => left'[r] = {})
  BY MembersDoes
<1>3. /\ mishaps'.died = mishaps.died
      /\ mishaps'.failed = 0 => mishaps.failed = 0 /\ ok
      /\ mishaps'.failed = 0 \/ mishaps'.died = 0
  BY <1>2, AnswerDoes DEF RingInv, OneKind
<1>4. now' = now /\ secret' = secret /\ issued' = issued /\ Entries(r)' = Entries(r)
  BY <1>1 DEF Own, Entries
<1>5. /\ \A k : ~Pending(r, k) /\ ~Pending(r, k)' /\ ~Guessed(r, k) /\ ~Guessed(r, k)'
      /\ ~Decided(r) /\ ~Decided(r)'
  BY <1>1 DEF Pending, Guessed, Decided
<1>6. Local(r)'
  <2>1. Clocked(r)' /\ Alone(r)' /\ Seen(r)' /\ Waits(r)'
    BY <1>1, <1>4, <1>5, RingInvAt DEF Clocked, Alone, Seen, Waits
  <2>2. \A k \in left'[r] : ring'[r][k] = 0
    <3>1. index \subseteq Key
      BY DEF RingTypeOK
    <3>2. QED
      BY <1>1, <1>2, <3>1 DEF Entries
  <2>3. Held(r)'
    BY <1>1, <1>4, <1>5, <2>2, RingInvAt DEF Held
  <2>4. Computed(r)'
    BY <1>1, <1>5 DEF Computed
  <2>5. QED
    BY <2>1, <2>3, <2>4 DEF Local
<1>7. ASSUME mishaps.died = 0 PROVE Uninterrupted(r)'
  <2>1. Uninterrupted(r)
    BY <1>7, RingInvAt
  <2>2. /\ Retirable' <=> Retirable
        /\ \A t : Scheduled(t)' <=> Scheduled(t)
    BY <1>1, <1>4, StoreKept
  <2>3. QED
    BY <1>1, <1>4, <1>5, <2>1, <2>2 DEF Uninterrupted
<1>8. ASSUME mishaps'.failed = 0 PROVE Recorded(r)'
  <2>1. Recorded(r) /\ ok /\ StoreKeeps
    BY <1>3, <1>8, RingInvAt DEF RingInv
  <2>2. (Over' <=> Over) /\ FirstBound' = FirstBound
    BY <1>1, <1>4, StoreKept
  <2>3. /\ secret = 2 /\ ring[r][1] = 0 => Over \/ 1 \in left'[r]
        /\ 2 \in left'[r] => 2 \in index
    BY <1>2, <2>1, EntriesAre DEF StoreKeeps
  <2>4. QED
    BY <1>1, <1>4, <1>5, <2>1, <2>2, <2>3 DEF Recorded
<1>9. QED
  BY <1>1, <1>3, <1>6, <1>7, <1>8, OwnStepKeeps

\* An absorbed entry is the store's, and was not there before.
LEMMA AbsorbKeeps ==
    ASSUME RingTypeOK, RingInv, Timings, NEW r \in Replica, Absorb(r), OneKind'
    PROVE  RingInv'
<1>1. /\ Own(r) /\ entry' = entry /\ index' = index /\ valid' = valid
      /\ step[r] = "absorb" /\ step'[r] = "absorb"
      /\ file'[r] = file[r] /\ signer'[r] = signer[r]
      /\ active'[r] = active[r] /\ published'[r] = published[r] /\ at'[r] = at[r]
      /\ key'[r] = key[r] /\ guess'[r] = guess[r] /\ fresh'[r] = fresh[r]
  BY AbsorbDoes
<1>2. PICK k \in left[r], ok \in BOOLEAN :
         /\ Answer(ok) /\ left'[r] = left[r] \ {k}
         /\ ok => ring'[r] = [ring[r] EXCEPT ![k] = entry[k]]
         /\ ~ok => ring'[r] = ring[r]
  BY AbsorbDoes
<1>3. /\ mishaps'.died = mishaps.died
      /\ mishaps'.failed = 0 => mishaps.failed = 0 /\ ok
      /\ mishaps'.failed = 0 \/ mishaps'.died = 0
  BY <1>2, AnswerDoes DEF RingInv, OneKind
<1>4. now' = now /\ secret' = secret /\ issued' = issued
  BY <1>1 DEF Own
<1>5. /\ \A j : ~Pending(r, j) /\ ~Pending(r, j)' /\ ~Guessed(r, j) /\ ~Guessed(r, j)'
      /\ ~Decided(r) /\ ~Decided(r)'
  BY <1>1 DEF Pending, Guessed, Decided
<1>6. /\ Key = {1, 2} /\ k \in Key /\ ring[r][k] = 0
      /\ ring'[r][k] = 0 \/ ring'[r][k] = entry[k]
      /\ ok => ring'[r][k] = entry[k]
      /\ \A j \in Key : j # k => ring'[r][j] = ring[r][j]
  <2>1. k \in Key /\ Key = {1, 2} /\ ring[r] \in [Key -> Nat] /\ left[r] \subseteq {1, 2}
    BY TwoKeys, RingSizes
  <2>2. ring[r][k] = 0
    BY <1>1, RingInvAt DEF Held
  <2>3. QED
    BY <1>2, <2>1, <2>2
<1>7. Local(r)'
  <2>1. Clocked(r)' /\ Seen(r)'
    BY <1>1, <1>4, <1>5, RingInvAt DEF Clocked, Seen
  <2>2. Alone(r)' /\ Waits(r)'
    BY <1>1, <1>4, <1>5, <1>6, RingInvAt DEF Alone, Waits, RingInv, StoreSound
  <2>3. Held(r)'
    <3>1. Entries(r) \subseteq Entries(r)'
      BY <1>6 DEF Entries
    <3>2. \A j \in left'[r] : ring'[r][j] = 0
      BY <1>1, <1>2, <1>6, RingInvAt, RingSizes DEF Held
    <3>3. QED
      BY <1>1, <1>5, <3>1, <3>2, RingInvAt DEF Held
  <2>4. Computed(r)'
    BY <1>1, <1>5 DEF Computed
  <2>5. QED
    BY <2>1, <2>2, <2>3, <2>4 DEF Local
<1>8. ASSUME mishaps.died = 0 PROVE Uninterrupted(r)'
  <2>1. Uninterrupted(r) /\ StoreLags
    BY <1>8, RingInvAt DEF RingInv
  <2>2. /\ Retirable' <=> Retirable
        /\ \A t : Scheduled(t)' <=> Scheduled(t)
    BY <1>1, <1>4, StoreKept
  <2>3. /\ ring'[r][1] <= 1 + BootDelay
        /\ ring'[r][2] # 0 => Scheduled(ring'[r][2])
        /\ ring'[r][1] = 0 => Retirable /\ ring'[r][2] # 0
    BY <1>5, <1>6, <2>1, RingConstants DEF Uninterrupted, StoreLags
  <2>4. QED
    BY <1>1, <1>4, <1>5, <2>1, <2>2, <2>3 DEF Uninterrupted
<1>9. ASSUME mishaps'.failed = 0 PROVE Recorded(r)'
  <2>1. Recorded(r) /\ ok /\ StoreKeeps
    BY <1>3, <1>9, RingInvAt DEF RingInv
  <2>2. (Over' <=> Over) /\ FirstBound' = FirstBound
    BY <1>1, <1>4, StoreKept
  <2>3. /\ ring'[r][2] # 0 => entry[2] = ring'[r][2] /\ 2 \in index
        /\ ring'[r][1] <= FirstBound
        /\ ring'[r][1] # 0 => entry[1] # 0 \/ Over
    <3>1. /\ ring[r][2] # 0 => entry[2] = ring[r][2] /\ 2 \in index
          /\ ring[r][1] <= FirstBound
          /\ ring[r][1] # 0 => entry[1] # 0 \/ Over
          /\ entry[1] <= FirstBound
      BY <1>1, <2>1 DEF Recorded, StoreKeeps
    <3>2. 2 = k => 2 \in index
      BY <1>1, <2>1 DEF Recorded
    <3>3. QED
      BY <1>6, <2>1, <3>1, <3>2
  <2>4. secret = 2 /\ ring'[r][1] = 0 => Over \/ 1 \in left'[r]
    BY <1>1, <1>2, <1>6, <2>1 DEF Recorded, StoreKeeps
  <2>5. 2 \in left'[r] => 2 \in index
    BY <1>1, <1>2, <2>1 DEF Recorded
  <2>6. QED
    BY <1>1, <1>4, <1>5, <2>2, <2>3, <2>4, <2>5 DEF Recorded
<1>10. QED
  BY <1>1, <1>3, <1>6, <1>7, <1>8, <1>9, OwnStepKeeps

\* A ring that has absorbed holds the first key until the overlap is over.
LEMMA StartRefreshKeeps ==
    ASSUME RingTypeOK, RingInv, Timings, NEW r \in Replica, StartRefresh(r)
    PROVE  RingInv'
<1>1. /\ Own(r) /\ mishaps' = mishaps /\ entry' = entry /\ index' = index /\ valid' = valid
      /\ step[r] = "absorb" /\ step'[r] = "refresh" /\ left[r] = {} /\ left'[r] = Entries(r)
      /\ file'[r] = file[r] /\ ring'[r] = ring[r] /\ signer'[r] = signer[r]
      /\ active'[r] = active[r] /\ published'[r] = published[r] /\ at'[r] = at[r]
      /\ key'[r] = key[r] /\ guess'[r] = guess[r] /\ fresh'[r] = fresh[r]
  BY StartRefreshDoes
<1>2. now' = now /\ secret' = secret /\ issued' = issued /\ Entries(r)' = Entries(r)
  BY <1>1 DEF Own, Entries
<1>3. /\ \A k : ~Pending(r, k) /\ ~Pending(r, k)' /\ ~Guessed(r, k) /\ ~Guessed(r, k)'
      /\ ~Decided(r) /\ ~Decided(r)'
  BY <1>1 DEF Pending, Guessed, Decided
<1>4. Local(r)'
  <2>1. Clocked(r)' /\ Alone(r)' /\ Seen(r)' /\ Waits(r)'
    BY <1>1, <1>2, <1>3, RingInvAt DEF Clocked, Alone, Seen, Waits
  <2>2. Held(r)' /\ Computed(r)'
    BY <1>1, <1>2, <1>3, RingInvAt DEF Held, Computed
  <2>3. QED
    BY <2>1, <2>2 DEF Local
<1>5. /\ Retirable' <=> Retirable
      /\ \A t : Scheduled(t)' <=> Scheduled(t)
      /\ (Over' <=> Over) /\ FirstBound' = FirstBound
  BY <1>1, <1>2, StoreKept
<1>6. Uninterrupted(r) => Uninterrupted(r)'
  BY <1>1, <1>2, <1>3, <1>5 DEF Uninterrupted
<1>7. Recorded(r) => Recorded(r)'
  BY <1>1, <1>2, <1>3, <1>5 DEF Recorded
<1>8. QED
  BY <1>1, <1>4, <1>6, <1>7, RingInvAt, OwnStepKeeps DEF RingInv

\* Every key that retires is the first, once the second has been in use for an overlap.
LEMMA RecomputeKeeps ==
    ASSUME RingTypeOK, RingInv, Timings, NEW r \in Replica, Recompute(r)
    PROVE  RingInv'
<1>1. /\ Own(r) /\ mishaps' = mishaps /\ entry' = entry /\ index' = index /\ valid' = valid
      /\ step[r] = "refresh" /\ step'[r] = "retire" /\ left[r] = {}
      /\ file'[r] = file[r] /\ at'[r] = at[r] /\ key'[r] = key[r]
      /\ guess'[r] = guess[r] /\ fresh'[r] = fresh[r]
      /\ published'[r] = Entries(r) \ left'[r]
      /\ ring'[r] = [k \in Key |-> IF k \in left'[r] THEN 0 ELSE ring[r][k]]
      /\ signer'[r] = signer[r] \ left'[r]
      /\ left'[r] \subseteq {1}
      /\ left'[r] # {} =>
           /\ ring[r][2] # 0 /\ ring[r][2] <= at[r]
           /\ fresh[r] => at[r] > ring[r][2] + BootOverlap
           /\ ~fresh[r] => at[r] > ring[r][2] + Overlap
      /\ active'[r] = 1 => ring[r][2] = 0 \/ at[r] < ring[r][2]
      /\ active'[r] = 2 => ring[r][2] # 0 /\ ring[r][2] <= at[r]
  BY RecomputeDoes, FirstBeforeSecond
<1>2. now' = now /\ secret' = secret /\ issued' = issued
  BY <1>1 DEF Own
<1>3. /\ Key = {1, 2} /\ ring'[r][2] = ring[r][2]
      /\ ring'[r][1] = IF left'[r] = {} THEN ring[r][1] ELSE 0
  BY <1>1, TwoKeys
<1>4. Entries(r)' = Entries(r) \ left'[r]
  BY <1>1, <1>3 DEF Entries
<1>5. /\ \A k : ~Pending(r, k) /\ ~Pending(r, k)' /\ ~Guessed(r, k) /\ ~Guessed(r, k)'
      /\ ~Decided(r) /\ Decided(r)'
  BY <1>1 DEF Pending, Guessed, Decided
<1>6. left'[r] # {} => secret = 2 /\ 2 \in signer[r]
  BY <1>1, <1>5, SecondIsLate, RingInvAt DEF Seen
<1>7. Local(r)'
  <2>1. Clocked(r)' /\ Alone(r)' /\ Waits(r)'
    BY <1>1, <1>2, <1>3, <1>5, RingInvAt DEF Clocked, Alone, Waits
  <2>2. Seen(r)'
    BY <1>1, <1>2, <1>5, <1>6, RingInvAt DEF Seen
  <2>3. Held(r)'
    BY <1>1, <1>4, <1>5, RingInvAt DEF Held
  <2>4. Computed(r)'
    BY <1>1, <1>3, <1>4 DEF Computed
  <2>5. QED
    BY <2>1, <2>2, <2>3, <2>4 DEF Local
<1>8. /\ Retirable' <=> Retirable
      /\ \A t : Scheduled(t)' <=> Scheduled(t)
      /\ (Over' <=> Over) /\ FirstBound' = FirstBound
  BY <1>1, <1>2, StoreKept
<1>9. at[r] <= now
  BY <1>1, RingInvAt DEF Clocked
<1>10. ASSUME mishaps.died = 0 PROVE Uninterrupted(r)'
  <2>1. Uninterrupted(r)
    BY <1>10, RingInvAt
  <2>2. left'[r] # {} => Retirable
    <3>1. ASSUME left'[r] # {} PROVE Retirable
      <4>1. /\ ring[r][2] # 0 /\ ring[r][2] <= at[r] /\ issued + Delay <= ring[r][2]
            /\ 2 + Delay <= ring[r][2]
        BY <3>1, <1>1, <2>1 DEF Uninterrupted, Scheduled
      <4>2. ~fresh[r]
        BY <2>1, <4>1, RingSizes, RingConstants DEF Uninterrupted
      <4>3. now > issued + Delay + Overlap
        BY <3>1, <1>1, <1>9, <4>1, <4>2, RingSizes, RingConstants
      <4>4. QED
        BY <3>1, <1>6, <4>3 DEF Retirable
    <3>2. QED
      BY <3>1
  <2>3. QED
    BY <1>1, <1>2, <1>3, <1>5, <1>8, <2>1, <2>2, RingConstants DEF Uninterrupted
<1>11. ASSUME mishaps.failed = 0 PROVE Recorded(r)'
  <2>1. Recorded(r)
    BY <1>11, RingInvAt
  <2>2. left'[r] # {} => Over
    <3>1. ring[r][2] # 0 => entry[2] = ring[r][2]
      BY <2>1 DEF Recorded
    <3>2. QED
      BY <3>1, <1>1, <1>9, RingSizes, RingConstants DEF Over
  <2>3. ring'[r][1] <= FirstBound'
    BY <1>3, <1>8, <2>1, RingSizes DEF Recorded, FirstBound
  <2>4. QED
    BY <1>1, <1>2, <1>3, <1>5, <1>8, <2>1, <2>2, <2>3 DEF Recorded
<1>12. QED
  BY <1>1, <1>3, <1>7, <1>10, <1>11, OwnStepKeeps DEF RingInv

\* Observe returns with what recompute has left.
LEMMA FinishKeeps ==
    ASSUME RingTypeOK, RingInv, Timings, NEW r \in Replica, Finish(r)
    PROVE  RingInv'
<1>1. /\ Own(r) /\ mishaps' = mishaps /\ entry' = entry /\ index' = index /\ valid' = valid
      /\ step[r] = "retire" /\ step'[r] = "idle" /\ left[r] = {} /\ ~fresh'[r]
      /\ file'[r] = file[r] /\ ring'[r] = ring[r] /\ signer'[r] = signer[r]
      /\ active'[r] = active[r] /\ published'[r] = published[r] /\ at'[r] = at[r]
      /\ key'[r] = key[r] /\ guess'[r] = guess[r] /\ left'[r] = left[r]
  BY FinishDoes
<1>2. now' = now /\ secret' = secret /\ issued' = issued /\ Entries(r)' = Entries(r)
  BY <1>1 DEF Own, Entries
<1>3. /\ \A k : ~Pending(r, k) /\ ~Pending(r, k)' /\ ~Guessed(r, k) /\ ~Guessed(r, k)'
      /\ Decided(r) /\ Decided(r)'
  BY <1>1 DEF Pending, Guessed, Decided
<1>4. Local(r)'
  <2>1. Clocked(r)' /\ Alone(r)' /\ Seen(r)' /\ Waits(r)'
    BY <1>1, <1>2, <1>3, RingInvAt DEF Clocked, Alone, Seen, Waits
  <2>2. Held(r)' /\ Computed(r)'
    BY <1>1, <1>2, <1>3, RingInvAt DEF Held, Computed
  <2>3. QED
    BY <2>1, <2>2 DEF Local
<1>5. /\ Retirable' <=> Retirable
      /\ \A t : Scheduled(t)' <=> Scheduled(t)
      /\ (Over' <=> Over) /\ FirstBound' = FirstBound
  BY <1>1, <1>2, StoreKept
<1>6. Uninterrupted(r) => Uninterrupted(r)'
  BY <1>1, <1>2, <1>3, <1>5 DEF Uninterrupted
<1>7. Recorded(r) => Recorded(r)'
  BY <1>1, <1>2, <1>3, <1>5 DEF Recorded
<1>8. QED
  BY <1>1, <1>4, <1>6, <1>7, RingInvAt, OwnStepKeeps DEF RingInv

\* A file that catches up changes nothing until the next Observe.
LEMMA SyncFileKeeps ==
    ASSUME RingTypeOK, RingInv, Timings, NEW r \in Replica, SyncFile(r)
    PROVE  RingInv'
<1>1. /\ Own(r) /\ mishaps' = mishaps /\ entry' = entry /\ index' = index /\ valid' = valid
      /\ file'[r] = secret /\ step'[r] = step[r] /\ at'[r] = at[r] /\ key'[r] = key[r]
      /\ ring'[r] = ring[r] /\ signer'[r] = signer[r]
      /\ active'[r] = active[r] /\ published'[r] = published[r]
      /\ guess'[r] = guess[r] /\ left'[r] = left[r] /\ fresh'[r] = fresh[r]
  BY SyncFileDoes
<1>2. now' = now /\ secret' = secret /\ issued' = issued /\ Entries(r)' = Entries(r)
  BY <1>1 DEF Own, Entries
<1>3. /\ \A k : (Pending(r, k)' <=> Pending(r, k)) /\ (Guessed(r, k)' <=> Guessed(r, k))
      /\ Decided(r)' <=> Decided(r)
  BY <1>1 DEF Pending, Guessed, Decided
<1>4. Local(r)'
  <2>1. Clocked(r)' /\ Alone(r)' /\ Seen(r)' /\ Waits(r)'
    BY <1>1, <1>2, <1>3, RingInvAt DEF Clocked, Alone, Seen, Waits
  <2>2. Held(r)' /\ Computed(r)'
    BY <1>1, <1>2, <1>3, RingInvAt DEF Held, Computed
  <2>3. QED
    BY <2>1, <2>2 DEF Local
<1>5. /\ Retirable' <=> Retirable
      /\ \A t : Scheduled(t)' <=> Scheduled(t)
      /\ (Over' <=> Over) /\ FirstBound' = FirstBound
  BY <1>1, <1>2, StoreKept
<1>6. Uninterrupted(r) => Uninterrupted(r)'
  BY <1>1, <1>2, <1>3, <1>5 DEF Uninterrupted
<1>7. Recorded(r) => Recorded(r)'
  BY <1>1, <1>2, <1>3, <1>5 DEF Recorded
<1>8. QED
  BY <1>1, <1>4, <1>6, <1>7, RingInvAt, OwnStepKeeps DEF RingInv

\* A restarted replica is at the first step with its file as it is.
LEMMA BootKeeps ==
    ASSUME RingTypeOK, RingInv, Timings, NEW r \in Replica, Boot(r)
    PROVE  RingInv'
<1>1. /\ Own(r) /\ mishaps' = mishaps /\ entry' = entry /\ index' = index /\ valid' = valid
      /\ step[r] = "down" /\ step'[r] = "first"
      /\ file'[r] = file[r] /\ at'[r] = now /\ key'[r] = file[r]
      /\ ring'[r] = ring[r] /\ signer'[r] = signer[r]
      /\ active'[r] = active[r] /\ published'[r] = published[r]
      /\ guess'[r] = guess[r] /\ left'[r] = left[r] /\ fresh'[r] = fresh[r]
  BY BootDoes
<1>2. now' = now /\ secret' = secret /\ issued' = issued /\ Entries(r)' = Entries(r)
  BY <1>1 DEF Own, Entries
<1>3. /\ \A k : ~Guessed(r, k)' /\ (Pending(r, k)' <=> k = file[r])
      /\ ~Decided(r)'
  BY <1>1, <1>2 DEF Pending, Guessed, Decided
<1>4. ring[r][1] = 0 /\ ring[r][2] = 0 /\ Key = {1, 2} /\ file[r] \in {1, 2} /\ secret \in {1, 2}
  BY <1>1, RingInvAt, RingSizes, TwoKeys DEF Held
<1>5. Local(r)'
  <2>1. Clocked(r)'
    BY <1>1, <1>2, RingInvAt, RingSizes, RingConstants DEF Clocked
  <2>2. Alone(r)' /\ Seen(r)' /\ Waits(r)'
    <3>1. /\ secret = 1 => file[r] = 1
          /\ secret = 2 /\ file[r] = 1 => now <= issued + Sync
          /\ issued <= now
      BY RingInvAt DEF Alone, Clocked, RingInv, StoreSound
    <3>2. now \in Nat /\ issued \in Nat
      BY RingSizes
    <3>3. QED
      BY <1>1, <1>2, <1>3, <1>4, <3>1, <3>2, RingConstants DEF Alone, Seen, Waits
  <2>3. Held(r)' /\ Computed(r)'
    BY <1>1, <1>2, <1>3, <1>4, RingInvAt DEF Held, Computed
  <2>4. QED
    BY <2>1, <2>2, <2>3 DEF Local
<1>6. mishaps.died # 0
  BY <1>1, RingInvAt DEF Uninterrupted
<1>7. ASSUME mishaps.failed = 0 PROVE Recorded(r)'
  <2>1. Recorded(r)
    BY <1>7, RingInvAt
  <2>2. (Over' <=> Over) /\ FirstBound' = FirstBound
    BY <1>1, <1>2, StoreKept
  <2>3. QED
    BY <1>1, <1>2, <1>3, <2>1, <2>2 DEF Recorded
<1>8. QED
  BY <1>1, <1>5, <1>6, <1>7, OwnStepKeeps DEF RingInv

\* A replica that dies leaves its record behind.
LEMMA CrashKeeps ==
    ASSUME RingTypeOK, RingInv, Timings, NEW r \in Replica, Crash(r), OneKind'
    PROVE  RingInv'
<1>1. /\ Own(r) /\ entry' = entry /\ index' = index /\ valid' = valid
      /\ step[r] # "down" /\ step'[r] = "down"
      /\ mishaps' = [mishaps EXCEPT !.died = @ + 1]
      /\ file'[r] = file[r] /\ at'[r] = at[r] /\ key'[r] = key[r] /\ guess'[r] = guess[r]
      /\ ring'[r] = [k \in Key |-> 0] /\ signer'[r] = {} /\ active'[r] = 0
      /\ published'[r] = {} /\ left'[r] = {} /\ fresh'[r]
  BY CrashDoes
<1>2. now' = now /\ secret' = secret /\ issued' = issued
  BY <1>1 DEF Own
<1>3. /\ \A k : ~Guessed(r, k)' /\ ~Pending(r, k)'
      /\ ~Decided(r)'
  BY <1>1 DEF Pending, Guessed, Decided
<1>4. ring'[r][1] = 0 /\ ring'[r][2] = 0 /\ Key = {1, 2}
  BY <1>1, TwoKeys
<1>5. Local(r)'
  BY <1>1, <1>2, <1>3, <1>4, RingInvAt
     DEF Local, Clocked, Alone, Seen, Waits, Held, Computed
<1>6. mishaps.failed = 0 /\ mishaps'.failed = 0 /\ mishaps'.died # 0
  <2>1. mishaps \in [failed : 0 .. MaxFailures, died : 0 .. MaxDeaths]
    BY DEF RingTypeOK
  <2>2. mishaps'.failed = mishaps.failed /\ mishaps'.died # 0
    BY <1>1, <2>1, RingConstants
  <2>3. QED
    BY <2>2 DEF OneKind
<1>7. Recorded(r)'
  <2>1. FirstBound' \in Nat
    BY <1>2, RingSizes DEF FirstBound
  <2>2. QED
    BY <1>1, <1>2, <1>3, <1>4, <2>1 DEF Recorded
<1>8. ring[r][2] # 0 => entry[2] # 0
  BY <1>6, RingInvAt DEF Recorded
<1>9. QED
  BY <1>1, <1>5, <1>6, <1>7, <1>8, OwnStepKeeps

----------------------------------------------------------------------------
(* The steps that write the store.                                         *)

\* What a step that writes the store must show of it.
LEMMA StoreStepKeeps ==
    ASSUME RingTypeOK, RingInv, Timings, NEW r \in Replica, Own(r), valid' = valid,
           mishaps'.died = mishaps.died, mishaps'.failed = 0 => mishaps.failed = 0,
           mishaps'.failed = 0 \/ mishaps'.died = 0,
           Local(r)',
           secret = 1 => entry'[2] = 0 /\ 2 \notin index',
           entry'[2] # 0 => issued + BootDelay <= entry'[2],
           ring[r][2] # 0 => ring'[r][2] # 0,
           entry[2] # 0 => entry'[2] # 0,
           mishaps.died = 0 =>
             /\ Uninterrupted(r)'
             /\ entry'[1] <= 1 + BootDelay
             /\ entry'[2] # 0 => Scheduled(entry'[2])
             /\ 1 \in index /\ ~Retirable => 1 \in index',
           mishaps'.failed = 0 =>
             /\ Recorded(r)' /\ StoreKeeps'
             /\ entry[2] # 0 => entry'[2] = entry[2]
             /\ 2 \in index => 2 \in index'
             /\ entry[1] # 0 => entry'[1] # 0 \/ Over
    PROVE  RingInv'
<1>1. now' = now /\ secret' = secret /\ issued' = issued /\ \A s \in Replica \ {r} : Untouched(s)
  BY DEF Own
<1>2. mishaps.died = 0 => StoreLags'
  <2>1. ASSUME mishaps.died = 0 PROVE StoreLags'
    <3>1. StoreLags
      BY <2>1 DEF RingInv
    <3>2. /\ Retirable' <=> Retirable
          /\ \A t : Scheduled(t)' <=> Scheduled(t)
      BY <1>1 DEF Retirable, Scheduled
    <3>3. QED
      BY <1>1, <2>1, <3>1, <3>2 DEF StoreLags
  <2>2. QED
    BY <2>1
<1>3. \A s \in Replica \ {r} : mishaps'.failed = 0 => Recorded(s)'
  BY <1>1, RecordedKept, RingInvAt
<1>4. valid'[2] > 0 => entry'[2] # 0 \/ \E s \in Replica : ring'[s][2] # 0
  <2>1. ASSUME valid[2] > 0, entry[2] = 0
        PROVE  \E s \in Replica : ring'[s][2] # 0
    <3>1. PICK s \in Replica : ring[s][2] # 0
      BY <2>1 DEF RingInv, StoreSound
    <3>2. CASE s = r
      BY <2>1, <3>1, <3>2
    <3>3. CASE s # r
      BY <1>1, <3>1, <3>3 DEF Untouched
    <3>4. QED
      BY <3>2, <3>3
  <2>2. QED
    BY <2>1
<1>5. StoreSound'
  BY <1>1, <1>4 DEF RingInv, StoreSound
<1>6. QED
  BY <1>2, <1>3, <1>5, RingInvKept

\* What StoreKeeps' takes when no token is signed.
LEMMA StoreKeepsNext ==
    ASSUME RingTypeOK, RingInv, Timings, NEW r \in Replica, Own(r), valid' = valid,
           StoreKeeps,
           entry'[1] <= FirstBound,
           entry[2] # 0 => entry'[2] = entry[2],
           entry[2] = 0 /\ entry'[2] # 0 => now <= entry'[2] + Poll /\ entry'[2] \in Nat,
           1 \in index' => entry'[1] # 0 \/ Over,
           2 \in index' => entry'[2] # 0,
           secret = 2 => index' # {} /\ (1 \in index' \/ Over)
    PROVE  StoreKeeps'
<1>1. now' = now /\ secret' = secret /\ issued' = issued
  BY DEF Own
<1>2. FirstBound' = FirstBound /\ (Over => Over')
  BY <1>1 DEF FirstBound, Over
<1>3. entry'[2] # 0 /\ valid'[1] > 0 => now' + valid'[1] <= TokenLife + entry'[2] + Poll
  BY <1>1, RingSizes, RingConstants DEF StoreKeeps
<1>4. QED
  BY <1>1, <1>2, <1>3 DEF StoreKeeps

\* SetIfAbsent: one schedule, as long as the calls are answered.
LEMMA ClaimKeeps ==
    ASSUME RingTypeOK, RingInv, Timings, NEW r \in Replica, Claim(r), OneKind'
    PROVE  RingInv'
<1>1. /\ Own(r) /\ index' = index /\ valid' = valid
      /\ step[r] = "claim"
      /\ file'[r] = file[r] /\ active'[r] = active[r] /\ published'[r] = published[r]
      /\ at'[r] = at[r] /\ key'[r] = key[r] /\ left'[r] = left[r] /\ fresh'[r] = fresh[r]
      /\ \/ /\ entry[key[r]] = 0 /\ Answer(TRUE)
            /\ entry' = [entry EXCEPT ![key[r]] = guess[r]] /\ Adopted(r, guess[r])
         \/ /\ entry[key[r]] # 0 /\ Answer(TRUE) /\ entry' = entry
            /\ ring'[r] = ring[r] /\ signer'[r] = signer[r] /\ guess'[r] = guess[r]
            /\ step'[r] = "read"
         \/ Answer(FALSE) /\ entry' = entry /\ Adopted(r, guess[r])
  BY ClaimDoes
<1>2. now' = now /\ secret' = secret /\ issued' = issued
  BY <1>1 DEF Own
<1>3. /\ Key = {1, 2} /\ key[r] \in {1, 2} /\ guess[r] \in Nat /\ at[r] \in Nat /\ 1 <= at[r]
      /\ entry \in [Key -> Nat]
  BY RingSizes, TwoKeys
<1>4. /\ at[r] <= guess[r] /\ guess[r] \in Nat \ {0}
      /\ key[r] = 2 => issued + BootDelay <= guess[r] /\ secret = 2
      /\ mishaps.died = 0 =>
            /\ key[r] = 1 => guess[r] <= 1 + BootDelay
            /\ key[r] = 2 => Scheduled(guess[r])
  <2>1. Guessed(r, key[r]) /\ Pending(r, key[r])
    BY <1>1 DEF Guessed, Pending
  <2>2. at[r] <= guess[r] /\ guess[r] \in Nat \ {0}
    BY <1>3, <2>1, RingInvAt DEF Waits
  <2>3. key[r] = 2 => issued + BootDelay <= guess[r] /\ secret = 2
    BY <2>1, RingInvAt, RingSizes DEF Waits, Alone
  <2>4. ASSUME mishaps.died = 0
        PROVE  /\ key[r] = 1 => guess[r] <= 1 + BootDelay
               /\ key[r] = 2 => Scheduled(guess[r])
    BY <2>1, <2>4, RingInvAt DEF Uninterrupted
  <2>5. QED
    BY <2>2, <2>3, <2>4
<1>5. now <= guess[r] + Poll
  BY <1>1, <1>3, <1>4, RingInvAt, RingSizes, RingConstants DEF Clocked
<1>6. ASSUME Adopted(r, guess[r])
      PROVE  /\ Local(r)' /\ ring'[r][key[r]] = guess[r] /\ step'[r] = "add"
             /\ \A k \in Key : k # key[r] => ring'[r][k] = ring[r][k]
             /\ mishaps.died = 0 => Uninterrupted(r)'
  BY <1>1, <1>2, <1>4, <1>6, AdoptKeeps
<1>7. CASE entry[key[r]] # 0 /\ step'[r] = "read"
  <2>1. /\ Answer(TRUE) /\ entry' = entry
        /\ ring'[r] = ring[r] /\ signer'[r] = signer[r] /\ guess'[r] = guess[r]
    BY <1>1, <1>7 DEF Adopted
  <2>2. /\ mishaps'.died = mishaps.died
        /\ mishaps'.failed = 0 => mishaps.failed = 0
        /\ mishaps'.failed = 0 \/ mishaps'.died = 0
    BY <2>1, AnswerDoes DEF RingInv, OneKind
  <2>3. /\ \A k : (Pending(r, k)' <=> Pending(r, k)) /\ (Guessed(r, k)' <=> Guessed(r, k))
        /\ ~Decided(r) /\ ~Decided(r)'
    BY <1>1, <1>7 DEF Pending, Guessed, Decided
  <2>4. Entries(r)' = Entries(r)
    BY <2>1 DEF Entries
  <2>5. Local(r)'
    <3>1. Clocked(r)' /\ Alone(r)' /\ Seen(r)' /\ Waits(r)'
      BY <1>1, <1>2, <1>7, <2>1, <2>3, RingInvAt DEF Clocked, Alone, Seen, Waits
    <3>2. Held(r)' /\ Computed(r)'
      BY <1>1, <1>2, <1>7, <2>1, <2>3, <2>4, RingInvAt DEF Held, Computed
    <3>3. QED
      BY <3>1, <3>2 DEF Local
  <2>6. /\ Retirable' <=> Retirable
        /\ \A t : Scheduled(t)' <=> Scheduled(t)
        /\ (Over' <=> Over) /\ FirstBound' = FirstBound
    BY <1>1, <1>2, <2>1, StoreKept
  <2>7. Uninterrupted(r) => Uninterrupted(r)'
    BY <1>1, <1>2, <1>7, <2>1, <2>3, <2>6 DEF Uninterrupted
  <2>8. Recorded(r) => Recorded(r)'
    BY <1>1, <1>2, <1>7, <2>1, <2>3, <2>6 DEF Recorded
  <2>9. QED
    BY <1>1, <2>1, <2>2, <2>5, <2>7, <2>8, RingInvAt, OwnStepKeeps
<1>8. CASE Answer(FALSE) /\ entry' = entry /\ Adopted(r, guess[r])
  <2>1. /\ mishaps'.died = mishaps.died /\ mishaps'.failed # 0
        /\ mishaps'.failed = 0 \/ mishaps'.died = 0
    BY <1>8, AnswerDoes DEF RingInv, OneKind
  <2>2. ring[r][2] # 0 => ring'[r][2] # 0
    BY <1>3, <1>4, <1>6, <1>8
  <2>3. QED
    BY <1>1, <1>6, <1>8, <2>1, <2>2, OwnStepKeeps
<1>9. CASE /\ entry[key[r]] = 0 /\ Answer(TRUE)
           /\ entry' = [entry EXCEPT ![key[r]] = guess[r]] /\ Adopted(r, guess[r])
  <2>1. /\ mishaps'.died = mishaps.died
        /\ mishaps'.failed = 0 => mishaps.failed = 0
        /\ mishaps'.failed = 0 \/ mishaps'.died = 0
    BY <1>9, AnswerDoes DEF RingInv, OneKind
  <2>2. /\ entry'[key[r]] = guess[r]
        /\ \A k \in Key : k # key[r] => entry'[k] = entry[k]
    BY <1>3, <1>9
  <2>3. /\ Local(r)' /\ ring'[r][key[r]] = guess[r] /\ step'[r] = "add"
        /\ \A k \in Key : k # key[r] => ring'[r][k] = ring[r][k]
        /\ mishaps.died = 0 => Uninterrupted(r)'
    BY <1>6, <1>9
  <2>4. /\ secret = 1 => entry'[2] = 0 /\ 2 \notin index'
        /\ entry'[2] # 0 => issued + BootDelay <= entry'[2]
        /\ ring[r][2] # 0 => ring'[r][2] # 0
        /\ entry[2] # 0 => entry'[2] = entry[2]
        /\ entry[1] # 0 => entry'[1] # 0
    BY <1>1, <1>3, <1>4, <1>9, <2>2, <2>3 DEF RingInv, StoreSound
  <2>5. ASSUME mishaps.died = 0
        PROVE  /\ entry'[1] <= 1 + BootDelay
               /\ entry'[2] # 0 => Scheduled(entry'[2])
    BY <1>3, <1>4, <2>2, <2>5 DEF RingInv, StoreLags
  <2>6. ASSUME mishaps'.failed = 0 PROVE StoreKeeps' /\ Recorded(r)'
    <3>1. StoreKeeps /\ Recorded(r)
      BY <2>1, <2>6, RingInvAt DEF RingInv
    <3>2. key[r] = 1 => guess[r] <= FirstBound
      BY <1>1, <1>9, <3>1 DEF Recorded
    <3>3. entry'[1] <= FirstBound
      BY <1>3, <2>2, <3>1, <3>2 DEF StoreKeeps
    <3>4. /\ entry[2] = 0 /\ entry'[2] # 0 => now <= entry'[2] + Poll /\ entry'[2] \in Nat
          /\ 1 \in index' => entry'[1] # 0 \/ Over
          /\ 2 \in index' => entry'[2] # 0
          /\ secret = 2 => index' # {} /\ (1 \in index' \/ Over)
      BY <1>1, <1>3, <1>4, <1>5, <2>2, <2>4, <3>1 DEF StoreKeeps
    <3>5. StoreKeeps'
      BY <1>1, <2>4, <3>1, <3>3, <3>4, StoreKeepsNext
    <3>6. (Over => Over') /\ FirstBound' = FirstBound
      BY <1>2, <2>4 DEF Over, FirstBound
    <3>7. /\ ring'[r][2] # 0 => entry'[2] = ring'[r][2]
          /\ ring'[r][2] # 0 => 2 \in index' \/ (step'[r] = "add" /\ key'[r] = 2)
          /\ ring'[r][1] <= FirstBound'
          /\ ring'[r][1] # 0 => entry'[1] # 0 \/ Over'
      BY <1>1, <1>3, <1>4, <2>2, <2>3, <2>4, <3>1, <3>2, <3>6 DEF Recorded
    <3>8. Recorded(r)'
      BY <2>3, <3>7 DEF Recorded, Decided
    <3>9. QED
      BY <3>5, <3>8
  <2>7. 2 \in index => 2 \in index'
    BY <1>1
  <2>8. QED
    BY <1>1, <2>1, <2>3, <2>4, <2>5, <2>6, <2>7, StoreStepKeeps
<1>10. QED
  BY <1>1, <1>7, <1>8, <1>9

\* A key that the replica holds, and so has recorded, is indexed: by record
\* and by refresh.
LEMMA IndexKeeps ==
    ASSUME RingTypeOK, RingInv, Timings, NEW r \in Replica, AddKey(r) \/ RefreshAdd(r), OneKind'
    PROVE  RingInv'
<1>1. /\ Own(r) /\ entry' = entry /\ valid' = valid
      /\ \/ step[r] = "add" /\ step'[r] = "members" /\ left'[r] = left[r]
         \/ step[r] = "refreshAdd" /\ step'[r] = "refresh" /\ left'[r] = left[r] \ {key[r]}
      /\ file'[r] = file[r] /\ ring'[r] = ring[r] /\ signer'[r] = signer[r]
      /\ active'[r] = active[r] /\ published'[r] = published[r] /\ at'[r] = at[r]
      /\ key'[r] = key[r] /\ guess'[r] = guess[r] /\ fresh'[r] = fresh[r]
  BY AddKeyDoes, RefreshAddDoes
<1>2. PICK ok \in BOOLEAN :
         Answer(ok) /\ (ok => index' = index \cup {key[r]}) /\ (~ok => index' = index)
  BY AddKeyDoes, RefreshAddDoes
<1>3. /\ mishaps'.died = mishaps.died
      /\ mishaps'.failed = 0 => mishaps.failed = 0 /\ ok
      /\ mishaps'.failed = 0 \/ mishaps'.died = 0
  BY <1>2, AnswerDoes DEF RingInv, OneKind
<1>4. now' = now /\ secret' = secret /\ issued' = issued /\ Entries(r)' = Entries(r)
  BY <1>1 DEF Own, Entries
<1>5. /\ \A k : ~Pending(r, k) /\ ~Pending(r, k)' /\ ~Guessed(r, k) /\ ~Guessed(r, k)'
      /\ ~Decided(r) /\ ~Decided(r)'
  BY <1>1 DEF Pending, Guessed, Decided
<1>6. key[r] \in {1, 2} /\ ring[r][key[r]] # 0
  <2>1. key[r] \in {1, 2} /\ key[r] \in Entries(r)
    BY <1>1, RingInvAt, RingSizes DEF Held
  <2>2. QED
    BY <2>1, EntriesAre
<1>7. Local(r)'
  <2>1. Clocked(r)' /\ Alone(r)' /\ Seen(r)' /\ Waits(r)'
    BY <1>1, <1>4, <1>5, RingInvAt DEF Clocked, Alone, Seen, Waits
  <2>2. Held(r)' /\ Computed(r)'
    BY <1>1, <1>4, <1>5, RingInvAt DEF Held, Computed
  <2>3. QED
    BY <2>1, <2>2 DEF Local
<1>8. index \subseteq index' /\ (secret = 1 => 2 \notin index')
  BY <1>2, <1>6, RingInvAt DEF RingInv, StoreSound, Alone
<1>9. /\ Retirable' <=> Retirable
      /\ \A t : Scheduled(t)' <=> Scheduled(t)
      /\ (Over' <=> Over) /\ FirstBound' = FirstBound
  BY <1>1, <1>4 DEF Retirable, Scheduled, Over, FirstBound
<1>10. Uninterrupted(r) => Uninterrupted(r)'
  BY <1>1, <1>4, <1>5, <1>9 DEF Uninterrupted
<1>11. ASSUME mishaps'.failed = 0 PROVE StoreKeeps' /\ Recorded(r)'
  <2>1. StoreKeeps /\ Recorded(r) /\ index' = index \cup {key[r]}
    BY <1>2, <1>3, <1>11, RingInvAt DEF RingInv
  <2>2. StoreKeeps'
    <3>1. entry[key[r]] # 0 \/ (key[r] = 1 /\ Over)
      BY <1>6, <2>1 DEF Recorded
    <3>2. /\ 1 \in index' => entry[1] # 0 \/ Over
          /\ 2 \in index' => entry[2] # 0
      BY <1>6, <2>1, <3>1 DEF StoreKeeps
    <3>3. secret = 2 => index' # {} /\ (1 \in index' \/ Over)
      BY <2>1 DEF StoreKeeps
    <3>4. QED
      BY <1>1, <1>4, <1>9, <2>1, <3>2, <3>3 DEF StoreKeeps
  <2>3. ring[r][2] # 0 => 2 \in index'
    BY <2>1 DEF Recorded
  <2>4. QED
    BY <1>1, <1>4, <1>5, <1>9, <2>1, <2>2, <2>3 DEF Recorded
<1>12. /\ secret = 1 => entry[2] = 0
       /\ entry[2] # 0 => issued + BootDelay <= entry[2]
       /\ mishaps.died = 0 =>
             /\ Uninterrupted(r) /\ entry[1] <= 1 + BootDelay
             /\ entry[2] # 0 => Scheduled(entry[2])
  BY RingInvAt DEF RingInv, StoreSound, StoreLags
<1>13. QED
  BY <1>1, <1>3, <1>7, <1>8, <1>10, <1>11, <1>12, StoreStepKeeps

\* refresh writes the schedule the store has already, or the replica's own.
LEMMA RefreshSetKeeps ==
    ASSUME RingTypeOK, RingInv, Timings, NEW r \in Replica, RefreshSet(r), OneKind'
    PROVE  RingInv'
<1>1. /\ Own(r) /\ index' = index /\ valid' = valid
      /\ step[r] = "refresh" /\ step'[r] = "refreshAdd"
      /\ file'[r] = file[r] /\ ring'[r] = ring[r] /\ signer'[r] = signer[r]
      /\ active'[r] = active[r] /\ published'[r] = published[r] /\ at'[r] = at[r]
      /\ guess'[r] = guess[r] /\ left'[r] = left[r] /\ fresh'[r] = fresh[r]
  BY RefreshSetDoes
<1>2. PICK k \in left[r], ok \in BOOLEAN :
         /\ Answer(ok) /\ key'[r] = k
         /\ ok => entry' = [entry EXCEPT ![k] = ring[r][k]]
         /\ ~ok => entry' = entry
  BY RefreshSetDoes
<1>3. /\ mishaps'.died = mishaps.died
      /\ mishaps'.failed = 0 => mishaps.failed = 0 /\ ok
      /\ mishaps'.failed = 0 \/ mishaps'.died = 0
  BY <1>2, AnswerDoes DEF RingInv, OneKind
<1>4. now' = now /\ secret' = secret /\ issued' = issued /\ Entries(r)' = Entries(r)
  BY <1>1 DEF Own, Entries
<1>5. /\ \A j : ~Pending(r, j) /\ ~Pending(r, j)' /\ ~Guessed(r, j) /\ ~Guessed(r, j)'
      /\ ~Decided(r) /\ ~Decided(r)'
  BY <1>1 DEF Pending, Guessed, Decided
<1>6. k \in Entries(r) /\ k \in {1, 2} /\ ring[r][k] # 0
  <2>1. k \in Entries(r)
    BY <1>1, RingInvAt DEF Held
  <2>2. QED
    BY <2>1, EntriesAre
<1>7. /\ entry'[k] = ring[r][k] \/ entry'[k] = entry[k]
      /\ ok => entry'[k] = ring[r][k]
      /\ \A j \in {1, 2} : j # k => entry'[j] = entry[j]
  <2>1. entry \in [Key -> Nat] /\ Key = {1, 2}
    BY RingSizes, TwoKeys
  <2>2. QED
    BY <1>2, <1>6, <2>1
<1>8. Local(r)'
  <2>1. Clocked(r)' /\ Alone(r)' /\ Seen(r)' /\ Waits(r)'
    BY <1>1, <1>4, <1>5, RingInvAt DEF Clocked, Alone, Seen, Waits
  <2>2. Held(r)' /\ Computed(r)'
    BY <1>1, <1>2, <1>4, <1>5, <1>6, RingInvAt DEF Held, Computed
  <2>3. QED
    BY <2>1, <2>2 DEF Local
<1>9. /\ Retirable' <=> Retirable
      /\ \A t : Scheduled(t)' <=> Scheduled(t)
      /\ FirstBound' = FirstBound
  BY <1>4 DEF Retirable, Scheduled, FirstBound
<1>10. ASSUME mishaps.died = 0
       PROVE  /\ Uninterrupted(r)'
              /\ entry'[1] <= 1 + BootDelay
              /\ entry'[2] # 0 => Scheduled(entry'[2])
  <2>1. Uninterrupted(r) /\ StoreLags
    BY <1>10, RingInvAt DEF RingInv
  <2>2. Uninterrupted(r)'
    BY <1>1, <1>4, <1>5, <1>9, <2>1 DEF Uninterrupted
  <2>3. QED
    BY <1>6, <1>7, <2>1, <2>2 DEF Uninterrupted, StoreLags
<1>11. /\ secret = 1 => entry'[2] = 0 /\ 2 \notin index'
       /\ entry'[2] # 0 => issued + BootDelay <= entry'[2]
       /\ entry[2] # 0 => entry'[2] # 0
  BY <1>1, <1>6, <1>7, RingInvAt DEF RingInv, StoreSound, Alone, Waits
<1>12. ASSUME mishaps'.failed = 0
       PROVE  /\ StoreKeeps' /\ Recorded(r)'
              /\ entry[2] # 0 => entry'[2] = entry[2]
              /\ entry[1] # 0 => entry'[1] # 0
  <2>1. StoreKeeps /\ Recorded(r) /\ entry'[k] = ring[r][k]
    BY <1>3, <1>7, <1>12, RingInvAt DEF RingInv
  <2>2. entry'[2] = entry[2] /\ (entry[1] # 0 => entry'[1] # 0)
    BY <1>6, <1>7, <2>1 DEF Recorded
  <2>3. Over' <=> Over
    BY <1>4, <2>2 DEF Over
  <2>4. entry'[1] <= FirstBound
    BY <1>6, <1>7, <2>1 DEF Recorded, StoreKeeps
  <2>5. StoreKeeps'
    BY <1>1, <1>4, <1>9, <2>1, <2>2, <2>3, <2>4 DEF StoreKeeps
  <2>6. Recorded(r)'
    BY <1>1, <1>4, <1>5, <1>9, <2>1, <2>2, <2>3 DEF Recorded
  <2>7. QED
    BY <2>2, <2>5, <2>6
<1>13. QED
  BY <1>1, <1>3, <1>8, <1>10, <1>11, <1>12, StoreStepKeeps

\* The record of the first key is deleted once nobody needs it.
LEMMA DeleteKeyKeeps ==
    ASSUME RingTypeOK, RingInv, Timings, NEW r \in Replica, DeleteKey(r), OneKind'
    PROVE  RingInv'
<1>1. /\ Own(r) /\ index' = index /\ valid' = valid
      /\ step[r] = "retire" /\ step'[r] = "remove"
      /\ file'[r] = file[r] /\ ring'[r] = ring[r] /\ signer'[r] = signer[r]
      /\ active'[r] = active[r] /\ published'[r] = published[r] /\ at'[r] = at[r]
      /\ guess'[r] = guess[r] /\ left'[r] = left[r] /\ fresh'[r] = fresh[r]
  BY DeleteKeyDoes
<1>2. PICK k \in left[r], ok \in BOOLEAN :
         /\ Answer(ok) /\ key'[r] = k
         /\ ok => entry' = [entry EXCEPT ![k] = 0]
         /\ ~ok => entry' = entry
  BY DeleteKeyDoes
<1>3. /\ mishaps'.died = mishaps.died
      /\ mishaps'.failed = 0 => mishaps.failed = 0 /\ ok
      /\ mishaps'.failed = 0 \/ mishaps'.died = 0
  BY <1>2, AnswerDoes DEF RingInv, OneKind
<1>4. now' = now /\ secret' = secret /\ issued' = issued /\ Entries(r)' = Entries(r)
  BY <1>1 DEF Own, Entries
<1>5. /\ \A j : ~Pending(r, j) /\ ~Pending(r, j)' /\ ~Guessed(r, j) /\ ~Guessed(r, j)'
      /\ Decided(r) /\ Decided(r)'
  BY <1>1 DEF Pending, Guessed, Decided
<1>6. k = 1 /\ left[r] # {}
  BY <1>5, RingInvAt DEF Computed
<1>7. /\ entry'[2] = entry[2]
      /\ entry'[1] = entry[1] \/ entry'[1] = 0
  <2>1. entry \in [Key -> Nat] /\ Key = {1, 2}
    BY RingSizes, TwoKeys
  <2>2. QED
    BY <1>2, <1>6, <2>1
<1>8. Local(r)'
  <2>1. Clocked(r)' /\ Alone(r)' /\ Seen(r)' /\ Waits(r)'
    BY <1>1, <1>4, <1>5, RingInvAt DEF Clocked, Alone, Seen, Waits
  <2>2. Held(r)' /\ Computed(r)'
    BY <1>1, <1>2, <1>4, <1>5, RingInvAt DEF Held, Computed
  <2>3. QED
    BY <2>1, <2>2 DEF Local
<1>9. /\ Retirable' <=> Retirable
      /\ \A t : Scheduled(t)' <=> Scheduled(t)
      /\ FirstBound' = FirstBound /\ (Over' <=> Over)
  BY <1>4, <1>7 DEF Retirable, Scheduled, FirstBound, Over
<1>10. ASSUME mishaps.died = 0
       PROVE  /\ Uninterrupted(r)'
              /\ entry'[1] <= 1 + BootDelay
              /\ entry'[2] # 0 => Scheduled(entry'[2])
  <2>1. Uninterrupted(r) /\ StoreLags
    BY <1>10, RingInvAt DEF RingInv
  <2>2. Uninterrupted(r)'
    BY <1>1, <1>4, <1>5, <1>9, <2>1 DEF Uninterrupted
  <2>3. QED
    BY <1>7, <2>1, <2>2, RingConstants DEF StoreLags
<1>11. /\ secret = 1 => entry'[2] = 0 /\ 2 \notin index'
       /\ entry'[2] # 0 => issued + BootDelay <= entry'[2]
  BY <1>1, <1>7 DEF RingInv, StoreSound
<1>12. ASSUME mishaps'.failed = 0 PROVE Over /\ StoreKeeps' /\ Recorded(r)'
  <2>1. StoreKeeps /\ Recorded(r)
    BY <1>3, <1>12, RingInvAt DEF RingInv
  <2>2. Over
    BY <1>5, <1>6, <2>1 DEF Recorded
  <2>3. entry'[1] <= FirstBound
    BY <1>7, <2>1, RingSizes DEF StoreKeeps, FirstBound
  <2>4. StoreKeeps'
    BY <1>1, <1>4, <1>7, <1>9, <2>1, <2>2, <2>3 DEF StoreKeeps
  <2>5. Recorded(r)'
    BY <1>1, <1>4, <1>5, <1>7, <1>9, <2>1, <2>2 DEF Recorded
  <2>6. QED
    BY <2>2, <2>4, <2>5
<1>13. QED
  BY <1>1, <1>3, <1>7, <1>8, <1>10, <1>11, <1>12, StoreStepKeeps

\* ... and leaves the index, where the second key stays.
LEMMA RemoveKeyKeeps ==
    ASSUME RingTypeOK, RingInv, Timings, NEW r \in Replica, RemoveKey(r), OneKind'
    PROVE  RingInv'
<1>1. /\ Own(r) /\ entry' = entry /\ valid' = valid
      /\ step[r] = "remove" /\ step'[r] = "retire" /\ left'[r] = left[r] \ {key[r]}
      /\ file'[r] = file[r] /\ ring'[r] = ring[r] /\ signer'[r] = signer[r]
      /\ active'[r] = active[r] /\ published'[r] = published[r] /\ at'[r] = at[r]
      /\ key'[r] = key[r] /\ guess'[r] = guess[r] /\ fresh'[r] = fresh[r]
  BY RemoveKeyDoes
<1>2. PICK ok \in BOOLEAN :
         Answer(ok) /\ (ok => index' = index \ {key[r]}) /\ (~ok => index' = index)
  BY RemoveKeyDoes
<1>3. /\ mishaps'.died = mishaps.died
      /\ mishaps'.failed = 0 => mishaps.failed = 0 /\ ok
      /\ mishaps'.failed = 0 \/ mishaps'.died = 0
  BY <1>2, AnswerDoes DEF RingInv, OneKind
<1>4. now' = now /\ secret' = secret /\ issued' = issued /\ Entries(r)' = Entries(r)
  BY <1>1 DEF Own, Entries
<1>5. /\ \A k : ~Pending(r, k) /\ ~Pending(r, k)' /\ ~Guessed(r, k) /\ ~Guessed(r, k)'
      /\ Decided(r) /\ Decided(r)'
  BY <1>1 DEF Pending, Guessed, Decided
<1>6. key[r] = 1 /\ left[r] # {} /\ ring[r][2] # 0
  BY <1>1, <1>5, RingInvAt DEF Computed
<1>7. Local(r)'
  <2>1. Clocked(r)' /\ Alone(r)' /\ Seen(r)' /\ Waits(r)'
    BY <1>1, <1>4, <1>5, RingInvAt DEF Clocked, Alone, Seen, Waits
  <2>2. Held(r)' /\ Computed(r)'
    BY <1>1, <1>4, <1>5, RingInvAt DEF Held, Computed
  <2>3. QED
    BY <2>1, <2>2 DEF Local
<1>8. (2 \in index' <=> 2 \in index) /\ index' \subseteq index
  BY <1>2, <1>6
<1>9. /\ Retirable' <=> Retirable
      /\ \A t : Scheduled(t)' <=> Scheduled(t)
      /\ (Over' <=> Over) /\ FirstBound' = FirstBound
  BY <1>1, <1>4 DEF Retirable, Scheduled, Over, FirstBound
<1>10. ASSUME mishaps.died = 0 PROVE Uninterrupted(r)' /\ Retirable
  <2>1. Uninterrupted(r)
    BY <1>10, RingInvAt
  <2>2. Retirable
    BY <1>5, <1>6, <2>1 DEF Uninterrupted
  <2>3. QED
    BY <1>1, <1>4, <1>5, <1>9, <2>1, <2>2 DEF Uninterrupted
<1>11. ASSUME mishaps'.failed = 0 PROVE StoreKeeps' /\ Recorded(r)'
  <2>1. StoreKeeps /\ Recorded(r)
    BY <1>3, <1>11, RingInvAt DEF RingInv
  <2>2. Over /\ 2 \in index'
    BY <1>1, <1>5, <1>6, <1>8, <2>1 DEF Recorded
  <2>3. StoreKeeps'
    BY <1>1, <1>4, <1>8, <1>9, <2>1, <2>2 DEF StoreKeeps
  <2>4. Recorded(r)'
    BY <1>1, <1>4, <1>5, <1>9, <2>1, <2>2 DEF Recorded
  <2>5. QED
    BY <2>3, <2>4
<1>12. /\ secret = 1 => entry[2] = 0 /\ 2 \notin index'
       /\ entry[2] # 0 => issued + BootDelay <= entry[2]
       /\ mishaps.died = 0 =>
             /\ entry[1] <= 1 + BootDelay
             /\ entry[2] # 0 => Scheduled(entry[2])
  BY <1>8 DEF RingInv, StoreSound, StoreLags
<1>13. QED
  BY <1>1, <1>3, <1>7, <1>8, <1>10, <1>11, <1>12, StoreStepKeeps

----------------------------------------------------------------------------
(* Tokens, the Secret and the clock.                                       *)

\* A replica signs with the first key only before the second is active for
\* it, or while it has not read the second.
LEMMA SignsFirst ==
    ASSUME RingTypeOK, RingInv, Timings, NEW r \in Replica, step[r] = "idle",
           1 \in Signs(r), secret = 2
    PROVE  \/ now <= issued + Sync + Poll
           \/ ring[r][2] # 0 /\ now < ring[r][2] + Poll
<1>1. signer[r] \subseteq {1, 2} /\ ring[r][1] \in Nat /\ ring[r][2] \in Nat
  BY RingSizes
<1>2. ~Pending(r, 2) /\ Decided(r)
  BY DEF Pending, Decided
<1>3. CASE 2 \notin signer[r]
  <2>1. ~(at[r] > issued + Sync) /\ now <= at[r] + Poll
    BY <1>2, <1>3, RingInvAt DEF Seen, Clocked
  <2>2. QED
    BY <2>1, RingSizes, RingConstants
<1>4. CASE 2 \in signer[r]
  <2>1. ring[r][2] # 0
    BY <1>4, RingInvAt, EntriesAre DEF Held
  <2>2. active[r] = 1
    <3>1. CASE active[r] \in signer[r]
      BY <3>1 DEF Signs
    <3>2. CASE active[r] \notin signer[r]
      <4>1. 1 \in signer[r] /\ ring[r][2] <= ring[r][1]
        BY <1>4, <3>2 DEF Signs
      <4>2. ring[r][1] # 0
        BY <4>1, RingInvAt, EntriesAre DEF Held
      <4>3. QED
        BY <4>1, <4>2, <2>1, <1>1, FirstBeforeSecond
    <3>3. QED
      BY <3>1, <3>2
  <2>3. at[r] < ring[r][2] /\ now <= at[r] + Poll
    BY <1>2, <2>1, <2>2, RingInvAt DEF Computed, Clocked
  <2>4. QED
    BY <2>1, <2>3, RingSizes, RingConstants
<1>5. QED
  BY <1>3, <1>4

\* A token outlives neither the overlap nor the lag of the replica that signed it.
LEMMA SignKeeps ==
    ASSUME RingTypeOK, RingInv, Timings, NEW r \in Replica, Sign(r)
    PROVE  RingInv'
<1>1. /\ \A s \in Replica : Untouched(s)
      /\ now' = now /\ secret' = secret /\ issued' = issued
      /\ mishaps' = mishaps /\ entry' = entry /\ index' = index /\ step[r] = "idle"
      /\ \A s \in Replica : ring'[s] = ring[s]
  BY DEF Sign, Untouched, storeVars, ringVars
<1>2. PICK k \in Signs(r) : valid' = [valid EXCEPT ![k] = TokenLife]
  BY DEF Sign
<1>3. k \in signer[r] /\ signer[r] \subseteq {1, 2} /\ Key = {1, 2}
  BY RingSizes, TwoKeys DEF Signs
<1>4. /\ k = 1 => valid'[1] = TokenLife /\ valid'[2] = valid[2]
      /\ k = 2 => valid'[1] = valid[1]
  BY <1>2, <1>3 DEF RingTypeOK
<1>5. StoreSound'
  <2>1. k = 2 => ring[r][2] # 0
    BY <1>3, RingInvAt, EntriesAre DEF Held
  <2>2. QED
    BY <1>1, <1>3, <1>4, <2>1 DEF RingInv, StoreSound
<1>6. /\ Retirable' <=> Retirable
      /\ \A t : Scheduled(t)' <=> Scheduled(t)
      /\ (Over' <=> Over) /\ FirstBound' = FirstBound
  BY <1>1 DEF Retirable, Scheduled, Over, FirstBound
<1>7. k = 1 /\ secret = 2 =>
         now <= issued + Sync + Poll \/ (ring[r][2] # 0 /\ now < ring[r][2] + Poll)
  BY <1>1, SignsFirst
<1>8. ASSUME mishaps.died = 0 PROVE StoreLags'
  <2>1. StoreLags /\ Uninterrupted(r)
    BY <1>8, RingInvAt DEF RingInv
  <2>2. secret = 2 /\ k = 1 => now <= issued + Delay + Sync + Poll + Poll
    BY <1>7, <2>1, RingSizes, RingConstants DEF Uninterrupted, Scheduled
  <2>3. secret' = 2 /\ valid'[1] > 0 =>
           now' + valid'[1] <= TokenLife + issued' + Delay + Sync + Poll + Poll
    BY <1>1, <1>3, <1>4, <2>1, <2>2, RingSizes, RingConstants DEF StoreLags
  <2>4. QED
    BY <1>1, <1>6, <2>1, <2>3 DEF StoreLags
<1>9. ASSUME mishaps.failed = 0 PROVE StoreKeeps'
  <2>1. StoreKeeps /\ Recorded(r)
    BY <1>9, RingInvAt DEF RingInv
  <2>2. entry[2] # 0 => secret = 2 /\ issued + BootDelay <= entry[2]
    BY RingSizes DEF RingInv, StoreSound
  <2>3. entry[2] # 0 /\ k = 1 => now <= entry[2] + Poll
    BY <1>7, <2>1, <2>2, RingSizes, RingConstants DEF Recorded, Timings
  <2>4. entry'[2] # 0 /\ valid'[1] > 0 => now' + valid'[1] <= TokenLife + entry'[2] + Poll
    BY <1>1, <1>3, <1>4, <2>1, <2>3, RingSizes, RingConstants DEF StoreKeeps
  <2>5. QED
    BY <1>1, <1>6, <2>1, <2>4 DEF StoreKeeps
<1>10. Own(r)
  BY <1>1 DEF Own
<1>11. Local(r)' /\ (Uninterrupted(r) => Uninterrupted(r)')
  BY <1>1, LocalKept DEF RingInv
<1>12. mishaps.failed = 0 => \A s \in Replica : Recorded(s)'
  BY <1>1, RecordedKept, RingInvAt
<1>13. QED
  BY <1>1, <1>5, <1>8, <1>9, <1>10, <1>11, <1>12, RingInvAt, RingInvKept DEF RingInv

\* The second key is issued when the first is recorded and every file shows it.
LEMMA RotateKeeps ==
    ASSUME RingTypeOK, RingInv, Timings, Rotate
    PROVE  RingInv'
<1>1. /\ \A s \in Replica : Untouched(s)
      /\ now' = now /\ issued' = now /\ valid' = valid
      /\ mishaps' = mishaps /\ entry' = entry /\ index' = index
      /\ secret \in index /\ secret' = secret + 1 /\ secret < NKeys
  BY DEF Rotate, Untouched, storeVars, ringVars
<1>2. secret = 1 /\ secret' = 2 /\ 1 \in index /\ now \in Nat
  BY <1>1 DEF Timings, RingTypeOK, Key
<1>3. entry[2] = 0 /\ 2 \notin index
  BY <1>2 DEF RingInv, StoreSound
<1>4. ASSUME NEW s \in Replica
      PROVE  /\ \A k : (Pending(s, k)' <=> Pending(s, k)) /\ (Guessed(s, k)' <=> Guessed(s, k))
             /\ (Decided(s)' <=> Decided(s)) /\ Entries(s)' = Entries(s)
             /\ file'[s] = file[s] /\ ring'[s] = ring[s] /\ signer'[s] = signer[s]
             /\ active'[s] = active[s] /\ published'[s] = published[s]
             /\ step'[s] = step[s] /\ at'[s] = at[s] /\ key'[s] = key[s]
             /\ guess'[s] = guess[s] /\ left'[s] = left[s] /\ fresh'[s] = fresh[s]
             /\ ring[s][2] = 0 /\ ~Pending(s, 2) /\ ~Guessed(s, 2)
             /\ step[s] # "down" => at[s] <= now /\ now <= at[s] + Poll
  <2>1. Untouched(s) /\ Alone(s)
    BY <1>1, RingInvAt
  <2>2. Entries(s)' = Entries(s)
    BY <2>1 DEF Untouched, Entries
  <2>3. \A k : (Pending(s, k)' <=> Pending(s, k)) /\ (Guessed(s, k)' <=> Guessed(s, k))
    BY <2>1 DEF Untouched, Pending, Guessed
  <2>4. ring[s][2] = 0 /\ ~Pending(s, 2) /\ ~Guessed(s, 2)
    BY <1>2, <2>1 DEF Alone, Pending, Guessed
  <2>5. step[s] # "down" => at[s] <= now /\ now <= at[s] + Poll
    BY RingInvAt DEF Clocked
  <2>6. QED
    BY <2>1, <2>2, <2>3, <2>4, <2>5 DEF Untouched, Decided
<1>5. ASSUME NEW s \in Replica PROVE Local(s)'
  <2>1. Clocked(s)' /\ Alone(s)'
    BY <1>1, <1>2, <1>4, RingConstants DEF Clocked, Alone
  <2>2. Held(s)' /\ Computed(s)'
    BY <1>4, RingInvAt DEF Held, Computed
  <2>3. Seen(s)'
    BY <1>1, <1>2, <1>4, RingInvAt, RingSizes, RingConstants DEF Seen
  <2>4. Waits(s)'
    <3>1. Pending(s, 1) => at[s] <= now + Sync
      BY <1>2, <1>4, RingSizes, RingConstants DEF Pending
    <3>2. QED
      BY <1>1, <1>2, <1>4, <3>1, RingInvAt DEF Waits
  <2>5. QED
    BY <2>1, <2>2, <2>3, <2>4 DEF Local
<1>6. ~Retirable /\ ~Over /\ ~Over' /\ ~Retirable' /\ FirstBound' = now /\ FirstBound = now
  BY <1>1, <1>2, <1>3, RingConstants DEF Retirable, Over, FirstBound
<1>7. ASSUME NEW s \in Replica, Uninterrupted(s) PROVE Uninterrupted(s)'
  BY <1>4, <1>6, <1>7 DEF Uninterrupted
<1>8. ASSUME NEW s \in Replica, Recorded(s) PROVE Recorded(s)'
  <2>1. step[s] \in {"absorb", "refresh", "refreshAdd"} \/ Decided(s) => ring[s][1] # 0
    <3>1. ASSUME step[s] \in {"absorb", "refresh", "refreshAdd"} \/ Decided(s)
          PROVE  ring[s][1] # 0
      <4>1. signer[s] # {} /\ signer[s] \subseteq Entries(s)
        BY <3>1, RingInvAt DEF Seen, Held, Pending, Decided
      <4>2. QED
        BY <1>4, <4>1, EntriesAre
    <3>2. QED
      BY <3>1
  <2>2. QED
    BY <1>1, <1>4, <1>6, <1>8, <2>1 DEF Recorded
<1>9. StoreSound'
  <2>1. \A s \in Replica : ring'[s] = ring[s]
    BY <1>4
  <2>2. QED
    BY <1>1, <1>2, <1>3, <2>1 DEF RingInv, StoreSound
<1>10. StoreLags => StoreLags'
  <2>1. now' + valid'[1] <= TokenLife + issued' + Delay + Sync + Poll + Poll
    <3>1. valid[1] \in 0 .. TokenLife
      BY TwoKeys DEF RingTypeOK
    <3>2. QED
      BY <1>1, <1>2, <3>1, RingConstants
  <2>2. QED
    BY <1>1, <1>2, <1>3, <2>1 DEF StoreLags
<1>11. StoreKeeps => StoreKeeps'
  BY <1>1, <1>2, <1>3, <1>6 DEF StoreKeeps
<1>12. QED
  BY <1>1, <1>5, <1>7, <1>8, <1>9, <1>10, <1>11 DEF RingInv

\* Time passes while every replica polls and every file keeps up.
LEMMA TickKeeps ==
    ASSUME RingTypeOK, RingInv, Timings, Tick
    PROVE  RingInv'
<1>1. /\ \A s \in Replica : Untouched(s)
      /\ now' = now + 1 /\ issued' = issued /\ secret' = secret
      /\ mishaps' = mishaps /\ entry' = entry /\ index' = index
  BY DEF Tick, Untouched, storeVars, ringVars
<1>2. /\ now \in Nat /\ issued \in Nat /\ secret \in {1, 2} /\ entry[2] \in Nat
      /\ entry[1] \in Nat /\ valid[1] \in Nat /\ valid[2] \in Nat
  BY TwoKeys, RingConstants DEF RingTypeOK
<1>3. /\ valid'[1] = IF valid[1] = 0 THEN 0 ELSE valid[1] - 1
      /\ valid'[2] = IF valid[2] = 0 THEN 0 ELSE valid[2] - 1
  BY TwoKeys DEF Tick
<1>4. ASSUME NEW s \in Replica
      PROVE  /\ \A k : (Pending(s, k)' <=> Pending(s, k)) /\ (Guessed(s, k)' <=> Guessed(s, k))
             /\ (Decided(s)' <=> Decided(s)) /\ Entries(s)' = Entries(s)
             /\ file'[s] = file[s] /\ ring'[s] = ring[s] /\ signer'[s] = signer[s]
             /\ active'[s] = active[s] /\ published'[s] = published[s]
             /\ step'[s] = step[s] /\ at'[s] = at[s] /\ key'[s] = key[s]
             /\ guess'[s] = guess[s] /\ left'[s] = left[s] /\ fresh'[s] = fresh[s]
  <2>1. Untouched(s)
    BY <1>1
  <2>2. Entries(s)' = Entries(s)
    BY <2>1 DEF Untouched, Entries
  <2>3. \A k : (Pending(s, k)' <=> Pending(s, k)) /\ (Guessed(s, k)' <=> Guessed(s, k))
    BY <2>1 DEF Untouched, Pending, Guessed
  <2>4. QED
    BY <2>1, <2>2, <2>3 DEF Untouched, Decided
<1>5. ASSUME NEW s \in Replica PROVE Local(s)'
  <2>1. Clocked(s)'
    <3>1. /\ step[s] # "down" => now < at[s] + Poll
          /\ file[s] = secret \/ now < issued + Sync
      BY DEF Tick
    <3>2. at[s] \in Nat /\ file[s] \in {1, 2} /\ (step[s] # "down" => at[s] <= now)
      BY RingSizes, RingInvAt DEF Clocked
    <3>3. QED
      BY <1>1, <1>2, <1>4, <3>1, <3>2, RingConstants DEF Clocked
  <2>2. Alone(s)' /\ Seen(s)' /\ Waits(s)'
    BY <1>1, <1>4, RingInvAt DEF Alone, Seen, Waits
  <2>3. Held(s)' /\ Computed(s)'
    BY <1>4, RingInvAt DEF Held, Computed
  <2>4. QED
    BY <2>1, <2>2, <2>3 DEF Local
<1>6. /\ Retirable => Retirable'
      /\ Over => Over'
      /\ FirstBound <= FirstBound' /\ FirstBound \in Nat /\ FirstBound' \in Nat
      /\ \A t : Scheduled(t)' <=> Scheduled(t)
  BY <1>1, <1>2, RingConstants DEF Retirable, Over, FirstBound, Scheduled
<1>7. ASSUME NEW s \in Replica, Uninterrupted(s) PROVE Uninterrupted(s)'
  BY <1>1, <1>4, <1>6, <1>7 DEF Uninterrupted
<1>8. ASSUME NEW s \in Replica, Recorded(s) PROVE Recorded(s)'
  <2>1. /\ ring[s][1] <= FirstBound'
        /\ guess[s] <= FirstBound => guess[s] <= FirstBound'
    BY <1>6, <1>8, RingSizes DEF Recorded
  <2>2. QED
    BY <1>1, <1>4, <1>6, <1>8, <2>1 DEF Recorded
<1>9. StoreSound'
  <2>1. \A s \in Replica : ring'[s] = ring[s]
    BY <1>4
  <2>2. QED
    BY <1>1, <1>2, <1>3, <2>1 DEF RingInv, StoreSound
<1>10. StoreLags => StoreLags'
  BY <1>1, <1>2, <1>3, <1>6, RingConstants DEF StoreLags
<1>11. StoreKeeps => StoreKeeps'
  BY <1>1, <1>2, <1>3, <1>6, RingConstants DEF StoreKeeps
<1>12. QED
  BY <1>1, <1>5, <1>7, <1>8, <1>9, <1>10, <1>11 DEF RingInv

----------------------------------------------------------------------------
(* The invariant, and what follows.                                        *)

\* Every replica starts by recording the first key.
LEMMA RingInvInit ==
    ASSUME RingInit, Timings
    PROVE  RingInv
<1>1. Key = {1, 2}
  BY TwoKeys
<1>2. /\ now = 1 /\ secret = 1 /\ issued = 1 /\ index = {}
      /\ entry[1] = 0 /\ entry[2] = 0 /\ valid[1] = 0 /\ valid[2] = 0
      /\ mishaps.failed = 0 /\ mishaps.died = 0
  BY <1>1 DEF RingInit
<1>3. ASSUME NEW r \in Replica
      PROVE  /\ file[r] = 1 /\ ring[r][1] = 0 /\ ring[r][2] = 0 /\ signer[r] = {}
             /\ active[r] = 0 /\ published[r] = {} /\ step[r] = "first" /\ at[r] = 1
             /\ key[r] = 1 /\ guess[r] = 0 /\ left[r] = {} /\ fresh[r]
  BY <1>1 DEF RingInit
<1>4. ASSUME NEW r \in Replica
      PROVE  /\ Pending(r, 1) /\ ~Pending(r, 2) /\ ~Decided(r)
             /\ \A k : ~Guessed(r, k) /\ (Pending(r, k) => k = 1)
  BY <1>3 DEF Pending, Guessed, Decided
<1>5. ASSUME NEW r \in Replica PROVE Local(r)
  BY <1>1, <1>2, <1>3, <1>4, RingConstants
     DEF Local, Clocked, Alone, Held, Seen, Waits, Computed
<1>6. ASSUME NEW r \in Replica PROVE Uninterrupted(r)
  BY <1>3, <1>4, RingConstants DEF Uninterrupted
<1>7. ASSUME NEW r \in Replica PROVE Recorded(r)
  BY <1>2, <1>3, <1>4 DEF Recorded, FirstBound
<1>8. StoreSound /\ StoreLags /\ StoreKeeps
  BY <1>2, RingConstants DEF StoreSound, StoreLags, StoreKeeps, FirstBound
<1>9. QED
  BY <1>2, <1>5, <1>6, <1>7, <1>8 DEF RingInv

\* Mishaps are not forgotten.
LEMMA OneKindBefore ==
    ASSUME RingTypeOK, [RingNext]_allRingVars
    PROVE  /\ OneKind' => OneKind
           /\ mishaps'.failed = 0 => mishaps.failed = 0
<1>1. mishaps \in [failed : 0 .. MaxFailures, died : 0 .. MaxDeaths]
  BY DEF RingTypeOK
<1>2. CASE mishaps' = mishaps
  BY <1>2 DEF OneKind
<1>3. ASSUME NEW ok \in BOOLEAN, Answer(ok)
      PROVE  /\ OneKind' => OneKind
             /\ mishaps'.failed = 0 => mishaps.failed = 0
  BY <1>3, AnswerDoes DEF OneKind
<1>4. ASSUME NEW r \in Replica, Crash(r)
      PROVE  /\ OneKind' => OneKind
             /\ mishaps'.failed = 0 => mishaps.failed = 0
  <2>1. mishaps'.failed = mishaps.failed /\ mishaps'.died # 0
    BY <1>1, <1>4, CrashDoes, RingConstants
  <2>2. QED
    BY <2>1 DEF OneKind
<1>5. ASSUME NEW r \in Replica, ObserveStep(r) \/ Sign(r) \/ Boot(r) \/ SyncFile(r)
      PROVE  mishaps' = mishaps \/ \E ok \in BOOLEAN : Answer(ok)
  <2>1. CASE FirstKey(r) \/ ReadClaim(r) \/ AddKey(r) \/ Members(r) \/ RefreshAdd(r) \/ RemoveKey(r)
    BY <2>1 DEF FirstKey, ReadClaim, AddKey, Members, RefreshAdd, RemoveKey
  <2>2. CASE Claim(r)
    BY <2>2 DEF Claim
  <2>3. CASE Absorb(r) \/ RefreshSet(r) \/ DeleteKey(r)
    BY <2>3 DEF Absorb, RefreshSet, DeleteKey
  <2>4. CASE Observe(r) \/ StartRefresh(r) \/ Recompute(r) \/ Finish(r) \/ Sign(r) \/ Boot(r) \/ SyncFile(r)
    BY <2>4 DEF Observe, StartRefresh, Recompute, Finish, Sign, Boot, SyncFile
  <2>5. QED
    BY <1>5, <2>1, <2>2, <2>3, <2>4 DEF ObserveStep
<1>6. CASE Rotate \/ Tick \/ UNCHANGED allRingVars
  BY <1>2, <1>6 DEF Rotate, Tick, allRingVars
<1>7. QED
  BY <1>2, <1>3, <1>4, <1>5, <1>6 DEF RingNext

\* Every step keeps the invariant, through outages or through restarts.
LEMMA RingInvStep ==
    ASSUME RingTypeOK, RingInv, Timings, [RingNext]_allRingVars, OneKind'
    PROVE  RingInv'
<1>1. CASE UNCHANGED allRingVars
  <2>1. /\ now' = now /\ secret' = secret /\ issued' = issued
        /\ mishaps' = mishaps /\ entry' = entry /\ index' = index /\ valid' = valid
        /\ \A s \in Replica : Untouched(s) /\ ring'[s] = ring[s]
    BY <1>1 DEF allRingVars, world, storeVars, ringVars, Untouched
  <2>2. \A s \in Replica : Local(s)' /\ (Uninterrupted(s) => Uninterrupted(s)')
    BY <2>1, LocalKept DEF RingInv
  <2>3. \A s \in Replica : Recorded(s) => Recorded(s)'
    BY <2>1, RecordedKept
  <2>4. (StoreLags => StoreLags') /\ (StoreKeeps => StoreKeeps')
    BY <2>1, StoreKept
  <2>5. StoreSound'
    BY <2>1 DEF RingInv, StoreSound
  <2>6. QED
    BY <2>1, <2>2, <2>3, <2>4, <2>5 DEF RingInv
<1>2. CASE RingNext
  BY <1>2, ObserveKeeps, FirstKeyKeeps, ClaimKeeps, ReadClaimKeeps, IndexKeeps, MembersKeeps,
     AbsorbKeeps, StartRefreshKeeps, RefreshSetKeeps, RecomputeKeeps, DeleteKeyKeeps,
     RemoveKeyKeeps, FinishKeeps, SignKeeps, CrashKeeps, BootKeeps, SyncFileKeeps,
     RotateKeeps, TickKeeps DEF RingNext, ObserveStep
<1>3. QED
  BY <1>1, <1>2

\* The invariant holds, given the margins.
LEMMA RingInvHolds ==
    ASSUME Timings
    PROVE  RingSpec => [](OneKind => RingInv)
<1>1. RingInit => (OneKind => RingInv)
  BY RingInvInit
<1>2. RingTypeOK /\ (OneKind => RingInv) /\ [RingNext]_allRingVars => (OneKind => RingInv)'
  BY RingInvStep, OneKindBefore
<1>3. QED
  BY <1>1, <1>2, RingTypeCorrect, PTL DEF RingSpec

\* A replica that is done holds every key another may be signing with, or
\* may have signed a live token with.
LEMMA FirstIsHeld ==
    ASSUME RingTypeOK, RingInv, Timings, NEW s \in Replica, step[s] = "idle", ring[s][1] = 0
    PROVE  /\ mishaps.died = 0 \/ Poll + TokenLife <= BootOverlap => valid[1] = 0
           /\ \A r \in Replica : step[r] = "idle" => ring[r][2] # 0 /\ ring[r][2] <= at[r]
<1>1. secret = 2
  <2>1. signer[s] # {} /\ signer[s] \subseteq Entries(s)
    BY RingInvAt DEF Seen, Held, Pending
  <2>2. ring[s][2] # 0
    BY <2>1, EntriesAre
  <2>3. QED
    BY <2>2, RingInvAt, RingSizes DEF Alone
<1>2. ASSUME NEW r \in Replica, step[r] = "idle", at[r] > issued + Sync PROVE ring[r][2] # 0
  BY <1>1, <1>2, RingInvAt, EntriesAre DEF Seen, Held, Pending
<1>3. CASE mishaps.died = 0
  <2>1. now > issued + Delay + Overlap
    BY <1>3, RingInvAt DEF Uninterrupted, Pending, Retirable
  <2>2. valid[1] = 0
    <3>1. valid[1] > 0 => now + valid[1] <= TokenLife + issued + Delay + Sync + Poll + Poll
      BY <1>1, <1>3 DEF RingInv, StoreLags
    <3>2. QED
      BY <2>1, <3>1, RingSizes, RingConstants DEF Timings
  <2>3. ASSUME NEW r \in Replica, step[r] = "idle" PROVE ring[r][2] # 0 /\ ring[r][2] <= at[r]
    <3>1. now <= at[r] + Poll /\ at[r] \in Nat /\ now \in Nat /\ issued \in Nat
      BY <2>3, RingInvAt, RingSizes DEF Clocked
    <3>2. ring[r][2] # 0
      BY <1>2, <2>1, <2>3, <3>1, RingConstants DEF Timings
    <3>3. ring[r][2] <= issued + Delay + Sync + Poll
      BY <1>3, <3>2, RingInvAt DEF Uninterrupted, Scheduled
    <3>4. QED
      BY <2>1, <3>1, <3>2, <3>3, RingSizes, RingConstants DEF Timings
  <2>4. QED
    BY <2>2, <2>3
<1>4. CASE mishaps.failed = 0
  <2>1. Over
    BY <1>1, <1>4, RingInvAt DEF Recorded, Decided
  <2>2. entry[2] # 0 /\ issued + BootDelay <= entry[2] /\ now > entry[2] + Poll
    BY <2>1, RingSizes, RingConstants DEF Over, RingInv, StoreSound, Timings
  <2>3. ASSUME Poll + TokenLife <= BootOverlap PROVE valid[1] = 0
    <3>1. valid[1] > 0 => now + valid[1] <= TokenLife + entry[2] + Poll
      BY <1>4, <2>2 DEF RingInv, StoreKeeps
    <3>2. now > entry[2] + Poll + TokenLife
      BY <2>1, <2>3, RingSizes, RingConstants DEF Over, Timings
    <3>3. QED
      BY <3>1, <3>2, RingSizes, RingConstants
  <2>4. ASSUME NEW r \in Replica, step[r] = "idle" PROVE ring[r][2] # 0 /\ ring[r][2] <= at[r]
    <3>1. now <= at[r] + Poll /\ at[r] \in Nat /\ now \in Nat /\ issued \in Nat /\ entry[2] \in Nat
      BY <2>4, RingInvAt, RingSizes DEF Clocked
    <3>2. ring[r][2] # 0
      BY <1>2, <2>2, <2>4, <3>1, RingConstants DEF Timings
    <3>3. ring[r][2] = entry[2]
      BY <1>4, <3>2, RingInvAt DEF Recorded
    <3>4. QED
      BY <2>2, <3>1, <3>2, <3>3, RingConstants
  <2>5. CASE mishaps.died = 0
    BY <1>3, <2>5
  <2>6. QED
    BY <2>3, <2>4, <2>5
<1>5. QED
  BY <1>3, <1>4 DEF RingInv

\* Publish before sign, for any number of replicas and any delays with the
\* margins of Timings, through failed calls or through restarts.
THEOREM PublishesBeforeSigning ==
    ASSUME Timings
    PROVE  RingSpec => []PublishBeforeSign
<1>1. RingTypeOK /\ (OneKind => RingInv) => PublishBeforeSign
  <2>1. SUFFICES ASSUME RingTypeOK, RingInv, NEW r \in Replica, NEW s \in Replica,
                        step[r] = "idle", step[s] = "idle", active[r] \in signer[r]
                 PROVE  active[r] \in published[s]
    BY DEF PublishBeforeSign
  <2>2. Decided(r) /\ Decided(s) /\ active[r] \in {1, 2} /\ published[s] = Entries(s)
    BY <2>1, RingInvAt, RingSizes DEF Decided, Computed
  <2>3. CASE active[r] = 2
    <3>1. ring[r][2] # 0 /\ ring[r][2] <= at[r]
      BY <2>1, <2>2, <2>3, RingInvAt DEF Computed
    <3>2. secret = 2 /\ at[s] > issued + Sync
      BY <2>1, <3>1, SecondIsLate
    <3>3. 2 \in signer[s]
      BY <2>1, <3>2, RingInvAt DEF Seen, Pending
    <3>4. QED
      BY <2>1, <2>2, <2>3, <3>3, RingInvAt DEF Held
  <2>4. CASE active[r] = 1
    <3>1. ring[r][2] = 0 \/ at[r] < ring[r][2]
      BY <2>1, <2>2, <2>4, RingInvAt DEF Computed
    <3>2. ring[s][1] # 0
      BY <2>1, <3>1, FirstIsHeld, RingSizes
    <3>3. QED
      BY <2>2, <2>4, <3>2, EntriesAre
  <2>5. QED
    BY <2>2, <2>3, <2>4
<1>2. QED
  BY <1>1, RingTypeCorrect, RingInvHolds, PTL

\* Overlap: likewise, through restarts if the overlap a process starts with
\* covers a poll and a token.
THEOREM OverlapIsEnough ==
    ASSUME Timings
    PROVE  RingSpec => []OverlapCovers
<1>1. RingTypeOK /\ (OneKind => RingInv) => OverlapCovers
  <2>1. SUFFICES ASSUME RingTypeOK, RingInv, NEW k \in Key, NEW s \in Replica,
                        mishaps.died = 0 \/ Poll + TokenLife <= BootOverlap,
                        valid[k] > 0, step[s] = "idle", entry[k] <= now,
                        \A r \in Replica : ring[r][k] <= at[r]
                 PROVE  k \in published[s]
    BY DEF OverlapCovers, OneKind, Waited
  <2>2. k \in {1, 2} /\ published[s] = Entries(s)
    BY <2>1, RingInvAt, TwoKeys DEF Decided, Computed
  <2>3. CASE k = 1
    BY <2>1, <2>2, <2>3, FirstIsHeld, EntriesAre, RingSizes
  <2>4. CASE k = 2
    <3>1. now <= at[s] + Poll /\ now \in Nat /\ at[s] \in Nat /\ issued \in Nat
      BY <2>1, RingInvAt, RingSizes DEF Clocked
    <3>2. secret = 2 /\ at[s] > issued + Sync
      <4>1. CASE entry[2] # 0
        BY <2>1, <2>4, <3>1, <4>1, RingSizes, RingConstants DEF RingInv, StoreSound, Timings
      <4>2. CASE entry[2] = 0
        <5>1. PICK r \in Replica : ring[r][2] # 0
          BY <2>1, <2>4, <4>2 DEF RingInv, StoreSound
        <5>2. step[r] # "down"
          BY <2>1, <5>1, RingInvAt DEF Held
        <5>3. QED
          BY <2>1, <2>4, <5>1, <5>2, SecondIsLate
      <4>3. QED
        BY <4>1, <4>2
    <3>3. 2 \in signer[s]
      BY <2>1, <3>2, RingInvAt DEF Seen, Pending
    <3>4. QED
      BY <2>1, <2>2, <2>4, <3>3, RingInvAt DEF Held
  <2>5. QED
    BY <2>2, <2>3, <2>4
<1>2. QED
  BY <1>1, RingTypeCorrect, RingInvHolds, PTL

\* A replica that is up is never without a key, likewise.
THEOREM SignsAlways ==
    ASSUME Timings
    PROVE  RingSpec => []AlwaysSigns
<1>1. RingTypeOK /\ (OneKind => RingInv) => AlwaysSigns
  <2>1. SUFFICES ASSUME RingTypeOK, RingInv, NEW r \in Replica, step[r] = "idle"
                 PROVE  Signs(r) # {}
    BY DEF AlwaysSigns
  <2>2. signer[r] # {} /\ signer[r] \subseteq {1, 2} /\ ring[r][1] \in Nat /\ ring[r][2] \in Nat
    BY <2>1, RingInvAt, RingSizes DEF Seen, Pending
  <2>3. \E k \in signer[r] : \A j \in signer[r] : ring[r][j] <= ring[r][k]
    <3>1. CASE 2 \in signer[r] /\ (1 \in signer[r] => ring[r][1] <= ring[r][2])
      BY <2>2, <3>1
    <3>2. CASE 1 \in signer[r] /\ (2 \in signer[r] => ring[r][2] <= ring[r][1])
      BY <2>2, <3>2
    <3>3. QED
      BY <2>2, <3>1, <3>2
  <2>4. QED
    BY <2>3 DEF Signs
<1>2. QED
  BY <1>1, RingTypeCorrect, RingInvHolds, PTL

\* A step that moves activation times about, and makes none up, keeps the
\* schedule one.
LEMMA OneScheduleKept ==
    ASSUME OneSchedule, mishaps'.failed = 0 => mishaps.failed = 0,
           mishaps'.failed = 0 =>
             /\ \A s \in Replica, k \in Key : ring'[s][k] \in {0, ring[s][k], entry[k]}
             /\ \A k \in Key :
                   entry'[k] \in {0, entry[k]} \/ \E s \in Replica : entry'[k] = ring[s][k]
    PROVE  OneSchedule'
<1>1. SUFFICES ASSUME mishaps'.failed = 0, NEW r \in Replica, NEW s \in Replica, NEW k \in Key,
                      ring'[r][k] # 0
               PROVE  /\ ring'[s][k] # 0 => ring'[r][k] = ring'[s][k]
                      /\ entry'[k] # 0 => ring'[r][k] = entry'[k]
  BY DEF OneSchedule
<1>2. \A q, p \in Replica :
         /\ ring[q][k] # 0 /\ ring[p][k] # 0 => ring[q][k] = ring[p][k]
         /\ ring[q][k] # 0 /\ entry[k] # 0 => ring[q][k] = entry[k]
  BY <1>1 DEF OneSchedule
<1>3. /\ ring'[r][k] \in {0, ring[r][k], entry[k]}
      /\ ring'[s][k] \in {0, ring[s][k], entry[k]}
      /\ entry'[k] \in {0, entry[k]} \/ \E q \in Replica : entry'[k] = ring[q][k]
  BY <1>1
<1>4. QED
  BY <1>1, <1>2, <1>3

\* Every step keeps the schedule one.
LEMMA OneScheduleStep ==
    ASSUME RingTypeOK, RingInv, Timings, OneSchedule, [RingNext]_allRingVars, mishaps'.failed = 0
    PROVE  OneSchedule'
<1>1. Key = {1, 2}
  BY TwoKeys
<1>2. ASSUME NEW r \in Replica, Own(r), entry' = entry, ring'[r] = ring[r],
             mishaps'.failed = 0 => mishaps.failed = 0
      PROVE  OneSchedule'
  BY <1>2, OneScheduleKept DEF Own, Untouched
<1>3. ASSUME NEW ok \in BOOLEAN, Answer(ok)
      PROVE  mishaps'.failed = 0 => mishaps.failed = 0 /\ ok
  BY <1>3, AnswerDoes
<1>4. ASSUME NEW r \in Replica, ObserveStep(r) PROVE OneSchedule'
  <2>1. CASE Observe(r) \/ FirstKey(r) \/ AddKey(r) \/ Members(r) \/ StartRefresh(r)
             \/ RefreshAdd(r) \/ RemoveKey(r) \/ Finish(r)
    BY <2>1, <1>2, <1>3, ObserveDoes, FirstKeyDoes, AddKeyDoes, MembersDoes, StartRefreshDoes,
       RefreshAddDoes, RemoveKeyDoes, FinishDoes
  <2>2. CASE Claim(r)
    <3>1. /\ Own(r) /\ key[r] \in Key /\ ring[r] \in [Key -> Nat] /\ entry \in [Key -> Nat]
      BY <2>2, <1>1, ClaimDoes, RingSizes
    <3>2. CASE Answer(FALSE)
      BY <3>2, <1>3, OneScheduleKept
    <3>3. CASE entry[key[r]] # 0 /\ Answer(TRUE) /\ entry' = entry /\ ring'[r] = ring[r]
      BY <3>1, <3>3, <1>2, <1>3
    <3>4. CASE /\ entry[key[r]] = 0 /\ Answer(TRUE)
               /\ entry' = [entry EXCEPT ![key[r]] = guess[r]] /\ Adopted(r, guess[r])
      <4>1. SUFFICES ASSUME mishaps'.failed = 0, NEW p \in Replica, NEW q \in Replica, NEW k \in Key
                     PROVE  /\ ring'[p][k] # 0 /\ ring'[q][k] # 0 => ring'[p][k] = ring'[q][k]
                            /\ ring'[p][k] # 0 /\ entry'[k] # 0 => ring'[p][k] = entry'[k]
        BY DEF OneSchedule
      <4>2. mishaps.failed = 0
        BY <3>4, <4>1, <1>3
      <4>3. CASE k # key[r]
        <5>1. ring'[p][k] = ring[p][k] /\ ring'[q][k] = ring[q][k] /\ entry'[k] = entry[k]
          BY <3>1, <3>4, <4>3 DEF Own, Untouched, Adopted
        <5>2. QED
          BY <4>2, <5>1 DEF OneSchedule
      <4>4. CASE k = key[r]
        <5>1. ASSUME NEW s \in Replica PROVE ring[s][k] = 0
          <6>1. Recorded(s)
            BY <4>2, RingInvAt
          <6>2. k = 1 => ~Over
            BY <2>2, <4>4, ClaimDoes, PendingIsEarly DEF Pending
          <6>3. QED
            BY <1>1, <3>4, <4>4, <6>1, <6>2 DEF Recorded
        <5>2. entry'[k] = guess[r] /\ \A s \in Replica : ring'[s][k] \in {0, guess[r]}
          <6>1. entry'[k] = guess[r] /\ ring'[r][k] = guess[r]
            BY <3>1, <3>4, <4>4 DEF Adopted
          <6>2. \A s \in Replica : s # r => ring'[s] = ring[s]
            BY <3>1 DEF Own, Untouched
          <6>3. QED
            BY <5>1, <6>1, <6>2
        <5>3. QED
          BY <5>2
      <4>5. QED
        BY <4>3, <4>4
    <3>5. QED
      BY <2>2, <3>2, <3>3, <3>4, ClaimDoes
  <2>3. CASE ReadClaim(r)
    <3>1. Own(r) /\ entry' = entry /\ step[r] = "read" /\ key[r] \in Key /\ ring[r] \in [Key -> Nat]
      BY <2>3, <1>1, ReadClaimDoes, RingSizes
    <3>2. PICK ok \in BOOLEAN :
             /\ Answer(ok)
             /\ \/ ok /\ entry[key[r]] # 0 /\ Adopted(r, entry[key[r]])
                \/ ~(ok /\ entry[key[r]] # 0) /\ Adopted(r, guess[r])
      BY <2>3, ReadClaimDoes
    <3>3. ASSUME mishaps'.failed = 0
          PROVE  \A k \in Key : ring'[r][k] \in {ring[r][k], entry[k]}
      <4>1. ok /\ entry[key[r]] # 0
        BY <3>1, <3>2, <3>3, <1>3, RingInvAt DEF Recorded
      <4>2. ring'[r] = [ring[r] EXCEPT ![key[r]] = entry[key[r]]]
        BY <3>2, <4>1 DEF Adopted
      <4>3. QED
        BY <3>1, <4>2
    <3>4. QED
      BY <3>1, <3>2, <3>3, <1>3, OneScheduleKept DEF Own, Untouched
  <2>4. CASE Absorb(r)
    <3>1. Own(r) /\ entry' = entry /\ ring[r] \in [Key -> Nat] /\ left[r] \subseteq Key
      BY <2>4, <1>1, AbsorbDoes, RingSizes
    <3>2. PICK j \in left[r], ok \in BOOLEAN :
             /\ Answer(ok)
             /\ ok => ring'[r] = [ring[r] EXCEPT ![j] = entry[j]]
             /\ ~ok => ring'[r] = ring[r]
      BY <2>4, AbsorbDoes
    <3>3. \A k \in Key : ring'[r][k] \in {ring[r][k], entry[k]}
      BY <3>1, <3>2
    <3>4. QED
      BY <3>1, <3>2, <3>3, <1>3, OneScheduleKept DEF Own, Untouched
  <2>5. CASE RefreshSet(r) \/ DeleteKey(r)
    <3>1. Own(r) /\ ring'[r] = ring[r] /\ entry \in [Key -> Nat] /\ left[r] \subseteq Key
      BY <2>5, <1>1, RefreshSetDoes, DeleteKeyDoes, RingSizes
    <3>2. PICK j \in left[r], ok \in BOOLEAN :
             /\ Answer(ok)
             /\ \/ entry' = [entry EXCEPT ![j] = ring[r][j]]
                \/ entry' = [entry EXCEPT ![j] = 0]
                \/ entry' = entry
      <4>1. CASE RefreshSet(r)
        BY <4>1, RefreshSetDoes
      <4>2. CASE DeleteKey(r)
        BY <4>2, DeleteKeyDoes
      <4>3. QED
        BY <2>5, <4>1, <4>2
    <3>3. \A k \in Key : entry'[k] \in {0, entry[k], ring[r][k]}
      BY <3>1, <3>2
    <3>4. QED
      BY <3>1, <3>2, <3>3, <1>3, OneScheduleKept DEF Own, Untouched
  <2>6. CASE Recompute(r)
    <3>1. /\ Own(r) /\ mishaps' = mishaps /\ entry' = entry
          /\ ring'[r] = [k \in Key |-> IF k \in left'[r] THEN 0 ELSE ring[r][k]]
      BY <2>6, RecomputeDoes, FirstBeforeSecond
    <3>2. \A k \in Key : ring'[r][k] \in {0, ring[r][k]}
      BY <3>1
    <3>3. QED
      BY <3>1, <3>2, OneScheduleKept DEF Own, Untouched
  <2>7. QED
    BY <1>4, <2>1, <2>2, <2>3, <2>4, <2>5, <2>6 DEF ObserveStep
<1>5. ASSUME NEW r \in Replica, Boot(r) \/ SyncFile(r) PROVE OneSchedule'
  BY <1>5, <1>2, BootDoes, SyncFileDoes
<1>6. ASSUME NEW r \in Replica, Crash(r) PROVE OneSchedule'
  <2>1. /\ Own(r) /\ entry' = entry /\ mishaps.failed = 0 /\ ring'[r] = [k \in Key |-> 0]
    BY <1>6, CrashDoes, OneKindBefore
  <2>2. QED
    BY <2>1, OneScheduleKept DEF Own, Untouched
<1>7. CASE Rotate \/ Tick \/ (\E r \in Replica : Sign(r)) \/ UNCHANGED allRingVars
  <2>1. ring' = ring /\ entry' = entry /\ mishaps' = mishaps
    BY <1>7 DEF Rotate, Tick, Sign, allRingVars, storeVars, ringVars
  <2>2. QED
    BY <2>1 DEF OneSchedule
<1>8. QED
  BY <1>4, <1>5, <1>6, <1>7 DEF RingNext

\* One schedule: as long as the store answers, replicas that know a key agree
\* on when it activates, restarts in the middle of a rotation or not
\* (keyring.go:121-127).
THEOREM ScheduleIsOne ==
    ASSUME Timings
    PROVE  RingSpec => []OneSchedule
<1>1. RingInit => OneSchedule
  BY DEF RingInit, OneSchedule
<1>2. RingTypeOK /\ (OneKind => RingInv) /\ OneSchedule /\ [RingNext]_allRingVars => OneSchedule'
  <2>1. ASSUME RingTypeOK, OneKind => RingInv, OneSchedule, [RingNext]_allRingVars, mishaps'.failed = 0
        PROVE  OneSchedule'
    BY <2>1, OneKindBefore, OneScheduleStep DEF OneKind
  <2>2. mishaps'.failed # 0 => OneSchedule'
    BY DEF OneSchedule
  <2>3. QED
    BY <2>1, <2>2
<1>3. QED
  BY <1>1, <1>2, RingTypeCorrect, RingInvHolds, PTL DEF RingSpec
=============================================================================
