--------------------------- MODULE GitHubLinksProofs ---------------------------
(***************************************************************************)
(* Theorems about GitHubLinks, for every set of accounts, addresses, pairs *)
(* and processes: types, what a check may write over, that a claim is      *)
(* finished, and that a link is lost only on its person's word.            *)
(***************************************************************************)
EXTENDS GitHubLinks, TLAPS

ClaimPlaces  == {"write", "others", "narrow", "unmark"}
NarrowPlaces == {"others", "narrow", "unmark"}
AskPlaces    == {"checkapp", "probe", "due", "claimrefresh", "elsewhere", "exchange", "refused", "keep", "user"}
CheckPlaces  == AskPlaces \cup {"check", "next", "update"}

\* The operation and the account a process is about, at each place.
Role(p) ==
    /\ (kind[p] = "none") = (pc[p] = "idle")
    /\ pc[p] \in {"emails", "mark", "write"} => kind[p] = "claim"
    /\ kind[p] = "claim" => pc[p] \in {"emails", "mark"} \cup ClaimPlaces
    /\ pc[p] \in CheckPlaces => kind[p] = "check"
    /\ pc[p] \in {"emails", "mark", "adoptwrite"} \cup ClaimPlaces \cup AskPlaces => on[p] \in Account

\* A person's link has a token pair, and so has one that is being refreshed; a
\* check asks only about such links, and about each of them once.
Paired(l) == (l.state = "linked" /\ l.self) \/ l.refreshing => l.pair # None

Asking(p) ==
    /\ pc[p] \in {"check"} \cup AskPlaces \cup {"next"} =>
          \A a \in todo[p] : seen[p][a].state = "linked" /\ seen[p][a].self
    /\ pc[p] \in AskPlaces => on[p] \notin todo[p]
    /\ pc[p] \in {"checkapp", "probe", "due", "claimrefresh"} => Mine(p).state = "linked" /\ Mine(p).self

Sound ==
    /\ TypeOK
    /\ \A p \in Proc : Role(p) /\ Asking(p)
    /\ \A a \in Account : Paired(link[a]) /\ \A p \in Proc : Paired(seen[p][a])

-----------------------------------------------------------------------------
\* What a check has read as it stands is what it was, but for what the check made
\* less of it.
Less(l, k) ==
    /\ l.root = k.root /\ l.self = k.self /\ l.emails \subseteq k.emails
    /\ l.state = "linked" => k.state = "linked"

ReadOf(p) == pc[p] \in CheckPlaces => \A a \in cur[p] : Less(seen[p][a], link[a])

ReadInv == \A p \in Proc : ReadOf(p)

-----------------------------------------------------------------------------
\* A process that takes the marker of account a away when it is done.
Ending(p, a) ==
    /\ pc[p] \in NarrowPlaces /\ on[p] = a
    /\ kind[p] = "claim" \/ a \in marks[p]

\* The claim of account a is cut, or is still to come to the link of account b.
Open(a, b) ==
    \/ a \in cut
    \/ /\ a \in marker
       /\ \A p \in Proc : Ending(p, a) =>
             /\ link[a].emails \subseteq claim[p]
             /\ pc[p] = "others" \/ (pc[p] = "narrow" /\ b \in todo[p])

\* A claim past its marker has it, and whoever else would take it away is noted.
MarkedBy(p) ==
    kind[p] = "claim" /\ pc[p] \in ClaimPlaces =>
        /\ on[p] \in marker \cup cut
        /\ \A q \in Proc \ {p} : on[q] = on[p] =>
              /\ kind[q] = "claim" /\ pc[q] \in ClaimPlaces => on[p] \in cut
              /\ Ending(q, on[p]) => on[p] \in cut

Marked ==
    \A p \in Proc : /\ marks[p] \subseteq marker
                    /\ pc[p] \in {"mark", "write"} => claim[p] = Mine(p).emails
                    /\ MarkedBy(p)

ClaimInv == Marked /\ \A a, b \in Account : Proving(a, b) => Open(a, b) \/ Open(b, a)

-----------------------------------------------------------------------------
\* A pair that is not being refreshed is honoured, or was revoked.
Known(a, pair) == pair = None \/ pair \in live[a] \cup revoked[a]
Good(a, l) == l.refreshing \/ Known(a, l.pair)

Claiming(p) ==
    pc[p] \in {"emails", "mark", "write"} =>
        /\ Known(on[p], Mine(p).pair) /\ Mine(p).pair # None
        /\ link[on[p]].pair # Mine(p).pair
        /\ \A q \in Proc \ {p} : seen[q][on[p]].pair # Mine(p).pair

Checking(p) ==
    /\ kind[p] = "check" => \A a \in Account : Good(a, seen[p][a])
    /\ pc[p] \in {"due", "claimrefresh", "exchange", "refused", "keep", "user"} => Known(on[p], Mine(p).pair)
    /\ pc[p] \in {"probe", "due", "claimrefresh", "exchange", "refused"} => Mine(p).app = cred[p]
    /\ pc[p] = "exchange" => /\ Mine(p).refreshing
                             /\ link[on[p]].pair = Mine(p).pair => link[on[p]].refreshing

PairInv ==
    /\ \A p, q \in Proc : kind[p] = "check" /\ kind[q] = "check" => p = q
    /\ \A a \in Account : Good(a, link[a])
    /\ \A p \in Proc : kind[p] = "none" => seen[p] = [a \in Account |-> NoLink]
    /\ \A a \in Account : link[a].was # None => link[a].was \in revoked[a]
    /\ \A p \in Proc, a \in Account : seen[p][a].was # None => seen[p][a].was \in revoked[a]
    /\ \A p \in Proc : Claiming(p) /\ Checking(p)

-----------------------------------------------------------------------------
(* The operators on links.                                                 *)

\* The fields of a link have their types.
LEMMA LinkFields ==
    ASSUME NEW l \in Link
    PROVE  /\ l.state \in {"none", "linked", "lost", "unverifiable"} /\ l.self \in BOOLEAN
           /\ l.emails \subseteq Email /\ l.pair \in Pair \cup {None} /\ l.refreshing \in BOOLEAN
           /\ l.app \in App \cup {None} /\ l.root \in Pair \cup {None} /\ l.was \in Pair \cup {None}
BY DEF Link

\* What lose makes of a link.
LEMMA LoseFields ==
    ASSUME NEW l \in Link, NEW was \in Pair \cup {None}
    PROVE  LET k == Lose(l, was) IN
           /\ k \in Link /\ k.state = "lost" /\ k.pair = None /\ ~k.refreshing /\ k.was = was
           /\ k.self = l.self /\ k.root = l.root /\ k.emails = l.emails /\ k.app = l.app
BY DEF Link, Lose

\* What unverifiable makes of a link.
LEMMA UnverifiableFields ==
    ASSUME NEW l \in Link
    PROVE  LET k == Unverifiable(l) IN
           /\ k \in Link /\ k.state = "unverifiable" /\ k.pair = None /\ ~k.refreshing /\ k.was = l.was
           /\ k.self = l.self /\ k.root = l.root /\ k.emails = l.emails /\ k.app = l.app
BY DEF Link, Unverifiable

\* A link with other addresses.
LEMMA EmailsFields ==
    ASSUME NEW l \in Link, NEW emails \in SUBSET Email
    PROVE  LET k == [l EXCEPT !.emails = emails] IN
           /\ k \in Link /\ k.emails = emails /\ k.state = l.state /\ k.self = l.self
           /\ k.pair = l.pair /\ k.refreshing = l.refreshing /\ k.app = l.app
           /\ k.root = l.root /\ k.was = l.was
BY DEF Link

\* A link with or without its refresh under way.
LEMMA RefreshingFields ==
    ASSUME NEW l \in Link, NEW r \in BOOLEAN
    PROVE  LET k == [l EXCEPT !.refreshing = r] IN
           /\ k \in Link /\ k.refreshing = r /\ k.state = l.state /\ k.self = l.self
           /\ k.pair = l.pair /\ k.emails = l.emails /\ k.app = l.app
           /\ k.root = l.root /\ k.was = l.was
BY DEF Link

\* A link with its renewed pair.
LEMMA PairFields ==
    ASSUME NEW l \in Link, NEW new \in Pair
    PROVE  LET k == [l EXCEPT !.pair = new, !.refreshing = FALSE] IN
           /\ k \in Link /\ ~k.refreshing /\ k.pair = new /\ k.state = l.state /\ k.self = l.self
           /\ k.emails = l.emails /\ k.app = l.app /\ k.root = l.root /\ k.was = l.was
BY DEF Link

\* No link, and the two kinds that are made from nothing.
LEMMA NewFields ==
    /\ NoLink \in Link /\ NoLink.state = "none" /\ ~NoLink.self /\ NoLink.emails = {}
    /\ NoLink.pair = None /\ ~NoLink.refreshing /\ NoLink.was = None
    /\ \A new \in Pair, x \in App : LET k == [NoLink EXCEPT !.state = "linked", !.self = TRUE,
                   !.pair = new, !.root = new, !.app = x] IN
          /\ k \in Link /\ k.state = "linked" /\ k.self /\ k.pair = new /\ ~k.refreshing
          /\ k.was = None /\ k.app = x
    /\ \A emails \in SUBSET Email : LET k == [NoLink EXCEPT !.state = "linked", !.emails = emails] IN
          /\ k \in Link /\ k.state = "linked" /\ ~k.self /\ k.pair = None /\ ~k.refreshing
          /\ k.was = None /\ k.emails = emails
<1>1. /\ NoLink \in Link /\ NoLink.state = "none" /\ ~NoLink.self /\ NoLink.emails = {}
      /\ NoLink.pair = None /\ ~NoLink.refreshing /\ NoLink.was = None
  BY DEF NoLink, Link
<1>2. ASSUME NEW new \in Pair, NEW x \in App
      PROVE  LET k == [NoLink EXCEPT !.state = "linked", !.self = TRUE,
                   !.pair = new, !.root = new, !.app = x] IN
          /\ k \in Link /\ k.state = "linked" /\ k.self /\ k.pair = new /\ ~k.refreshing
          /\ k.was = None /\ k.app = x
  BY DEF NoLink, Link
<1>3. ASSUME NEW emails \in SUBSET Email
      PROVE  LET k == [NoLink EXCEPT !.state = "linked", !.emails = emails] IN
          /\ k \in Link /\ k.state = "linked" /\ ~k.self /\ k.pair = None /\ ~k.refreshing
          /\ k.was = None /\ k.emails = emails
  BY DEF NoLink, Link
<1>. QED BY <1>1, <1>2, <1>3

\* What narrowing leaves of a link: a part of its addresses, none of those taken.
LEMMA NarrowedFields ==
    ASSUME NEW l \in Link, NEW taken \in SUBSET Email
    PROVE  LET k == Narrowed(l, taken) IN
           /\ k \in Link /\ k.self = l.self /\ k.root = l.root /\ k.was = l.was
           /\ k.emails \subseteq l.emails
           /\ k.state = "linked" => l.state = "linked" /\ k.emails \cap taken = {}
           /\ \/ k.pair = l.pair /\ k.refreshing = l.refreshing /\ k.state = l.state
              \/ k.pair = None /\ ~k.refreshing /\ k.state = "lost"
<1>1. LET k == [l EXCEPT !.emails = {}, !.state = "lost", !.pair = None, !.refreshing = FALSE] IN
           /\ k \in Link /\ k.self = l.self /\ k.root = l.root /\ k.was = l.was
           /\ k.emails = {} /\ k.state = "lost" /\ k.pair = None /\ ~k.refreshing
  BY DEF Link
<1>2. l.emails \ taken \in SUBSET Email
  BY LinkFields
<1>3. LET k == [l EXCEPT !.emails = l.emails \ taken] IN
           /\ k \in Link /\ k.self = l.self /\ k.root = l.root /\ k.was = l.was
           /\ k.emails = l.emails \ taken /\ k.state = l.state
           /\ k.pair = l.pair /\ k.refreshing = l.refreshing
  BY <1>2, EmailsFields
<1>4. CASE l.state # "linked" \/ l.emails \cap taken = {}
  <2>1. Narrowed(l, taken) = l
    BY <1>4 DEF Narrowed
  <2>. QED BY <1>4, <2>1
<1>5. CASE ~(l.state # "linked" \/ l.emails \cap taken = {}) /\ l.emails \subseteq taken
  <2>1. Narrowed(l, taken) = [l EXCEPT !.emails = {}, !.state = "lost", !.pair = None, !.refreshing = FALSE]
    BY <1>5 DEF Narrowed
  <2>. QED BY <1>1, <2>1
<1>6. CASE ~(l.state # "linked" \/ l.emails \cap taken = {}) /\ ~(l.emails \subseteq taken)
  <2>1. Narrowed(l, taken) = [l EXCEPT !.emails = l.emails \ taken]
    BY <1>6 DEF Narrowed
  <2>. QED BY <1>3, <1>6, <2>1
<1>. QED BY <1>4, <1>5, <1>6

-----------------------------------------------------------------------------
(* What each step does.                                                    *)

\* Every process but p is where it was.
Others(p) ==
    \A q \in Proc \ {p} :
        /\ pc'[q] = pc[q] /\ kind'[q] = kind[q] /\ cred'[q] = cred[q] /\ seen'[q] = seen[q]
        /\ todo'[q] = todo[q] /\ changed'[q] = changed[q] /\ on'[q] = on[q] /\ claim'[q] = claim[q]

\* Process p has ended its operation.
Ended(p) ==
    /\ pc'[p] = "idle" /\ kind'[p] = "none" /\ cred'[p] = None
    /\ seen'[p] = [a \in Account |-> NoLink]
    /\ todo'[p] = {} /\ changed'[p] = {} /\ on'[p] = None /\ claim'[p] = {}

\* Process p has l for the link of account a.
Saw(p, a, l) ==
    /\ seen'[p][a] = l
    /\ \A b \in Account \ {a} : seen'[p][b] = seen[p][b]

\* Process p has written l as the link of account a.
Written(p, a, l) ==
    /\ link'[a] = l
    /\ \A b \in Account \ {a} : link'[b] = link[b]
    /\ cur'[p] = cur[p] \cup {a}
    /\ \A q \in Proc \ {p} : cur'[q] = cur[q] \ {a}

\* A process changes one of its links.
LEMMA SeenAt ==
    ASSUME TypeOK, NEW p \in Proc, NEW a \in Account, NEW l \in Link,
           seen' = [seen EXCEPT ![p][a] = l]
    PROVE  /\ seen' \in [Proc -> [Account -> Link]] /\ Saw(p, a, l)
           /\ \A q \in Proc \ {p} : seen'[q] = seen[q]
BY DEF TypeOK, Saw

\* A write changes one link and one's standing with it.
LEMMA WriteAt ==
    ASSUME TypeOK, NEW p \in Proc, NEW a \in Account, NEW l \in Link, Write(p, a, l)
    PROVE  /\ link' \in [Account -> Link] /\ cur' \in [Proc -> SUBSET Account]
           /\ Written(p, a, l)
BY DEF TypeOK, Write, Written

\* A process that ends is back where it began.
LEMMA DoneAt ==
    ASSUME TypeOK, NEW p \in Proc, Done(p)
    PROVE  /\ pc' \in [Proc -> Places] /\ kind' \in [Proc -> Kinds] /\ cred' \in [Proc -> App \cup {None}]
           /\ seen' \in [Proc -> [Account -> Link]]
           /\ todo' \in [Proc -> SUBSET Account] /\ changed' \in [Proc -> SUBSET Account]
           /\ on' \in [Proc -> Account \cup {None}] /\ claim' \in [Proc -> SUBSET Email]
           /\ Ended(p) /\ Others(p)
<1>1. [a \in Account |-> NoLink] \in [Account -> Link]
  BY NewFields
<1>2. /\ pc' \in [Proc -> Places] /\ pc'[p] = "idle" /\ \A q \in Proc \ {p} : pc'[q] = pc[q]
  BY DEF TypeOK, Done, Go, Places
<1>3. /\ kind' \in [Proc -> Kinds] /\ kind'[p] = "none" /\ \A q \in Proc \ {p} : kind'[q] = kind[q]
      /\ cred' \in [Proc -> App \cup {None}] /\ cred'[p] = None
      /\ \A q \in Proc \ {p} : cred'[q] = cred[q]
  BY DEF TypeOK, Done, Kinds
<1>4. /\ seen' \in [Proc -> [Account -> Link]] /\ seen'[p] = [a \in Account |-> NoLink]
      /\ \A q \in Proc \ {p} : seen'[q] = seen[q]
  BY <1>1 DEF TypeOK, Done
<1>5. /\ todo' \in [Proc -> SUBSET Account] /\ todo'[p] = {} /\ \A q \in Proc \ {p} : todo'[q] = todo[q]
      /\ changed' \in [Proc -> SUBSET Account] /\ changed'[p] = {}
      /\ \A q \in Proc \ {p} : changed'[q] = changed[q]
  BY DEF TypeOK, Done
<1>6. /\ on' \in [Proc -> Account \cup {None}] /\ on'[p] = None /\ \A q \in Proc \ {p} : on'[q] = on[q]
      /\ claim' \in [Proc -> SUBSET Email] /\ claim'[p] = {} /\ \A q \in Proc \ {p} : claim'[q] = claim[q]
  BY DEF TypeOK, Done
<1>. QED BY <1>2, <1>3, <1>4, <1>5, <1>6 DEF Ended, Others

\* A process moves on.
LEMMA GoAt ==
    ASSUME TypeOK, NEW p \in Proc, NEW place \in Places, Go(p, place)
    PROVE  /\ pc' \in [Proc -> Places] /\ pc'[p] = place
           /\ \A q \in Proc \ {p} : pc'[q] = pc[q]
BY DEF TypeOK, Go

\* The check is done with one link.
LEMMA FoundDoes ==
    ASSUME TypeOK, NEW p \in Proc, on[p] \in Account, NEW k \in Link, Found(p, k),
           UNCHANGED <<world, app, link, marker, kind, cred, todo, on, claim, cur, marks, cut, events>>
    PROVE  TypeOK' /\ Others(p) /\ Saw(p, on[p], k) /\ pc'[p] = "next"
<1>1. /\ pc' \in [Proc -> Places] /\ pc'[p] = "next" /\ \A q \in Proc \ {p} : pc'[q] = pc[q]
  BY GoAt DEF Found, Places
<1>2. /\ seen' \in [Proc -> [Account -> Link]] /\ Saw(p, on[p], k)
      /\ \A q \in Proc \ {p} : seen'[q] = seen[q]
  BY SeenAt DEF Found
<1>3. changed' \in [Proc -> SUBSET Account] /\ \A q \in Proc \ {p} : changed'[q] = changed[q]
  BY DEF Found, TypeOK
<1>4. TypeOK'
  BY <1>1, <1>2, <1>3 DEF TypeOK, world
<1>. QED BY <1>1, <1>2, <1>3, <1>4 DEF Others

\* Claimed names no account but the one asked about.
LEMMA ClaimedTyped == ASSUME NEW p \in Proc, NEW a \in Account PROVE Claimed(p, a) \subseteq Account
BY DEF Claimed

\* A pair that is issued has a name nobody knows.
LEMMA MintNew ==
    ASSUME NEW a \in Account, Names(a)
    PROVE  /\ Mint(a) \in Pair /\ Mint(a) \notin {link[a].pair, link[a].root, link[a].was}
           /\ \A q \in Proc : Mint(a) \notin {seen[q][a].pair, seen[q][a].root, seen[q][a].was}
<1>1. Mint(a) \in Unused(a)
  BY DEF Names, Mint
<1>. QED BY <1>1 DEF Unused, Named

\* GitHub's books stay what they are when a pair is issued.
LEMMA IssueTyped ==
    ASSUME TypeOK, NEW a \in Account, NEW old, NEW new \in Pair, Issue(a, old, new)
    PROVE  /\ verified' \in [Account -> SUBSET Email]
           /\ live' \in [Account -> SUBSET Pair] /\ revoked' \in [Account -> SUBSET Pair]
BY DEF TypeOK, Issue

\* The bound on events counts.
LEMMA Eventful == ASSUME TypeOK, Event \/ UNCHANGED events PROVE events' \in 0 .. MaxEvents
BY LinksAssumption DEF TypeOK, Event


\* GitHub has issued a pair, and the process holds it.
LEMMA LinkCallbackDoes ==
    ASSUME TypeOK, NEW p \in Proc, NEW a \in Account, LinkCallback(p, a)
    PROVE  /\ TypeOK' /\ Others(p)
           /\ pc[p] = "idle" /\ pc'[p] = "emails"
           /\ app \in App /\ Names(a) /\ Issue(a, None, Mint(a))
           /\ kind'[p] = "claim" /\ on'[p] = a /\ cred'[p] = app
           /\ Saw(p, a, [NoLink EXCEPT !.state = "linked", !.self = TRUE,
                            !.pair = Mint(a), !.root = Mint(a), !.app = app])
           /\ UNCHANGED <<app, link, marker, todo, changed, claim, cur, marks, cut, verified>>
<1>. DEFINE k == [NoLink EXCEPT !.state = "linked", !.self = TRUE,
                        !.pair = Mint(a), !.root = Mint(a), !.app = app]
<1>1. pc[p] = "idle" /\ app \in App /\ Names(a) /\ Issue(a, None, Mint(a)) /\ Mint(a) \in Pair
  BY MintNew DEF LinkCallback, At, TypeOK
<1>2. k \in Link
  BY <1>1, NewFields
<1>3. seen' = [seen EXCEPT ![p][a] = k]
  BY DEF LinkCallback
<1>4. seen' \in [Proc -> [Account -> Link]] /\ Saw(p, a, k) /\ \A q \in Proc \ {p} : seen'[q] = seen[q]
  BY <1>2, <1>3, SeenAt
<1>5. pc' \in [Proc -> Places] /\ pc'[p] = "emails" /\ \A q \in Proc \ {p} : pc'[q] = pc[q]
  BY GoAt DEF LinkCallback, Places
<1>6. /\ kind' \in [Proc -> Kinds] /\ kind'[p] = "claim" /\ \A q \in Proc \ {p} : kind'[q] = kind[q]
      /\ cred' \in [Proc -> App \cup {None}] /\ cred'[p] = app
      /\ \A q \in Proc \ {p} : cred'[q] = cred[q]
      /\ on' \in [Proc -> Account \cup {None}] /\ on'[p] = a /\ \A q \in Proc \ {p} : on'[q] = on[q]
  BY DEF LinkCallback, TypeOK, Kinds
<1>7. /\ UNCHANGED <<app, link, marker, todo, changed, claim, cur, marks, cut, verified>>
      /\ events' \in 0 .. MaxEvents
  BY Eventful DEF LinkCallback, Issue
<1>8. /\ live' \in [Account -> SUBSET Pair] /\ revoked' \in [Account -> SUBSET Pair]
  BY <1>1, IssueTyped
<1>9. TypeOK'
  BY <1>4, <1>5, <1>6, <1>7, <1>8 DEF TypeOK
<1>. QED BY <1>1, <1>4, <1>5, <1>6, <1>7, <1>9 DEF Others

\* The callback ends, or goes on with the addresses it accepted.
LEMMA LinkableAddressesDoes ==
    ASSUME TypeOK, NEW p \in Proc, on[p] \in Account, LinkableAddresses(p)
    PROVE  /\ TypeOK' /\ Others(p)
           /\ pc[p] = "emails"
           /\ \/ Ended(p)
              \/ \E accepted \in SUBSET Email :
                    /\ Saw(p, on[p], [Mine(p) EXCEPT !.emails = accepted])
                    /\ claim'[p] = accepted /\ pc'[p] = "mark"
                    /\ UNCHANGED <<kind, cred, todo, changed, on>>
           /\ UNCHANGED <<world, app, link, marker, cur, marks, cut>>
<1>1. pc[p] = "emails" /\ UNCHANGED <<world, app, link, marker, cur, marks, cut, events>>
  BY DEF LinkableAddresses, At
<1>2. CASE Done(p)
  <2>1. TypeOK'
    BY <1>1, <1>2, DoneAt DEF TypeOK, world
  <2>. QED BY <1>1, <1>2, <2>1, DoneAt DEF world
<1>3. CASE ~Done(p)
  <2>1. PICK accepted \in SUBSET verified[on[p]] :
           /\ seen' = [seen EXCEPT ![p][on[p]] = [Mine(p) EXCEPT !.emails = accepted]]
           /\ claim' = [claim EXCEPT ![p] = accepted]
           /\ Go(p, "mark")
           /\ UNCHANGED <<kind, cred, todo, changed, on>>
    BY <1>3 DEF LinkableAddresses
  <2>2. accepted \in SUBSET Email /\ Mine(p) \in Link
    BY DEF TypeOK, Mine
  <2>3. [Mine(p) EXCEPT !.emails = accepted] \in Link
    BY <2>2, EmailsFields
  <2>4. /\ seen' \in [Proc -> [Account -> Link]] /\ Saw(p, on[p], [Mine(p) EXCEPT !.emails = accepted])
        /\ \A q \in Proc \ {p} : seen'[q] = seen[q]
    BY <2>1, <2>3, SeenAt
  <2>5. pc' \in [Proc -> Places] /\ pc'[p] = "mark" /\ \A q \in Proc \ {p} : pc'[q] = pc[q]
    BY <2>1, GoAt DEF Places
  <2>6. claim' \in [Proc -> SUBSET Email] /\ claim'[p] = accepted /\ \A q \in Proc \ {p} : claim'[q] = claim[q]
    BY <2>1, <2>2 DEF TypeOK
  <2>7. TypeOK'
    BY <1>1, <2>1, <2>4, <2>5, <2>6 DEF TypeOK, world
  <2>8. Others(p)
    BY <2>1, <2>4, <2>5, <2>6 DEF Others
  <2>. QED BY <1>1, <2>1, <2>2, <2>4, <2>5, <2>6, <2>7, <2>8
<1>. QED BY <1>2, <1>3

\* Claim has written its marker.
LEMMA PutMarkerDoes ==
    ASSUME TypeOK, NEW p \in Proc, on[p] \in Account, PutMarker(p)
    PROVE  /\ TypeOK' /\ Others(p)
           /\ pc[p] = "mark" /\ pc'[p] = "write"
           /\ marker' = marker \cup {on[p]}
           /\ \A q \in Proc : marks'[q] = marks[q] \ {on[p]}
           /\ cut' = cut \cup Claimed(p, on[p])
           /\ UNCHANGED <<world, app, link, local, cur>>
<1>1. pc' \in [Proc -> Places] /\ pc'[p] = "write" /\ \A q \in Proc \ {p} : pc'[q] = pc[q]
  BY GoAt DEF PutMarker, Places
<1>2. marks' \in [Proc -> SUBSET Account] /\ \A q \in Proc : marks'[q] = marks[q] \ {on[p]}
  BY DEF PutMarker, TypeOK
<1>3. marker' \subseteq Account /\ cut' \subseteq Account
  BY ClaimedTyped DEF PutMarker, TypeOK
<1>4. TypeOK'
  BY <1>1, <1>2, <1>3 DEF PutMarker, TypeOK, world, local
<1>. QED BY <1>1, <1>2, <1>4 DEF PutMarker, At, Others, local

\* Claim has written the link.
LEMMA ClaimWriteDoes ==
    ASSUME TypeOK, NEW p \in Proc, on[p] \in Account, ClaimWrite(p)
    PROVE  /\ TypeOK' /\ Others(p)
           /\ pc[p] = "write" /\ pc'[p] = "others"
           /\ Written(p, on[p], Mine(p))
           /\ UNCHANGED <<world, app, marker, local, marks, cut>>
<1>1. pc' \in [Proc -> Places] /\ pc'[p] = "others" /\ \A q \in Proc \ {p} : pc'[q] = pc[q]
  BY GoAt DEF ClaimWrite, Places
<1>2. Mine(p) \in Link
  BY DEF TypeOK, Mine
<1>3. link' \in [Account -> Link] /\ cur' \in [Proc -> SUBSET Account] /\ Written(p, on[p], Mine(p))
  BY <1>2, WriteAt DEF ClaimWrite
<1>4. TypeOK'
  BY <1>1, <1>3 DEF ClaimWrite, TypeOK, world, local
<1>. QED BY <1>1, <1>3, <1>4 DEF ClaimWrite, At, Others, local

\* narrow has the other links.
LEMMA NarrowListDoes ==
    ASSUME TypeOK, NEW p \in Proc, on[p] \in Account, NarrowList(p)
    PROVE  /\ TypeOK' /\ Others(p)
           /\ pc[p] = "others" /\ pc'[p] = "narrow"
           /\ todo'[p] = {b \in Account \ {on[p]} : link[b].state # "none"}
           /\ UNCHANGED <<world, app, link, marker, kind, cred, seen, changed, on, claim, cur, marks, cut>>
BY LinksAssumption, LinkFields DEF TypeOK, NarrowList, At, Go, Event, Others, world, local, Places, Kinds

\* narrow is done, or done with one more link.
LEMMA NarrowDoes ==
    ASSUME TypeOK, NEW p \in Proc, on[p] \in Account, Narrow(p)
    PROVE  /\ TypeOK' /\ Others(p)
           /\ pc[p] = "narrow"
           /\ \/ todo[p] = {} /\ pc'[p] = "unmark" /\ UNCHANGED <<link, cur, todo>>
              \/ \E b \in todo[p] :
                    /\ todo'[p] = todo[p] \ {b} /\ UNCHANGED pc
                    /\ \/ Narrowed(link[b], claim[p]) = link[b] /\ UNCHANGED <<link, cur>>
                       \/ Written(p, b, Narrowed(link[b], claim[p]))
           /\ UNCHANGED <<world, app, marker, kind, cred, seen, changed, on, claim, marks, cut>>
<1>1. pc[p] = "narrow" /\ UNCHANGED <<world, app, marker, kind, cred, seen, changed, on, claim, marks, cut, events>>
  BY DEF Narrow, At
<1>2. CASE todo[p] = {}
  <2>1. Go(p, "unmark") /\ UNCHANGED <<link, cur, todo>>
    BY <1>2 DEF Narrow
  <2>2. pc' \in [Proc -> Places] /\ pc'[p] = "unmark" /\ \A q \in Proc \ {p} : pc'[q] = pc[q]
    BY <2>1, GoAt DEF Places
  <2>3. TypeOK'
    BY <1>1, <2>1, <2>2 DEF TypeOK, world
  <2>. QED BY <1>1, <1>2, <2>1, <2>2, <2>3 DEF Others
<1>3. CASE todo[p] # {}
  <2>1. PICK b \in todo[p] :
            /\ todo' = [todo EXCEPT ![p] = @ \ {b}]
            /\ IF Narrowed(link[b], claim[p]) = link[b] THEN UNCHANGED <<link, cur>>
               ELSE Write(p, b, Narrowed(link[b], claim[p]))
            /\ UNCHANGED pc
    BY <1>3 DEF Narrow
  <2>2. b \in Account /\ Narrowed(link[b], claim[p]) \in Link
    BY NarrowedFields DEF TypeOK
  <2>3. todo' \in [Proc -> SUBSET Account] /\ todo'[p] = todo[p] \ {b} /\ \A q \in Proc \ {p} : todo'[q] = todo[q]
    BY <2>1 DEF TypeOK
  <2>4. /\ link' \in [Account -> Link] /\ cur' \in [Proc -> SUBSET Account]
        /\ \/ Narrowed(link[b], claim[p]) = link[b] /\ UNCHANGED <<link, cur>>
           \/ Written(p, b, Narrowed(link[b], claim[p]))
    BY <2>1, <2>2, WriteAt DEF TypeOK
  <2>5. TypeOK'
    BY <1>1, <2>1, <2>3, <2>4 DEF TypeOK, world
  <2>. QED BY <1>1, <2>1, <2>3, <2>4, <2>5 DEF Others
<1>. QED BY <1>2, <1>3

\* A marker is taken away at the end of a claim, or of one finished for another.
LEMMA UnmarkDoes ==
    ASSUME TypeOK, NEW p \in Proc, on[p] \in Account, Unmark(p)
    PROVE  /\ TypeOK' /\ Others(p)
           /\ pc[p] = "unmark"
           /\ \/ kind[p] = "claim" /\ marker' = marker \ {on[p]} /\ Ended(p)
              \/ /\ kind[p] # "claim" /\ marker' = marker \ ({on[p]} \cap marks[p])
                 /\ pc'[p] = "finish" /\ UNCHANGED local
           /\ \A q \in Proc : marks'[q] = marks[q] \ {on[p]}
           /\ UNCHANGED <<world, app, link, cur, cut>>
<1>1. /\ pc[p] = "unmark" /\ marks' = [q \in Proc |-> marks[q] \ {on[p]}]
      /\ UNCHANGED <<world, app, link, cur, cut, events>>
      /\ \/ kind[p] = "claim" /\ marker' = marker \ {on[p]} /\ Done(p)
         \/ /\ kind[p] # "claim" /\ marker' = marker \ ({on[p]} \cap marks[p])
            /\ Go(p, "finish") /\ UNCHANGED local
  BY DEF Unmark, At
<1>2. marker' \subseteq Account /\ marks' \in [Proc -> SUBSET Account]
  BY <1>1 DEF TypeOK
<1>3. CASE kind[p] = "claim" /\ marker' = marker \ {on[p]} /\ Done(p)
  <2>1. /\ pc' \in [Proc -> Places] /\ kind' \in [Proc -> Kinds] /\ cred' \in [Proc -> App \cup {None}]
        /\ seen' \in [Proc -> [Account -> Link]]
        /\ todo' \in [Proc -> SUBSET Account] /\ changed' \in [Proc -> SUBSET Account]
        /\ on' \in [Proc -> Account \cup {None}] /\ claim' \in [Proc -> SUBSET Email]
        /\ Ended(p) /\ Others(p)
    BY <1>3, DoneAt
  <2>2. TypeOK'
    BY <1>1, <1>2, <2>1 DEF TypeOK, world
  <2>. QED BY <1>1, <1>3, <2>1, <2>2
<1>4. CASE /\ kind[p] # "claim" /\ marker' = marker \ ({on[p]} \cap marks[p])
           /\ Go(p, "finish") /\ UNCHANGED local
  <2>1. "finish" \in Places
    BY DEF Places
  <2>2. pc' \in [Proc -> Places] /\ pc'[p] = "finish" /\ \A q \in Proc \ {p} : pc'[q] = pc[q]
    BY <1>4, <2>1, GoAt
  <2>3. TypeOK' /\ Others(p)
    BY <1>1, <1>2, <1>4, <2>2 DEF TypeOK, world, local, Others
  <2>. QED BY <1>1, <1>4, <2>2, <2>3
<1>. QED BY <1>1, <1>3, <1>4

\* finishClaims has the markers.
LEMMA MarkersDoes ==
    ASSUME TypeOK, NEW p \in Proc, Markers(p)
    PROVE  /\ TypeOK' /\ Others(p)
           /\ pc[p] = "markers" /\ pc'[p] = "finish"
           /\ marks'[p] = marker /\ changed'[p] = marker
           /\ \A q \in Proc \ {p} : marks'[q] = marks[q]
           /\ UNCHANGED <<world, app, link, marker, kind, cred, seen, todo, on, claim, cur, cut>>
BY LinksAssumption, LinkFields DEF TypeOK, Markers, At, Go, Event, Others, world, local, Places, Kinds

\* finishClaims is done, or takes up one claim.
LEMMA FinishClaimsDoes ==
    ASSUME TypeOK, NEW p \in Proc, FinishClaims(p)
    PROVE  /\ TypeOK' /\ Others(p)
           /\ pc[p] = "finish"
           /\ \/ pc'[p] = "list" /\ UNCHANGED <<changed, on, claim, cut>>
              \/ \E a \in changed[p] :
                    /\ changed'[p] = changed[p] \ {a} /\ on'[p] = a /\ claim'[p] = link[a].emails
                    /\ cut' = cut \cup Claimed(p, a)
                    /\ pc'[p] = IF link[a].state = "linked" THEN "others" ELSE "unmark"
           /\ UNCHANGED <<world, app, link, marker, kind, cred, seen, todo, cur, marks>>
<1>1. pc[p] = "finish" /\ UNCHANGED <<world, app, link, marker, kind, cred, seen, todo, cur, marks, events>>
  BY DEF FinishClaims, At
<1>2. CASE changed[p] = {}
  <2>1. Go(p, "list") /\ UNCHANGED <<changed, on, claim, cut>>
    BY <1>2 DEF FinishClaims
  <2>2. pc' \in [Proc -> Places] /\ pc'[p] = "list" /\ \A q \in Proc \ {p} : pc'[q] = pc[q]
    BY <2>1, GoAt DEF Places
  <2>3. TypeOK'
    BY <1>1, <2>1, <2>2 DEF TypeOK, world
  <2>. QED BY <1>1, <2>1, <2>2, <2>3 DEF Others
<1>3. CASE changed[p] # {}
  <2>1. PICK a \in changed[p] :
            /\ changed' = [changed EXCEPT ![p] = @ \ {a}]
            /\ on' = [on EXCEPT ![p] = a]
            /\ claim' = [claim EXCEPT ![p] = link[a].emails]
            /\ cut' = cut \cup Claimed(p, a)
            /\ Go(p, IF link[a].state = "linked" THEN "others" ELSE "unmark")
    BY <1>3 DEF FinishClaims
  <2>2. a \in Account /\ link[a].emails \subseteq Email
    BY LinkFields DEF TypeOK
  <2>3. /\ pc' \in [Proc -> Places] /\ pc'[p] = (IF link[a].state = "linked" THEN "others" ELSE "unmark")
        /\ \A q \in Proc \ {p} : pc'[q] = pc[q]
    BY <2>1, GoAt DEF Places
  <2>4. /\ changed' \in [Proc -> SUBSET Account] /\ changed'[p] = changed[p] \ {a}
        /\ \A q \in Proc \ {p} : changed'[q] = changed[q]
        /\ on' \in [Proc -> Account \cup {None}] /\ on'[p] = a /\ \A q \in Proc \ {p} : on'[q] = on[q]
    BY <2>1, <2>2 DEF TypeOK
  <2>5. /\ claim' \in [Proc -> SUBSET Email] /\ claim'[p] = link[a].emails
        /\ \A q \in Proc \ {p} : claim'[q] = claim[q]
        /\ cut' \subseteq Account
    BY <2>1, <2>2, ClaimedTyped DEF TypeOK
  <2>6. TypeOK'
    BY <1>1, <2>3, <2>4, <2>5 DEF TypeOK, world
  <2>. QED BY <1>1, <2>1, <2>3, <2>4, <2>5, <2>6 DEF Others
<1>. QED BY <1>2, <1>3

\* The links have been read.
LEMMA ListDoes ==
    ASSUME TypeOK, NEW p \in Proc, kind[p] \in {"check", "adopt", "disconnect"}, List(p)
    PROVE  /\ TypeOK' /\ Others(p)
           /\ pc[p] = "list" /\ pc'[p] = kind[p]
           /\ seen'[p] = link /\ cur'[p] = Account /\ on'[p] = None /\ claim'[p] = {}
           /\ todo'[p] = {a \in Account : link[a].state = "linked" /\ link[a].self}
           /\ \A q \in Proc \ {p} : cur'[q] = cur[q]
           /\ UNCHANGED <<world, app, link, marker, kind, cred, changed, marks, cut>>
BY LinksAssumption, LinkFields DEF TypeOK, List, At, Go, Event, Others, world, local, Places, Kinds

\* An operation has begun.
LEMMA StartDoes ==
    ASSUME TypeOK, NEW p \in Proc, NEW operation \in {"check", "adopt", "disconnect"}, Start(p, operation)
    PROVE  /\ TypeOK' /\ Others(p)
           /\ pc[p] = "idle" /\ pc'[p] = "markers" /\ kind'[p] = operation
           /\ operation = "check" /\ ~Overlap => \A q \in Proc : kind[q] # "check"
           /\ UNCHANGED <<world, app, link, marker, cred, seen, todo, changed, on, claim, cur, marks, cut>>
BY LinksAssumption, LinkFields DEF TypeOK, Start, At, Go, Event, Others, world, local, Places, Kinds

\* The check has the App it works with, or ends.
LEMMA LinkCredentialDoes ==
    ASSUME TypeOK, NEW p \in Proc, LinkCredential(p)
    PROVE  /\ TypeOK' /\ Others(p)
           /\ pc[p] = "check"
           /\ \/ Ended(p)
              \/ /\ cred'[p] = app /\ pc'[p] = "next"
                 /\ UNCHANGED <<kind, seen, todo, changed, on, claim>>
           /\ UNCHANGED <<world, app, link, marker, cur, marks, cut>>
<1>1. pc[p] = "check" /\ UNCHANGED <<world, app, link, marker, cur, marks, cut, events>>
  BY DEF LinkCredential, At
<1>2. CASE Done(p)
  <2>1. TypeOK'
    BY <1>1, <1>2, DoneAt DEF TypeOK, world
  <2>. QED BY <1>1, <1>2, <2>1, DoneAt DEF world
<1>3. CASE ~Done(p)
  <2>1. cred' = [cred EXCEPT ![p] = app] /\ Go(p, "next") /\ UNCHANGED <<kind, seen, todo, changed, on, claim>>
    BY <1>3 DEF LinkCredential
  <2>2. pc' \in [Proc -> Places] /\ pc'[p] = "next" /\ \A q \in Proc \ {p} : pc'[q] = pc[q]
    BY <2>1, GoAt DEF Places
  <2>3. cred' \in [Proc -> App \cup {None}] /\ cred'[p] = app /\ \A q \in Proc \ {p} : cred'[q] = cred[q]
    BY <2>1 DEF TypeOK
  <2>4. TypeOK'
    BY <1>1, <2>1, <2>2, <2>3 DEF TypeOK, world
  <2>. QED BY <1>1, <2>1, <2>2, <2>3, <2>4 DEF Others
<1>. QED BY <1>2, <1>3

\* The check is through, or comes to its next link.
LEMMA CheckNextDoes ==
    ASSUME TypeOK, NEW p \in Proc, CheckNext(p)
    PROVE  /\ TypeOK' /\ Others(p)
           /\ pc[p] = "next"
           /\ \/ pc'[p] = "update" /\ on'[p] = None /\ UNCHANGED todo
              \/ \E a \in todo[p] : todo'[p] = todo[p] \ {a} /\ on'[p] = a /\ pc'[p] = "checkapp"
           /\ UNCHANGED <<world, app, link, marker, kind, cred, seen, changed, claim, cur, marks, cut>>
<1>1. pc[p] = "next" /\ UNCHANGED <<world, app, link, marker, kind, cred, seen, changed, claim, cur, marks, cut, events>>
  BY DEF CheckNext, At
<1>2. CASE todo[p] = {}
  <2>1. Go(p, "update") /\ on' = [on EXCEPT ![p] = None] /\ UNCHANGED todo
    BY <1>2 DEF CheckNext
  <2>2. /\ pc' \in [Proc -> Places] /\ pc'[p] = "update" /\ \A q \in Proc \ {p} : pc'[q] = pc[q]
        /\ on' \in [Proc -> Account \cup {None}] /\ on'[p] = None /\ \A q \in Proc \ {p} : on'[q] = on[q]
    BY <2>1, GoAt DEF Places, TypeOK
  <2>3. TypeOK'
    BY <1>1, <2>1, <2>2 DEF TypeOK, world
  <2>. QED BY <1>1, <2>1, <2>2, <2>3 DEF Others
<1>3. CASE todo[p] # {}
  <2>1. PICK a \in todo[p] :
          todo' = [todo EXCEPT ![p] = @ \ {a}] /\ on' = [on EXCEPT ![p] = a] /\ Go(p, "checkapp")
    BY <1>3 DEF CheckNext
  <2>2. /\ pc' \in [Proc -> Places] /\ pc'[p] = "checkapp" /\ \A q \in Proc \ {p} : pc'[q] = pc[q]
    BY <2>1, GoAt DEF Places
  <2>3. /\ todo' \in [Proc -> SUBSET Account] /\ todo'[p] = todo[p] \ {a} /\ \A q \in Proc \ {p} : todo'[q] = todo[q]
        /\ on' \in [Proc -> Account \cup {None}] /\ on'[p] = a /\ \A q \in Proc \ {p} : on'[q] = on[q]
    BY <2>1 DEF TypeOK
  <2>4. TypeOK'
    BY <1>1, <2>2, <2>3 DEF TypeOK, world
  <2>. QED BY <1>1, <2>1, <2>2, <2>3, <2>4 DEF Others
<1>. QED BY <1>2, <1>3

\* A link of another App is unverifiable.
LEMMA CheckAppDoes ==
    ASSUME TypeOK, NEW p \in Proc, on[p] \in Account, CheckApp(p)
    PROVE  /\ TypeOK' /\ Others(p)
           /\ pc[p] = "checkapp"
           /\ \/ Saw(p, on[p], Unverifiable(Mine(p))) /\ pc'[p] = "next"
              \/ /\ Mine(p).app = cred[p] /\ pc'[p] = IF Mine(p).refreshing THEN "probe" ELSE "due"
                 /\ UNCHANGED seen
           /\ UNCHANGED <<world, app, link, marker, kind, cred, todo, on, claim, cur, marks, cut>>
<1>1. pc[p] = "checkapp" /\ UNCHANGED <<world, app, link, marker, kind, cred, todo, on, claim, cur, marks, cut, events>>
  BY DEF CheckApp, At
<1>2. Mine(p) \in Link
  BY DEF TypeOK, Mine
<1>3. CASE Mine(p).app # cred[p]
  <2>1. Found(p, Unverifiable(Mine(p)))
    BY <1>3 DEF CheckApp
  <2>. QED BY <1>1, <1>2, <2>1, FoundDoes, UnverifiableFields
<1>4. CASE Mine(p).app = cred[p]
  <2>1. Go(p, IF Mine(p).refreshing THEN "probe" ELSE "due") /\ UNCHANGED <<seen, changed>>
    BY <1>4 DEF CheckApp
  <2>2. /\ pc' \in [Proc -> Places] /\ pc'[p] = (IF Mine(p).refreshing THEN "probe" ELSE "due")
        /\ \A q \in Proc \ {p} : pc'[q] = pc[q]
    BY <2>1, GoAt DEF Places
  <2>3. TypeOK'
    BY <1>1, <2>1, <2>2 DEF TypeOK, world
  <2>. QED BY <1>1, <1>4, <2>1, <2>2, <2>3 DEF Others
<1>. QED BY <1>3, <1>4

\* A refresh that never finished is probed.
LEMMA ProbeDoes ==
    ASSUME TypeOK, NEW p \in Proc, on[p] \in Account, Probe(p)
    PROVE  /\ TypeOK' /\ Others(p)
           /\ pc[p] = "probe"
           /\ \/ /\ Valid(on[p], Mine(p), cred[p]) /\ pc'[p] = "due"
                 /\ Saw(p, on[p], [Mine(p) EXCEPT !.refreshing = FALSE])
              \/ Saw(p, on[p], Unverifiable(Mine(p))) /\ pc'[p] = "next"
           /\ UNCHANGED <<world, app, link, marker, kind, cred, todo, on, claim, cur, marks, cut>>
<1>1. pc[p] = "probe" /\ UNCHANGED <<world, app, link, marker, kind, cred, todo, on, claim, cur, marks, cut, events>>
  BY DEF Probe, At
<1>2. Mine(p) \in Link
  BY DEF TypeOK, Mine
<1>3. CASE ~Valid(on[p], Mine(p), cred[p])
  <2>1. Found(p, Unverifiable(Mine(p)))
    BY <1>3 DEF Probe
  <2>. QED BY <1>1, <1>2, <2>1, FoundDoes, UnverifiableFields
<1>4. CASE Valid(on[p], Mine(p), cred[p])
  <2>. DEFINE k == [Mine(p) EXCEPT !.refreshing = FALSE]
  <2>1. seen' = [seen EXCEPT ![p][on[p]] = k] /\ Go(p, "due") /\ UNCHANGED changed
    BY <1>4 DEF Probe
  <2>2. k \in Link
    BY <1>2, RefreshingFields
  <2>3. /\ pc' \in [Proc -> Places] /\ pc'[p] = "due" /\ \A q \in Proc \ {p} : pc'[q] = pc[q]
    BY <2>1, GoAt DEF Places
  <2>4. seen' \in [Proc -> [Account -> Link]] /\ Saw(p, on[p], k) /\ \A q \in Proc \ {p} : seen'[q] = seen[q]
    BY <2>1, <2>2, SeenAt
  <2>5. TypeOK'
    BY <1>1, <2>1, <2>3, <2>4 DEF TypeOK, world
  <2>. QED BY <1>1, <1>4, <2>1, <2>3, <2>4, <2>5 DEF Others
<1>. QED BY <1>3, <1>4

\* The pair is due, or not.
LEMMA RefreshDueDoes ==
    ASSUME TypeOK, NEW p \in Proc, on[p] \in Account, RefreshDue(p)
    PROVE  /\ TypeOK' /\ Others(p)
           /\ pc[p] = "due" /\ pc'[p] \in {"claimrefresh", "user"}
           /\ UNCHANGED <<world, app, link, marker, local, cur, marks, cut>>
BY LinksAssumption, LinkFields DEF TypeOK, RefreshDue, At, Go, Event, Others, world, local, Places, Kinds

\* The refresh is claimed, or somebody else was first.
LEMMA ClaimRefreshDoes ==
    ASSUME TypeOK, NEW p \in Proc, on[p] \in Account, ClaimRefresh(p)
    PROVE  /\ TypeOK' /\ Others(p)
           /\ pc[p] = "claimrefresh"
           /\ \/ /\ on[p] \in cur[p] /\ pc'[p] = "exchange"
                 /\ Saw(p, on[p], [Mine(p) EXCEPT !.refreshing = TRUE])
                 /\ Written(p, on[p], [Mine(p) EXCEPT !.refreshing = TRUE])
              \/ pc'[p] = "elsewhere" /\ UNCHANGED <<seen, link, cur>>
           /\ UNCHANGED <<world, app, marker, kind, cred, todo, changed, on, claim, marks, cut>>
<1>1. /\ pc[p] = "claimrefresh"
      /\ UNCHANGED <<world, app, marker, kind, cred, todo, changed, on, claim, marks, cut, events>>
  BY DEF ClaimRefresh, At
<1>2. CASE on[p] \in cur[p]
  <2>. DEFINE k == [Mine(p) EXCEPT !.refreshing = TRUE]
  <2>1. seen' = [seen EXCEPT ![p][on[p]] = k] /\ Write(p, on[p], k) /\ Go(p, "exchange")
    BY <1>2 DEF ClaimRefresh
  <2>2. Mine(p) \in Link
    BY DEF TypeOK, Mine
  <2>3. k \in Link
    BY <2>2, RefreshingFields
  <2>4. /\ pc' \in [Proc -> Places] /\ pc'[p] = "exchange" /\ \A q \in Proc \ {p} : pc'[q] = pc[q]
    BY <2>1, GoAt DEF Places
  <2>5. seen' \in [Proc -> [Account -> Link]] /\ Saw(p, on[p], k) /\ \A q \in Proc \ {p} : seen'[q] = seen[q]
    BY <2>1, <2>3, SeenAt
  <2>6. link' \in [Account -> Link] /\ cur' \in [Proc -> SUBSET Account] /\ Written(p, on[p], k)
    BY <2>1, <2>3, WriteAt
  <2>7. TypeOK'
    BY <1>1, <2>4, <2>5, <2>6 DEF TypeOK, world
  <2>. QED BY <1>1, <1>2, <2>4, <2>5, <2>6, <2>7 DEF Others
<1>3. CASE on[p] \notin cur[p]
  <2>1. Go(p, "elsewhere") /\ UNCHANGED <<seen, link, cur>>
    BY <1>3 DEF ClaimRefresh
  <2>2. /\ pc' \in [Proc -> Places] /\ pc'[p] = "elsewhere" /\ \A q \in Proc \ {p} : pc'[q] = pc[q]
    BY <2>1, GoAt DEF Places
  <2>3. TypeOK'
    BY <1>1, <2>1, <2>2 DEF TypeOK, world
  <2>. QED BY <1>1, <2>1, <2>2, <2>3 DEF Others
<1>. QED BY <1>2, <1>3

\* What somebody else refreshed is taken over, or left.
LEMMA RefreshedElsewhereDoes ==
    ASSUME TypeOK, NEW p \in Proc, on[p] \in Account, RefreshedElsewhere(p)
    PROVE  /\ TypeOK' /\ Others(p)
           /\ pc[p] = "elsewhere"
           /\ \/ /\ link[on[p]].state = "linked" /\ ~link[on[p]].refreshing /\ link[on[p]].pair # None
                 /\ Saw(p, on[p], link[on[p]]) /\ cur'[p] = cur[p] \cup {on[p]}
                 /\ \A q \in Proc \ {p} : cur'[q] = cur[q]
                 /\ pc'[p] = "user"
              \/ pc'[p] = "next" /\ UNCHANGED <<seen, cur>>
           /\ UNCHANGED <<world, app, link, marker, kind, cred, todo, on, claim, marks, cut>>
<1>1. /\ pc[p] = "elsewhere"
      /\ UNCHANGED <<world, app, link, marker, kind, cred, todo, on, claim, marks, cut, events>>
  BY DEF RefreshedElsewhere, At
<1>2. CASE /\ link[on[p]].state = "linked" /\ ~link[on[p]].refreshing /\ link[on[p]].pair # None
           /\ seen' = [seen EXCEPT ![p][on[p]] = link[on[p]]]
           /\ cur' = [cur EXCEPT ![p] = @ \cup {on[p]}]
           /\ changed' = [changed EXCEPT ![p] = @ \cup {on[p]}]
           /\ Go(p, "user")
  <2>1. link[on[p]] \in Link
    BY DEF TypeOK
  <2>2. /\ pc' \in [Proc -> Places] /\ pc'[p] = "user" /\ \A q \in Proc \ {p} : pc'[q] = pc[q]
    BY <1>2, GoAt DEF Places
  <2>3. /\ seen' \in [Proc -> [Account -> Link]] /\ Saw(p, on[p], link[on[p]])
        /\ \A q \in Proc \ {p} : seen'[q] = seen[q]
    BY <1>2, <2>1, SeenAt
  <2>4. /\ cur' \in [Proc -> SUBSET Account] /\ cur'[p] = cur[p] \cup {on[p]}
        /\ \A q \in Proc \ {p} : cur'[q] = cur[q]
        /\ changed' \in [Proc -> SUBSET Account] /\ \A q \in Proc \ {p} : changed'[q] = changed[q]
    BY <1>2 DEF TypeOK
  <2>5. TypeOK'
    BY <1>1, <2>2, <2>3, <2>4 DEF TypeOK, world
  <2>. QED BY <1>1, <1>2, <2>2, <2>3, <2>4, <2>5 DEF Others
<1>3. CASE Go(p, "next") /\ UNCHANGED <<seen, cur, changed>>
  <2>2. /\ pc' \in [Proc -> Places] /\ pc'[p] = "next" /\ \A q \in Proc \ {p} : pc'[q] = pc[q]
    BY <1>3, GoAt DEF Places
  <2>3. TypeOK'
    BY <1>1, <1>3, <2>2 DEF TypeOK, world
  <2>. QED BY <1>1, <1>3, <2>2, <2>3 DEF Others
<1>. QED BY <1>2, <1>3 DEF RefreshedElsewhere

\* The pair is exchanged, with or without an answer, or refused.
LEMMA RefreshUserTokensDoes ==
    ASSUME TypeOK, NEW p \in Proc, on[p] \in Account, RefreshUserTokens(p)
    PROVE  /\ TypeOK' /\ Others(p)
           /\ pc[p] = "exchange"
           /\ \/ /\ Valid(on[p], Mine(p), cred[p]) /\ Names(on[p])
                 /\ Issue(on[p], Mine(p).pair, Mint(on[p]))
                 /\ \/ /\ Saw(p, on[p], [Mine(p) EXCEPT !.pair = Mint(on[p]), !.refreshing = FALSE])
                       /\ pc'[p] = "keep"
                    \/ pc'[p] = "next" /\ UNCHANGED seen
              \/ pc'[p] = "refused" /\ UNCHANGED <<world, seen>>
           /\ UNCHANGED <<app, link, marker, kind, cred, todo, on, claim, cur, marks, cut>>
<1>1. pc[p] = "exchange" /\ UNCHANGED <<app, link, marker, kind, cred, todo, on, claim, cur, marks, cut>>
  BY DEF RefreshUserTokens, At
<1>2. Mine(p) \in Link /\ events' \in 0 .. MaxEvents
  BY Eventful DEF TypeOK, Mine, RefreshUserTokens
<1>. DEFINE k == [Mine(p) EXCEPT !.pair = Mint(on[p]), !.refreshing = FALSE]
            Issued == Valid(on[p], Mine(p), cred[p]) /\ Names(on[p]) /\ Issue(on[p], Mine(p).pair, Mint(on[p]))
<1>3. ASSUME Issued
      PROVE  /\ Mint(on[p]) \in Pair /\ verified' \in [Account -> SUBSET Email]
             /\ live' \in [Account -> SUBSET Pair] /\ revoked' \in [Account -> SUBSET Pair]
  BY <1>3, MintNew, IssueTyped
<1>4. CASE /\ Issued /\ seen' = [seen EXCEPT ![p][on[p]] = k]
           /\ changed' = [changed EXCEPT ![p] = @ \cup {on[p]}] /\ Go(p, "keep")
  <2>1. k \in Link
    BY <1>2, <1>3, <1>4, PairFields
  <2>2. /\ pc' \in [Proc -> Places] /\ pc'[p] = "keep" /\ \A q \in Proc \ {p} : pc'[q] = pc[q]
    BY <1>4, GoAt DEF Places
  <2>3. seen' \in [Proc -> [Account -> Link]] /\ Saw(p, on[p], k) /\ \A q \in Proc \ {p} : seen'[q] = seen[q]
    BY <1>4, <2>1, SeenAt
  <2>4. changed' \in [Proc -> SUBSET Account] /\ \A q \in Proc \ {p} : changed'[q] = changed[q]
    BY <1>4 DEF TypeOK
  <2>5. TypeOK'
    BY <1>1, <1>2, <1>3, <1>4, <2>2, <2>3, <2>4 DEF TypeOK
  <2>. QED BY <1>1, <1>4, <2>2, <2>3, <2>4, <2>5 DEF Others
<1>5. CASE Issued /\ Go(p, "next") /\ UNCHANGED <<seen, changed>>
  <2>2. /\ pc' \in [Proc -> Places] /\ pc'[p] = "next" /\ \A q \in Proc \ {p} : pc'[q] = pc[q]
    BY <1>5, GoAt DEF Places
  <2>5. TypeOK'
    BY <1>1, <1>2, <1>3, <1>5, <2>2 DEF TypeOK
  <2>. QED BY <1>1, <1>5, <2>2, <2>5 DEF Others
<1>6. CASE Go(p, "refused") /\ UNCHANGED <<world, seen, changed>>
  <2>2. /\ pc' \in [Proc -> Places] /\ pc'[p] = "refused" /\ \A q \in Proc \ {p} : pc'[q] = pc[q]
    BY <1>6, GoAt DEF Places
  <2>5. TypeOK'
    BY <1>1, <1>2, <1>6, <2>2 DEF TypeOK, world
  <2>. QED BY <1>1, <1>6, <2>2, <2>5 DEF Others
<1>. QED BY <1>4, <1>5, <1>6 DEF RefreshUserTokens

\* A refused refresh is looked into.
LEMMA RefreshRefusedDoes ==
    ASSUME TypeOK, NEW p \in Proc, on[p] \in Account, RefreshRefused(p)
    PROVE  /\ TypeOK' /\ Others(p)
           /\ pc[p] = "refused" /\ pc'[p] = "next"
           /\ Saw(p, on[p], IF Valid(on[p], Mine(p), cred[p]) THEN Unverifiable(Mine(p))
                            ELSE Lose(Mine(p), Mine(p).pair))
           /\ UNCHANGED <<world, app, link, marker, kind, cred, todo, on, claim, cur, marks, cut>>
<1>1. pc[p] = "refused" /\ UNCHANGED <<world, app, link, marker, kind, cred, todo, on, claim, cur, marks, cut, events>>
  BY DEF RefreshRefused, At
<1>2. Mine(p) \in Link
  BY DEF TypeOK, Mine
<1>. DEFINE k == IF Valid(on[p], Mine(p), cred[p]) THEN Unverifiable(Mine(p)) ELSE Lose(Mine(p), Mine(p).pair)
<1>3. Mine(p).pair \in Pair \cup {None}
  BY <1>2, LinkFields
<1>4. k \in Link
  BY <1>2, <1>3, LoseFields, UnverifiableFields
<1>5. Found(p, k)
  BY DEF RefreshRefused
<1>. QED BY <1>1, <1>4, <1>5, FoundDoes

\* The new pair is kept, if the link is as it was read.
LEMMA KeepPairDoes ==
    ASSUME TypeOK, NEW p \in Proc, on[p] \in Account, KeepPair(p)
    PROVE  /\ TypeOK' /\ Others(p)
           /\ pc[p] = "keep" /\ pc'[p] = "user"
           /\ \/ on[p] \in cur[p] /\ Written(p, on[p], Mine(p))
              \/ UNCHANGED <<link, cur>>
           /\ UNCHANGED <<world, app, marker, local, marks, cut>>
<1>1. pc[p] = "keep" /\ UNCHANGED <<world, app, marker, local, marks, cut, events>>
  BY DEF KeepPair, At
<1>2. /\ pc' \in [Proc -> Places] /\ pc'[p] = "user" /\ \A q \in Proc \ {p} : pc'[q] = pc[q]
  BY GoAt DEF KeepPair, Places
<1>3. Mine(p) \in Link
  BY DEF TypeOK, Mine
<1>4. /\ link' \in [Account -> Link] /\ cur' \in [Proc -> SUBSET Account]
      /\ (on[p] \in cur[p] /\ Written(p, on[p], Mine(p))) \/ UNCHANGED <<link, cur>>
  BY <1>3, WriteAt DEF KeepPair, TypeOK
<1>5. TypeOK'
  BY <1>1, <1>2, <1>4 DEF TypeOK, world, local
<1>. QED BY <1>1, <1>2, <1>4, <1>5 DEF Others, local

\* GitHub has answered for the account.
LEMMA CheckUserDoes ==
    ASSUME TypeOK, NEW p \in Proc, on[p] \in Account, CheckUser(p)
    PROVE  /\ TypeOK' /\ Others(p)
           /\ pc[p] = "user" /\ pc'[p] = "next"
           /\ \/ Mine(p).pair \notin live[on[p]] /\ Saw(p, on[p], Lose(Mine(p), Mine(p).pair))
              \/ Saw(p, on[p], Lose(Mine(p), None))
              \/ Saw(p, on[p], [Mine(p) EXCEPT !.emails = Mine(p).emails \cap verified[on[p]]])
           /\ UNCHANGED <<world, app, link, marker, kind, cred, todo, on, claim, cur, marks, cut>>
<1>1. pc[p] = "user" /\ UNCHANGED <<world, app, link, marker, kind, cred, todo, on, claim, cur, marks, cut, events>>
  BY DEF CheckUser, At
<1>2. Mine(p) \in Link
  BY DEF TypeOK, Mine
<1>. DEFINE kept == Mine(p).emails \cap verified[on[p]]
<1>3. Mine(p).pair \in Pair \cup {None} /\ kept \in SUBSET Email
  BY <1>2, LinkFields
<1>4. /\ Lose(Mine(p), Mine(p).pair) \in Link /\ Lose(Mine(p), None) \in Link
      /\ [Mine(p) EXCEPT !.emails = kept] \in Link
  BY <1>2, <1>3, LoseFields, EmailsFields
<1>5. \/ Mine(p).pair \notin live[on[p]] /\ Found(p, Lose(Mine(p), Mine(p).pair))
      \/ Found(p, Lose(Mine(p), None))
      \/ Found(p, [Mine(p) EXCEPT !.emails = kept])
  BY DEF CheckUser
<1>. QED BY <1>1, <1>4, <1>5, FoundDoes

\* A call of the check has failed.
LEMMA CheckFailsDoes ==
    ASSUME TypeOK, NEW p \in Proc, CheckFails(p)
    PROVE  /\ TypeOK' /\ Others(p)
           /\ pc[p] \in {"probe", "claimrefresh", "exchange", "refused", "keep", "user"}
           /\ pc'[p] = IF pc[p] = "keep" THEN "user" ELSE "next"
           /\ UNCHANGED <<world, app, link, marker, local, cur, marks, cut>>
BY LinksAssumption, LinkFields DEF TypeOK, CheckFails, At, Go, Event, Others, world, local, Places, Kinds

\* The check ends, or writes one more link.
LEMMA UpdateChangedDoes ==
    ASSUME TypeOK, NEW p \in Proc, UpdateChanged(p)
    PROVE  /\ TypeOK' /\ Others(p)
           /\ pc[p] = "update"
           /\ \/ Ended(p) /\ UNCHANGED <<link, cur>>
              \/ \E a \in changed[p] :
                    /\ changed'[p] = changed[p] \ {a}
                    /\ \/ a \in cur[p] /\ Written(p, a, seen[p][a])
                       \/ UNCHANGED <<link, cur>>
                    /\ UNCHANGED <<pc, kind, cred, seen, todo, on, claim>>
           /\ UNCHANGED <<world, app, marker, marks, cut>>
<1>1. pc[p] = "update" /\ UNCHANGED <<world, app, marker, marks, cut, events>>
  BY DEF UpdateChanged, At
<1>2. CASE changed[p] = {}
  <2>1. Done(p) /\ UNCHANGED <<link, cur>>
    BY <1>2 DEF UpdateChanged
  <2>2. TypeOK'
    BY <1>1, <2>1, DoneAt DEF TypeOK, world
  <2>. QED BY <1>1, <2>1, <2>2, DoneAt
<1>3. CASE changed[p] # {}
  <2>1. PICK a \in changed[p] :
            /\ changed' = [changed EXCEPT ![p] = @ \ {a}]
            /\ IF a \in cur[p] THEN Write(p, a, seen[p][a]) ELSE UNCHANGED <<link, cur>>
            /\ UNCHANGED <<pc, kind, cred, seen, todo, on, claim>>
    BY <1>3 DEF UpdateChanged
  <2>2. a \in Account /\ seen[p][a] \in Link
    BY DEF TypeOK
  <2>3. /\ link' \in [Account -> Link] /\ cur' \in [Proc -> SUBSET Account]
        /\ (a \in cur[p] /\ Written(p, a, seen[p][a])) \/ UNCHANGED <<link, cur>>
    BY <2>1, <2>2, WriteAt DEF TypeOK
  <2>4. /\ changed' \in [Proc -> SUBSET Account] /\ changed'[p] = changed[p] \ {a}
        /\ \A q \in Proc \ {p} : changed'[q] = changed[q]
    BY <2>1 DEF TypeOK
  <2>5. TypeOK'
    BY <1>1, <2>1, <2>3, <2>4 DEF TypeOK, world
  <2>. QED BY <1>1, <2>1, <2>3, <2>4, <2>5 DEF Others
<1>. QED BY <1>2, <1>3

\* The import has chosen, or ends.
LEMMA AdoptPickDoes ==
    ASSUME TypeOK, NEW p \in Proc, AdoptPick(p)
    PROVE  /\ TypeOK' /\ Others(p)
           /\ pc[p] = "adopt"
           /\ \/ Ended(p)
              \/ /\ on'[p] \in Account /\ pc'[p] = "adoptwrite"
                 /\ UNCHANGED <<kind, cred, seen, todo, changed>>
           /\ UNCHANGED <<world, app, link, marker, cur, marks, cut>>
<1>1. pc[p] = "adopt" /\ UNCHANGED <<world, app, link, marker, cur, marks, cut, events>>
  BY DEF AdoptPick, At
<1>2. CASE Done(p)
  <2>1. TypeOK'
    BY <1>1, <1>2, DoneAt DEF TypeOK, world
  <2>. QED BY <1>1, <1>2, <2>1, DoneAt DEF world
<1>3. CASE ~Done(p)
  <2>1. PICK a \in Account, kept \in SUBSET Email :
           /\ on' = [on EXCEPT ![p] = a] /\ claim' = [claim EXCEPT ![p] = kept]
           /\ Go(p, "adoptwrite")
           /\ UNCHANGED <<kind, cred, seen, todo, changed>>
    BY <1>3 DEF AdoptPick
  <2>2. /\ pc' \in [Proc -> Places] /\ pc'[p] = "adoptwrite" /\ \A q \in Proc \ {p} : pc'[q] = pc[q]
    BY <2>1, GoAt DEF Places
  <2>3. /\ on' \in [Proc -> Account \cup {None}] /\ on'[p] = a /\ \A q \in Proc \ {p} : on'[q] = on[q]
        /\ claim' \in [Proc -> SUBSET Email] /\ \A q \in Proc \ {p} : claim'[q] = claim[q]
    BY <2>1 DEF TypeOK
  <2>4. TypeOK'
    BY <1>1, <2>1, <2>2, <2>3 DEF TypeOK, world
  <2>. QED BY <1>1, <2>1, <2>2, <2>3, <2>4 DEF Others
<1>. QED BY <1>2, <1>3

\* The import is over.
LEMMA AdoptWriteDoes ==
    ASSUME TypeOK, NEW p \in Proc, on[p] \in Account, AdoptWrite(p)
    PROVE  /\ TypeOK' /\ Others(p)
           /\ pc[p] = "adoptwrite" /\ Ended(p)
           /\ \/ UNCHANGED <<link, cur>>
              \/ Written(p, on[p], [NoLink EXCEPT !.state = "linked", !.emails = claim[p]])
           /\ UNCHANGED <<world, app, marker, marks, cut>>
<1>1. pc[p] = "adoptwrite" /\ Done(p) /\ UNCHANGED <<world, app, marker, marks, cut, events>>
  BY DEF AdoptWrite, At
<1>. DEFINE k == [NoLink EXCEPT !.state = "linked", !.emails = claim[p]]
<1>2. k \in Link
  BY NewFields DEF TypeOK
<1>3. UNCHANGED <<link, cur>> \/ Write(p, on[p], k)
  BY DEF AdoptWrite
<1>4. /\ link' \in [Account -> Link] /\ cur' \in [Proc -> SUBSET Account]
      /\ UNCHANGED <<link, cur>> \/ Written(p, on[p], k)
  BY <1>2, <1>3, WriteAt DEF TypeOK
<1>5. TypeOK'
  BY <1>1, <1>4, DoneAt DEF TypeOK, world
<1>. QED BY <1>1, <1>4, <1>5, DoneAt

\* Every link made with the App is dealt with in turn.
LEMMA InvalidateDoes ==
    ASSUME TypeOK, NEW p \in Proc, Invalidate(p)
    PROVE  /\ TypeOK' /\ Others(p)
           /\ pc[p] = "disconnect"
           /\ \/ pc'[p] = "deleteapp" /\ UNCHANGED <<link, cur, todo>>
              \/ \E a \in todo[p] :
                    /\ \/ Written(p, a, Unverifiable(link[a]))
                       \/ UNCHANGED <<link, cur>>
                    /\ UNCHANGED pc
           /\ UNCHANGED <<world, app, marker, kind, cred, seen, changed, on, claim, marks, cut>>
<1>1. pc[p] = "disconnect" /\ UNCHANGED <<world, app, marker, kind, cred, seen, changed, on, claim, marks, cut, events>>
  BY DEF Invalidate, At
<1>2. CASE todo[p] = {}
  <2>1. Go(p, "deleteapp") /\ UNCHANGED <<link, cur, todo>>
    BY <1>2 DEF Invalidate
  <2>2. /\ pc' \in [Proc -> Places] /\ pc'[p] = "deleteapp" /\ \A q \in Proc \ {p} : pc'[q] = pc[q]
    BY <2>1, GoAt DEF Places
  <2>3. TypeOK'
    BY <1>1, <2>1, <2>2 DEF TypeOK, world
  <2>. QED BY <1>1, <2>1, <2>2, <2>3 DEF Others
<1>3. CASE todo[p] # {}
  <2>1. PICK a \in todo[p] :
            /\ todo' = [todo EXCEPT ![p] = @ \ {a}]
            /\ IF link[a].state = "linked" /\ link[a].self
               THEN Write(p, a, Unverifiable(link[a])) ELSE UNCHANGED <<link, cur>>
            /\ UNCHANGED pc
    BY <1>3 DEF Invalidate
  <2>2. a \in Account /\ Unverifiable(link[a]) \in Link
    BY UnverifiableFields DEF TypeOK
  <2>3. /\ link' \in [Account -> Link] /\ cur' \in [Proc -> SUBSET Account]
        /\ Written(p, a, Unverifiable(link[a])) \/ UNCHANGED <<link, cur>>
    BY <2>1, <2>2, WriteAt DEF TypeOK
  <2>4. todo' \in [Proc -> SUBSET Account] /\ \A q \in Proc \ {p} : todo'[q] = todo[q]
    BY <2>1 DEF TypeOK
  <2>5. TypeOK'
    BY <1>1, <2>1, <2>3, <2>4 DEF TypeOK, world
  <2>. QED BY <1>1, <2>1, <2>3, <2>4, <2>5 DEF Others
<1>. QED BY <1>2, <1>3

\* The App is gone.
LEMMA DeleteLinkAppDoes ==
    ASSUME TypeOK, NEW p \in Proc, DeleteLinkApp(p)
    PROVE  /\ TypeOK' /\ Others(p)
           /\ pc[p] = "deleteapp" /\ Ended(p)
           /\ UNCHANGED <<world, link, marker, cur, marks, cut>>
BY LinksAssumption, DoneAt, LinkFields DEF TypeOK, DeleteLinkApp, At, Go, Event, Others, world, local, Places, Kinds

\* A process has forgotten everything.
LEMMA CrashDoes ==
    ASSUME TypeOK, NEW p \in Proc, Crash(p)
    PROVE  /\ TypeOK' /\ Others(p)
           /\ Ended(p)
           /\ UNCHANGED <<world, app, link, marker, cur, marks, cut>>
BY LinksAssumption, DoneAt, LinkFields DEF TypeOK, Crash, At, Go, Event, Others, world, local, Places, Kinds

\* The world moves without the processes.
LEMMA WorldDoes ==
    ASSUME TypeOK,
           \/ \E a \in Account : Revoke(a) \/ \E emails \in SUBSET Email : Verify(a, emails)
           \/ \E new \in App : PutLinkApp(new)
    PROVE  /\ TypeOK' /\ UNCHANGED <<link, marker, pc, local, cur, marks, cut>>
           /\ \A a \in Account : /\ live[a] \cup revoked[a] = live'[a] \cup revoked'[a]
                                 /\ revoked[a] \subseteq revoked'[a]
<1>1. ASSUME NEW a \in Account, Revoke(a)
      PROVE  /\ TypeOK' /\ UNCHANGED <<link, marker, pc, local, cur, marks, cut>>
             /\ \A b \in Account : /\ live[b] \cup revoked[b] = live'[b] \cup revoked'[b]
                                   /\ revoked[b] \subseteq revoked'[b]
  <2>1. events' \in 0 .. MaxEvents
    BY <1>1, Eventful DEF Revoke
  <2>. QED BY <1>1, <2>1 DEF Revoke, TypeOK, local
<1>2. ASSUME NEW a \in Account, NEW emails \in SUBSET Email, Verify(a, emails)
      PROVE  /\ TypeOK' /\ UNCHANGED <<link, marker, pc, local, cur, marks, cut>>
             /\ \A b \in Account : /\ live[b] \cup revoked[b] = live'[b] \cup revoked'[b]
                                   /\ revoked[b] \subseteq revoked'[b]
  <2>1. events' \in 0 .. MaxEvents
    BY <1>2, Eventful DEF Verify
  <2>. QED BY <1>2, <2>1 DEF Verify, TypeOK, local
<1>3. ASSUME NEW new \in App, PutLinkApp(new)
      PROVE  /\ TypeOK' /\ UNCHANGED <<link, marker, pc, local, cur, marks, cut>>
             /\ \A b \in Account : /\ live[b] \cup revoked[b] = live'[b] \cup revoked'[b]
                                   /\ revoked[b] \subseteq revoked'[b]
  <2>1. events' \in 0 .. MaxEvents
    BY <1>3, Eventful DEF PutLinkApp
  <2>. QED BY <1>3, <2>1 DEF PutLinkApp, TypeOK, local, world
<1>. QED BY <1>1, <1>2, <1>3

-----------------------------------------------------------------------------
(* Types, and what a process knows at each place.                          *)

\* What a step leaves to be shown: that the process that moved knows its place.
LEMMA SoundOf ==
    ASSUME Sound, NEW p \in Proc, TypeOK', Others(p), Role(p)', Asking(p)',
           \A a \in Account : Paired(seen'[p][a]) /\ Paired(link'[a])
    PROVE  Sound'
<1>1. ASSUME NEW q \in Proc \ {p}
      PROVE  Role(q)' /\ Asking(q)' /\ \A a \in Account : Paired(seen'[q][a])
  BY <1>1 DEF Sound, Others, Role, Asking, Mine
<1>. QED BY <1>1 DEF Sound

\* A check goes on asking about the account at hand, or goes on to the next.
LEMMA AskOn ==
    ASSUME NEW p \in Proc, Asking(p), pc[p] \in AskPlaces, todo'[p] = todo[p], todo[p] \subseteq Account,
           on'[p] = on[p], pc'[p] \in AskPlaces \cup {"next"},
           \A b \in Account \ {on[p]} : seen'[p][b] = seen[p][b],
           pc'[p] \in {"checkapp", "probe", "due", "claimrefresh"} =>
             seen'[p][on[p]].state = "linked" /\ seen'[p][on[p]].self
    PROVE  Asking(p)'
BY DEF Asking, Mine, AskPlaces

\* The operations on links keep a person's link paired.
LEMMA PairedLinks ==
    ASSUME NEW l \in Link
    PROVE  /\ \A was \in Pair \cup {None} : Paired(Lose(l, was))
           /\ Paired(Unverifiable(l))
           /\ Paired(l) => /\ \A emails \in SUBSET Email : Paired([l EXCEPT !.emails = emails])
                           /\ Paired([l EXCEPT !.refreshing = FALSE])
                           /\ l.state = "linked" /\ l.self => Paired([l EXCEPT !.refreshing = TRUE])
                           /\ \A taken \in SUBSET Email : Paired(Narrowed(l, taken))
           /\ \A new \in Pair : Paired([l EXCEPT !.pair = new, !.refreshing = FALSE])
<1>1. \A was \in Pair \cup {None} : Paired(Lose(l, was))
  BY LoseFields DEF Paired
<1>2. Paired(Unverifiable(l))
  BY UnverifiableFields DEF Paired
<1>3. ASSUME Paired(l), NEW emails \in SUBSET Email
      PROVE  Paired([l EXCEPT !.emails = emails])
  BY <1>3, EmailsFields DEF Paired
<1>4. ASSUME Paired(l)
      PROVE  /\ Paired([l EXCEPT !.refreshing = FALSE])
             /\ l.state = "linked" /\ l.self => Paired([l EXCEPT !.refreshing = TRUE])
  BY <1>4, RefreshingFields DEF Paired
<1>5. ASSUME Paired(l), NEW taken \in SUBSET Email
      PROVE  Paired(Narrowed(l, taken))
  BY <1>5, NarrowedFields DEF Paired
<1>6. ASSUME NEW new \in Pair
      PROVE  Paired([l EXCEPT !.pair = new, !.refreshing = FALSE])
  BY <1>6, PairFields, LinksAssumption DEF Paired
<1>. QED BY <1>1, <1>2, <1>3, <1>4, <1>5, <1>6

\* A link made from nothing is paired, and so are all of a process that has ended.
LEMMA PairedNew ==
    /\ Paired(NoLink)
    /\ \A new \in Pair, x \in App :
          Paired([NoLink EXCEPT !.state = "linked", !.self = TRUE, !.pair = new, !.root = new, !.app = x])
    /\ \A emails \in SUBSET Email : Paired([NoLink EXCEPT !.state = "linked", !.emails = emails])
    /\ \A p \in Proc : Ended(p) => \A b \in Account : Paired(seen'[p][b])
<1>1. Paired(NoLink)
  BY NewFields DEF Paired
<1>2. \A new \in Pair, x \in App :
          Paired([NoLink EXCEPT !.state = "linked", !.self = TRUE, !.pair = new, !.root = new, !.app = x])
  <2>1. ASSUME NEW new \in Pair, NEW x \in App
        PROVE  Paired([NoLink EXCEPT !.state = "linked", !.self = TRUE, !.pair = new, !.root = new, !.app = x])
    <3>. DEFINE k == [NoLink EXCEPT !.state = "linked", !.self = TRUE, !.pair = new, !.root = new, !.app = x]
    <3>1. k.pair = new
      BY DEF NoLink
    <3>. QED BY <3>1, LinksAssumption DEF Paired
  <2>. QED BY <2>1
<1>3. \A emails \in SUBSET Email : Paired([NoLink EXCEPT !.state = "linked", !.emails = emails])
  BY NewFields DEF Paired
<1>4. \A p \in Proc : Ended(p) => \A b \in Account : Paired(seen'[p][b])
  BY <1>1 DEF Ended
<1>. QED BY <1>1, <1>2, <1>3, <1>4

\* What a process holds stays paired when what it puts in is.
LEMMA PairedSaw ==
    ASSUME Sound, NEW p \in Proc, NEW a \in Account, NEW k, Saw(p, a, k), Paired(k)
    PROVE  \A b \in Account : Paired(seen'[p][b])
BY DEF Sound, Saw

\* The stored links stay paired when what is written is.
LEMMA PairedWritten ==
    ASSUME Sound, NEW p \in Proc, NEW a \in Account, NEW k, Written(p, a, k), Paired(k)
    PROVE  \A b \in Account : Paired(link'[b])
BY DEF Sound, Written


\* LinkCallback keeps what a process knows.
LEMMA LinkCallbackSound ==
    ASSUME Sound, NEW p \in Proc, NEW a \in Account, LinkCallback(p, a)
    PROVE  Sound'
<1>1. TypeOK
  BY DEF Sound, Role, LinkCallback, At, ClaimPlaces, NarrowPlaces, AskPlaces, CheckPlaces, TypeOK, Kinds
<1>2. TypeOK' /\ Others(p)
  BY <1>1, LinkCallbackDoes
<1>3. Role(p)'
  <2>1. pc'[p] = "emails" /\ kind'[p] = "claim" /\ on'[p] = a
    BY <1>1, LinkCallbackDoes
  <2>. QED BY <2>1 DEF Role, ClaimPlaces, AskPlaces, CheckPlaces
<1>4. Asking(p)'
  BY <1>1, LinkCallbackDoes DEF Sound, Asking, Mine, ClaimPlaces, NarrowPlaces, AskPlaces, CheckPlaces, Ended, local, TypeOK
<1>5. \A b \in Account : Paired(seen'[p][b])
  <2>1. app \in App /\ Mint(a) \in Pair
    BY <1>1, LinkCallbackDoes, MintNew
  <2>. DEFINE k == [NoLink EXCEPT !.state = "linked", !.self = TRUE,
                            !.pair = Mint(a), !.root = Mint(a), !.app = app]
  <2>2. Paired(k)
    BY <2>1, PairedNew
  <2>3. Saw(p, a, k)
    BY <1>1, LinkCallbackDoes
  <2>. QED BY <2>2, <2>3, PairedSaw
<1>6. \A b \in Account : Paired(link'[b])
  BY <1>1, LinkCallbackDoes DEF Sound
<1>. QED BY <1>2, <1>3, <1>4, <1>5, <1>6, SoundOf

\* LinkableAddresses keeps what a process knows.
LEMMA LinkableAddressesSound ==
    ASSUME Sound, NEW p \in Proc, LinkableAddresses(p)
    PROVE  Sound'
<1>1. TypeOK /\ on[p] \in Account
  BY DEF Sound, Role, LinkableAddresses, At, ClaimPlaces, NarrowPlaces, AskPlaces, CheckPlaces, TypeOK, Kinds
<1>2. TypeOK' /\ Others(p)
  BY <1>1, LinkableAddressesDoes
<1>3. Role(p)'
  BY <1>1, LinkableAddressesDoes DEF Sound, Role, ClaimPlaces, NarrowPlaces, AskPlaces, CheckPlaces, Ended, local, TypeOK
<1>4. Asking(p)'
  BY <1>1, LinkableAddressesDoes DEF Sound, Asking, Mine, ClaimPlaces, NarrowPlaces, AskPlaces, CheckPlaces, Ended, local, TypeOK
<1>5. \A b \in Account : Paired(seen'[p][b])
  <2>1. Mine(p) \in Link /\ Paired(Mine(p)) /\ Mine(p).pair \in Pair \cup {None}
    BY <1>1, LinkFields DEF Sound, Mine, TypeOK
  <2>2. CASE Ended(p)
    BY <2>2, PairedNew
  <2>3. CASE ~Ended(p)
    <3>1. PICK accepted \in SUBSET Email : Saw(p, on[p], [Mine(p) EXCEPT !.emails = accepted])
      BY <1>1, <2>3, LinkableAddressesDoes
    <3>2. Paired([Mine(p) EXCEPT !.emails = accepted])
      BY <2>1, PairedLinks
    <3>. QED BY <1>1, <3>1, <3>2, PairedSaw
  <2>. QED BY <2>2, <2>3
<1>6. \A b \in Account : Paired(link'[b])
  BY <1>1, LinkableAddressesDoes DEF Sound
<1>. QED BY <1>2, <1>3, <1>4, <1>5, <1>6, SoundOf

\* PutMarker keeps what a process knows.
LEMMA PutMarkerSound ==
    ASSUME Sound, NEW p \in Proc, PutMarker(p)
    PROVE  Sound'
<1>1. TypeOK /\ on[p] \in Account
  BY DEF Sound, Role, PutMarker, At, ClaimPlaces, NarrowPlaces, AskPlaces, CheckPlaces, TypeOK, Kinds
<1>2. TypeOK' /\ Others(p)
  BY <1>1, PutMarkerDoes
<1>3. Role(p)'
  BY <1>1, PutMarkerDoes DEF Sound, Role, ClaimPlaces, NarrowPlaces, AskPlaces, CheckPlaces, Ended, local, TypeOK
<1>4. Asking(p)'
  BY <1>1, PutMarkerDoes DEF Sound, Asking, Mine, ClaimPlaces, NarrowPlaces, AskPlaces, CheckPlaces, Ended, local, TypeOK
<1>5. \A b \in Account : Paired(seen'[p][b])
  BY <1>1, PutMarkerDoes, PairedNew DEF Sound, local
<1>6. \A b \in Account : Paired(link'[b])
  BY <1>1, PutMarkerDoes DEF Sound
<1>. QED BY <1>2, <1>3, <1>4, <1>5, <1>6, SoundOf

\* ClaimWrite keeps what a process knows.
LEMMA ClaimWriteSound ==
    ASSUME Sound, NEW p \in Proc, ClaimWrite(p)
    PROVE  Sound'
<1>1. TypeOK /\ on[p] \in Account
  BY DEF Sound, Role, ClaimWrite, At, ClaimPlaces, NarrowPlaces, AskPlaces, CheckPlaces, TypeOK, Kinds
<1>2. TypeOK' /\ Others(p)
  BY <1>1, ClaimWriteDoes
<1>3. Role(p)'
  BY <1>1, ClaimWriteDoes DEF Sound, Role, ClaimPlaces, NarrowPlaces, AskPlaces, CheckPlaces, Ended, local, TypeOK
<1>4. Asking(p)'
  BY <1>1, ClaimWriteDoes DEF Sound, Asking, Mine, ClaimPlaces, NarrowPlaces, AskPlaces, CheckPlaces, Ended, local, TypeOK
<1>5. \A b \in Account : Paired(seen'[p][b])
  BY <1>1, ClaimWriteDoes, PairedNew DEF Sound, local
<1>6. \A b \in Account : Paired(link'[b])
  BY <1>1, ClaimWriteDoes, PairedWritten, PairedLinks, PairedNew DEF Sound, Mine, TypeOK, Asking
<1>. QED BY <1>2, <1>3, <1>4, <1>5, <1>6, SoundOf

\* NarrowList keeps what a process knows.
LEMMA NarrowListSound ==
    ASSUME Sound, NEW p \in Proc, NarrowList(p)
    PROVE  Sound'
<1>1. TypeOK /\ on[p] \in Account
  BY DEF Sound, Role, NarrowList, At, ClaimPlaces, NarrowPlaces, AskPlaces, CheckPlaces, TypeOK, Kinds
<1>2. TypeOK' /\ Others(p)
  BY <1>1, NarrowListDoes
<1>3. Role(p)'
  BY <1>1, NarrowListDoes DEF Sound, Role, ClaimPlaces, NarrowPlaces, AskPlaces, CheckPlaces, Ended, local, TypeOK
<1>4. Asking(p)'
  BY <1>1, NarrowListDoes DEF Sound, Asking, Mine, ClaimPlaces, NarrowPlaces, AskPlaces, CheckPlaces, Ended, local, TypeOK
<1>5. \A b \in Account : Paired(seen'[p][b])
  BY <1>1, NarrowListDoes, PairedNew DEF Sound, local
<1>6. \A b \in Account : Paired(link'[b])
  BY <1>1, NarrowListDoes DEF Sound
<1>. QED BY <1>2, <1>3, <1>4, <1>5, <1>6, SoundOf

\* Narrow keeps what a process knows.
LEMMA NarrowSound ==
    ASSUME Sound, NEW p \in Proc, Narrow(p)
    PROVE  Sound'
<1>1. TypeOK /\ on[p] \in Account
  BY DEF Sound, Role, Narrow, At, ClaimPlaces, NarrowPlaces, AskPlaces, CheckPlaces, TypeOK, Kinds
<1>2. TypeOK' /\ Others(p)
  BY <1>1, NarrowDoes
<1>3. Role(p)'
  BY <1>1, NarrowDoes DEF Sound, Role, ClaimPlaces, NarrowPlaces, AskPlaces, CheckPlaces, Ended, local, TypeOK
<1>4. Asking(p)'
  BY <1>1, NarrowDoes DEF Sound, Asking, Mine, ClaimPlaces, NarrowPlaces, AskPlaces, CheckPlaces, Ended, local, TypeOK
<1>5. \A b \in Account : Paired(seen'[p][b])
  BY <1>1, NarrowDoes, PairedNew DEF Sound, local
<1>6. \A b \in Account : Paired(link'[b])
  <2>1. CASE UNCHANGED link
    BY <2>1 DEF Sound
  <2>2. CASE link' # link
    <3>1. PICK b \in todo[p] : Written(p, b, Narrowed(link[b], claim[p]))
      BY <1>1, <2>2, NarrowDoes
    <3>2. b \in Account /\ link[b] \in Link /\ Paired(link[b]) /\ claim[p] \in SUBSET Email
      BY DEF Sound, TypeOK
    <3>3. Paired(Narrowed(link[b], claim[p]))
      BY <3>2, PairedLinks
    <3>. QED BY <3>1, <3>2, <3>3, PairedWritten
  <2>. QED BY <2>1, <2>2
<1>. QED BY <1>2, <1>3, <1>4, <1>5, <1>6, SoundOf

\* Unmark keeps what a process knows.
LEMMA UnmarkSound ==
    ASSUME Sound, NEW p \in Proc, Unmark(p)
    PROVE  Sound'
<1>1. TypeOK /\ on[p] \in Account
  BY DEF Sound, Role, Unmark, At, ClaimPlaces, NarrowPlaces, AskPlaces, CheckPlaces, TypeOK, Kinds
<1>2. TypeOK' /\ Others(p)
  BY <1>1, UnmarkDoes
<1>3. Role(p)'
  BY <1>1, UnmarkDoes DEF Sound, Role, ClaimPlaces, NarrowPlaces, AskPlaces, CheckPlaces, Ended, local, TypeOK
<1>4. Asking(p)'
  BY <1>1, UnmarkDoes DEF Sound, Asking, Mine, ClaimPlaces, NarrowPlaces, AskPlaces, CheckPlaces, Ended, local, TypeOK
<1>5. \A b \in Account : Paired(seen'[p][b])
  BY <1>1, UnmarkDoes, PairedNew DEF Sound, local
<1>6. \A b \in Account : Paired(link'[b])
  BY <1>1, UnmarkDoes DEF Sound
<1>. QED BY <1>2, <1>3, <1>4, <1>5, <1>6, SoundOf

\* Markers keeps what a process knows.
LEMMA MarkersSound ==
    ASSUME Sound, NEW p \in Proc, Markers(p)
    PROVE  Sound'
<1>1. TypeOK
  BY DEF Sound, Role, Markers, At, ClaimPlaces, NarrowPlaces, AskPlaces, CheckPlaces, TypeOK, Kinds
<1>2. TypeOK' /\ Others(p)
  BY <1>1, MarkersDoes
<1>3. Role(p)'
  BY <1>1, MarkersDoes DEF Sound, Role, ClaimPlaces, NarrowPlaces, AskPlaces, CheckPlaces, Ended, local, TypeOK
<1>4. Asking(p)'
  BY <1>1, MarkersDoes DEF Sound, Asking, Mine, ClaimPlaces, NarrowPlaces, AskPlaces, CheckPlaces, Ended, local, TypeOK
<1>5. \A b \in Account : Paired(seen'[p][b])
  BY <1>1, MarkersDoes, PairedNew DEF Sound, local
<1>6. \A b \in Account : Paired(link'[b])
  BY <1>1, MarkersDoes DEF Sound
<1>. QED BY <1>2, <1>3, <1>4, <1>5, <1>6, SoundOf

\* FinishClaims keeps what a process knows.
LEMMA FinishClaimsSound ==
    ASSUME Sound, NEW p \in Proc, FinishClaims(p)
    PROVE  Sound'
<1>1. TypeOK
  BY DEF Sound, Role, FinishClaims, At, ClaimPlaces, NarrowPlaces, AskPlaces, CheckPlaces, TypeOK, Kinds
<1>2. TypeOK' /\ Others(p)
  BY <1>1, FinishClaimsDoes
<1>3. Role(p)'
  <2>1. /\ pc[p] = "finish" /\ kind'[p] = kind[p] /\ pc'[p] \in {"list", "others", "unmark"}
        /\ pc'[p] # "list" => on'[p] \in Account
    BY <1>1, FinishClaimsDoes DEF TypeOK
  <2>. QED BY <2>1 DEF Sound, Role, ClaimPlaces, AskPlaces, CheckPlaces
<1>4. Asking(p)'
  BY <1>1, FinishClaimsDoes DEF Sound, Asking, Mine, ClaimPlaces, NarrowPlaces, AskPlaces, CheckPlaces, Ended, local, TypeOK
<1>5. \A b \in Account : Paired(seen'[p][b])
  BY <1>1, FinishClaimsDoes, PairedNew DEF Sound, local
<1>6. \A b \in Account : Paired(link'[b])
  BY <1>1, FinishClaimsDoes DEF Sound
<1>. QED BY <1>2, <1>3, <1>4, <1>5, <1>6, SoundOf

\* List keeps what a process knows.
LEMMA ListSound ==
    ASSUME Sound, NEW p \in Proc, List(p)
    PROVE  Sound'
<1>1. TypeOK /\ kind[p] \in {"check", "adopt", "disconnect"}
  BY DEF Sound, Role, List, At, ClaimPlaces, NarrowPlaces, AskPlaces, CheckPlaces, TypeOK, Kinds
<1>2. TypeOK' /\ Others(p)
  BY <1>1, ListDoes
<1>3. Role(p)'
  BY <1>1, ListDoes DEF Sound, Role, ClaimPlaces, NarrowPlaces, AskPlaces, CheckPlaces, Ended, local, TypeOK
<1>4. Asking(p)'
  BY <1>1, ListDoes DEF Sound, Asking, Mine, ClaimPlaces, NarrowPlaces, AskPlaces, CheckPlaces, Ended, local, TypeOK
<1>5. \A b \in Account : Paired(seen'[p][b])
  BY <1>1, ListDoes, PairedNew DEF Sound, local
<1>6. \A b \in Account : Paired(link'[b])
  BY <1>1, ListDoes DEF Sound
<1>. QED BY <1>2, <1>3, <1>4, <1>5, <1>6, SoundOf

\* Start keeps what a process knows.
LEMMA StartSound ==
    ASSUME Sound, NEW p \in Proc, NEW operation \in {"check", "adopt", "disconnect"}, Start(p, operation)
    PROVE  Sound'
<1>1. TypeOK
  BY DEF Sound, Role, Start, At, ClaimPlaces, NarrowPlaces, AskPlaces, CheckPlaces, TypeOK, Kinds
<1>2. TypeOK' /\ Others(p)
  BY <1>1, StartDoes
<1>3. Role(p)'
  BY <1>1, StartDoes DEF Sound, Role, ClaimPlaces, NarrowPlaces, AskPlaces, CheckPlaces, Ended, local, TypeOK
<1>4. Asking(p)'
  BY <1>1, StartDoes DEF Sound, Asking, Mine, ClaimPlaces, NarrowPlaces, AskPlaces, CheckPlaces, Ended, local, TypeOK
<1>5. \A b \in Account : Paired(seen'[p][b])
  BY <1>1, StartDoes, PairedNew DEF Sound, local
<1>6. \A b \in Account : Paired(link'[b])
  BY <1>1, StartDoes DEF Sound
<1>. QED BY <1>2, <1>3, <1>4, <1>5, <1>6, SoundOf

\* LinkCredential keeps what a process knows.
LEMMA LinkCredentialSound ==
    ASSUME Sound, NEW p \in Proc, LinkCredential(p)
    PROVE  Sound'
<1>1. TypeOK
  BY DEF Sound, Role, LinkCredential, At, ClaimPlaces, NarrowPlaces, AskPlaces, CheckPlaces, TypeOK, Kinds
<1>2. TypeOK' /\ Others(p)
  BY <1>1, LinkCredentialDoes
<1>3. Role(p)'
  BY <1>1, LinkCredentialDoes DEF Sound, Role, ClaimPlaces, NarrowPlaces, AskPlaces, CheckPlaces, Ended, local, TypeOK
<1>4. Asking(p)'
  BY <1>1, LinkCredentialDoes DEF Sound, Asking, Mine, ClaimPlaces, NarrowPlaces, AskPlaces, CheckPlaces, Ended, local, TypeOK
<1>5. \A b \in Account : Paired(seen'[p][b])
  BY <1>1, LinkCredentialDoes, PairedNew DEF Sound, local
<1>6. \A b \in Account : Paired(link'[b])
  BY <1>1, LinkCredentialDoes DEF Sound
<1>. QED BY <1>2, <1>3, <1>4, <1>5, <1>6, SoundOf

\* CheckNext keeps what a process knows.
LEMMA CheckNextSound ==
    ASSUME Sound, NEW p \in Proc, CheckNext(p)
    PROVE  Sound'
<1>1. TypeOK
  BY DEF Sound, Role, CheckNext, At, ClaimPlaces, NarrowPlaces, AskPlaces, CheckPlaces, TypeOK, Kinds
<1>2. TypeOK' /\ Others(p)
  BY <1>1, CheckNextDoes
<1>3. Role(p)'
  BY <1>1, CheckNextDoes DEF Sound, Role, ClaimPlaces, NarrowPlaces, AskPlaces, CheckPlaces, Ended, local, TypeOK
<1>4. Asking(p)'
  BY <1>1, CheckNextDoes DEF Sound, Asking, Mine, ClaimPlaces, NarrowPlaces, AskPlaces, CheckPlaces, Ended, local, TypeOK
<1>5. \A b \in Account : Paired(seen'[p][b])
  BY <1>1, CheckNextDoes, PairedNew DEF Sound, local
<1>6. \A b \in Account : Paired(link'[b])
  BY <1>1, CheckNextDoes DEF Sound
<1>. QED BY <1>2, <1>3, <1>4, <1>5, <1>6, SoundOf

\* CheckApp keeps what a process knows.
LEMMA CheckAppSound ==
    ASSUME Sound, NEW p \in Proc, CheckApp(p)
    PROVE  Sound'
<1>1. TypeOK /\ on[p] \in Account
  BY DEF Sound, Role, CheckApp, At, ClaimPlaces, NarrowPlaces, AskPlaces, CheckPlaces, TypeOK, Kinds
<1>2. TypeOK' /\ Others(p)
  BY <1>1, CheckAppDoes
<1>3. Role(p)'
  BY <1>1, CheckAppDoes DEF Sound, Role, ClaimPlaces, NarrowPlaces, AskPlaces, CheckPlaces, Ended, local, TypeOK
<1>4. Asking(p)'
  <2>1. pc[p] \in AskPlaces /\ Asking(p) /\ todo[p] \subseteq Account
    BY <1>1, CheckAppDoes DEF Sound, AskPlaces, TypeOK
  <2>2. todo'[p] = todo[p] /\ on'[p] = on[p] /\ pc'[p] \in AskPlaces \cup {"next"}
    BY <1>1, CheckAppDoes DEF AskPlaces, local
  <2>3. \A b \in Account \ {on[p]} : seen'[p][b] = seen[p][b]
    BY <1>1, CheckAppDoes DEF Saw, local
  <2>4. pc'[p] \in {"checkapp", "probe", "due", "claimrefresh"} =>
             seen'[p][on[p]].state = "linked" /\ seen'[p][on[p]].self
    BY <1>1, <2>1, CheckAppDoes, LinkFields, UnverifiableFields DEF Asking, Mine, Saw, local, TypeOK
  <2>. QED BY <2>1, <2>2, <2>3, <2>4, AskOn
<1>5. \A b \in Account : Paired(seen'[p][b])
  <2>1. Mine(p) \in Link /\ Paired(Mine(p)) /\ Mine(p).pair \in Pair \cup {None}
    BY <1>1, LinkFields DEF Sound, Mine, TypeOK
  <2>2. Saw(p, on[p], Unverifiable(Mine(p))) \/ UNCHANGED seen
    BY <1>1, CheckAppDoes
  <2>3. Paired(Unverifiable(Mine(p)))
    BY <2>1, PairedLinks
  <2>. QED BY <1>1, <2>2, <2>3, PairedSaw DEF Sound
<1>6. \A b \in Account : Paired(link'[b])
  BY <1>1, CheckAppDoes DEF Sound
<1>. QED BY <1>2, <1>3, <1>4, <1>5, <1>6, SoundOf

\* Probe keeps what a process knows.
LEMMA ProbeSound ==
    ASSUME Sound, NEW p \in Proc, Probe(p)
    PROVE  Sound'
<1>1. TypeOK /\ on[p] \in Account
  BY DEF Sound, Role, Probe, At, ClaimPlaces, NarrowPlaces, AskPlaces, CheckPlaces, TypeOK, Kinds
<1>2. TypeOK' /\ Others(p)
  BY <1>1, ProbeDoes
<1>3. Role(p)'
  BY <1>1, ProbeDoes DEF Sound, Role, ClaimPlaces, NarrowPlaces, AskPlaces, CheckPlaces, Ended, local, TypeOK
<1>4. Asking(p)'
  <2>1. pc[p] \in AskPlaces /\ Asking(p) /\ todo[p] \subseteq Account
    BY <1>1, ProbeDoes DEF Sound, AskPlaces, TypeOK
  <2>2. todo'[p] = todo[p] /\ on'[p] = on[p] /\ pc'[p] \in AskPlaces \cup {"next"}
    BY <1>1, ProbeDoes DEF AskPlaces, local
  <2>3. \A b \in Account \ {on[p]} : seen'[p][b] = seen[p][b]
    BY <1>1, ProbeDoes DEF Saw, local
  <2>4. pc'[p] \in {"checkapp", "probe", "due", "claimrefresh"} =>
             seen'[p][on[p]].state = "linked" /\ seen'[p][on[p]].self
    <3>1. Mine(p) \in Link /\ Mine(p).state = "linked" /\ Mine(p).self
      BY <1>1, <2>1 DEF Probe, At, Asking, Mine, TypeOK
    <3>. DEFINE k == [Mine(p) EXCEPT !.refreshing = FALSE]
    <3>2. k.state = "linked" /\ k.self
      BY <3>1, RefreshingFields
    <3>. QED BY <1>1, <3>2, ProbeDoes DEF Saw
  <2>. QED BY <2>1, <2>2, <2>3, <2>4, AskOn
<1>5. \A b \in Account : Paired(seen'[p][b])
  <2>1. Mine(p) \in Link /\ Paired(Mine(p)) /\ Mine(p).pair \in Pair \cup {None}
    BY <1>1, LinkFields DEF Sound, Mine, TypeOK
  <2>. DEFINE k == [Mine(p) EXCEPT !.refreshing = FALSE]
  <2>2. Saw(p, on[p], Unverifiable(Mine(p))) \/ Saw(p, on[p], k)
    BY <1>1, ProbeDoes
  <2>3. Paired(Unverifiable(Mine(p))) /\ Paired(k)
    BY <2>1, PairedLinks
  <2>. QED BY <1>1, <2>2, <2>3, PairedSaw
<1>6. \A b \in Account : Paired(link'[b])
  BY <1>1, ProbeDoes DEF Sound
<1>. QED BY <1>2, <1>3, <1>4, <1>5, <1>6, SoundOf

\* RefreshDue keeps what a process knows.
LEMMA RefreshDueSound ==
    ASSUME Sound, NEW p \in Proc, RefreshDue(p)
    PROVE  Sound'
<1>1. TypeOK /\ on[p] \in Account
  BY DEF Sound, Role, RefreshDue, At, ClaimPlaces, NarrowPlaces, AskPlaces, CheckPlaces, TypeOK, Kinds
<1>2. TypeOK' /\ Others(p)
  BY <1>1, RefreshDueDoes
<1>3. Role(p)'
  BY <1>1, RefreshDueDoes DEF Sound, Role, ClaimPlaces, NarrowPlaces, AskPlaces, CheckPlaces, Ended, local, TypeOK
<1>4. Asking(p)'
  <2>1. pc[p] \in AskPlaces /\ Asking(p) /\ todo[p] \subseteq Account
    BY <1>1, RefreshDueDoes DEF Sound, AskPlaces, TypeOK
  <2>2. todo'[p] = todo[p] /\ on'[p] = on[p] /\ pc'[p] \in AskPlaces \cup {"next"}
    BY <1>1, RefreshDueDoes DEF AskPlaces, local
  <2>3. \A b \in Account \ {on[p]} : seen'[p][b] = seen[p][b]
    BY <1>1, RefreshDueDoes DEF Saw, local
  <2>4. pc'[p] \in {"checkapp", "probe", "due", "claimrefresh"} =>
             seen'[p][on[p]].state = "linked" /\ seen'[p][on[p]].self
    BY <1>1, <2>1, RefreshDueDoes, LinkFields DEF Asking, Mine, Saw, local, TypeOK
  <2>. QED BY <2>1, <2>2, <2>3, <2>4, AskOn
<1>5. \A b \in Account : Paired(seen'[p][b])
  BY <1>1, RefreshDueDoes, PairedNew DEF Sound, local
<1>6. \A b \in Account : Paired(link'[b])
  BY <1>1, RefreshDueDoes DEF Sound
<1>. QED BY <1>2, <1>3, <1>4, <1>5, <1>6, SoundOf

\* ClaimRefresh keeps what a process knows.
LEMMA ClaimRefreshSound ==
    ASSUME Sound, NEW p \in Proc, ClaimRefresh(p)
    PROVE  Sound'
<1>1. TypeOK /\ on[p] \in Account
  BY DEF Sound, Role, ClaimRefresh, At, ClaimPlaces, NarrowPlaces, AskPlaces, CheckPlaces, TypeOK, Kinds
<1>2. TypeOK' /\ Others(p)
  BY <1>1, ClaimRefreshDoes
<1>3. Role(p)'
  BY <1>1, ClaimRefreshDoes DEF Sound, Role, ClaimPlaces, NarrowPlaces, AskPlaces, CheckPlaces, Ended, local, TypeOK
<1>4. Asking(p)'
  <2>1. pc[p] \in AskPlaces /\ Asking(p) /\ todo[p] \subseteq Account
    BY <1>1, ClaimRefreshDoes DEF Sound, AskPlaces, TypeOK
  <2>2. todo'[p] = todo[p] /\ on'[p] = on[p] /\ pc'[p] \in AskPlaces \cup {"next"}
    BY <1>1, ClaimRefreshDoes DEF AskPlaces, local
  <2>3. \A b \in Account \ {on[p]} : seen'[p][b] = seen[p][b]
    BY <1>1, ClaimRefreshDoes DEF Saw, local
  <2>4. pc'[p] \in {"checkapp", "probe", "due", "claimrefresh"} =>
             seen'[p][on[p]].state = "linked" /\ seen'[p][on[p]].self
    BY <1>1, <2>1, ClaimRefreshDoes, LinkFields, RefreshingFields DEF Asking, Mine, Saw, local, TypeOK
  <2>. QED BY <2>1, <2>2, <2>3, <2>4, AskOn
<1>5. \A b \in Account : Paired(seen'[p][b])
  <2>. DEFINE k == [Mine(p) EXCEPT !.refreshing = TRUE]
  <2>1. Saw(p, on[p], k) \/ UNCHANGED seen
    BY <1>1, ClaimRefreshDoes
  <2>2. Paired(k)
    <3>1. Mine(p) \in Link /\ Paired(Mine(p)) /\ Mine(p).state = "linked" /\ Mine(p).self
      BY <1>1, ClaimRefreshDoes DEF Sound, Asking, Mine, TypeOK
    <3>. QED BY <3>1, PairedLinks
  <2>. QED BY <1>1, <2>1, <2>2, PairedSaw DEF Sound
<1>6. \A b \in Account : Paired(link'[b])
  <2>. DEFINE k == [Mine(p) EXCEPT !.refreshing = TRUE]
  <2>1. Written(p, on[p], k) \/ UNCHANGED link
    BY <1>1, ClaimRefreshDoes
  <2>2. Paired(k)
    <3>1. Mine(p) \in Link /\ Paired(Mine(p)) /\ Mine(p).state = "linked" /\ Mine(p).self
      BY <1>1, ClaimRefreshDoes DEF Sound, Asking, Mine, TypeOK
    <3>. QED BY <3>1, PairedLinks
  <2>. QED BY <1>1, <2>1, <2>2, PairedWritten DEF Sound
<1>. QED BY <1>2, <1>3, <1>4, <1>5, <1>6, SoundOf

\* RefreshedElsewhere keeps what a process knows.
LEMMA RefreshedElsewhereSound ==
    ASSUME Sound, NEW p \in Proc, RefreshedElsewhere(p)
    PROVE  Sound'
<1>1. TypeOK /\ on[p] \in Account
  BY DEF Sound, Role, RefreshedElsewhere, At, ClaimPlaces, NarrowPlaces, AskPlaces, CheckPlaces, TypeOK, Kinds
<1>2. TypeOK' /\ Others(p)
  BY <1>1, RefreshedElsewhereDoes
<1>3. Role(p)'
  BY <1>1, RefreshedElsewhereDoes DEF Sound, Role, ClaimPlaces, NarrowPlaces, AskPlaces, CheckPlaces, Ended, local, TypeOK
<1>4. Asking(p)'
  <2>1. pc[p] \in AskPlaces /\ Asking(p) /\ todo[p] \subseteq Account
    BY <1>1, RefreshedElsewhereDoes DEF Sound, AskPlaces, TypeOK
  <2>2. todo'[p] = todo[p] /\ on'[p] = on[p] /\ pc'[p] \in AskPlaces \cup {"next"}
    BY <1>1, RefreshedElsewhereDoes DEF AskPlaces, local
  <2>3. \A b \in Account \ {on[p]} : seen'[p][b] = seen[p][b]
    BY <1>1, RefreshedElsewhereDoes DEF Saw, local
  <2>4. pc'[p] \in {"checkapp", "probe", "due", "claimrefresh"} =>
             seen'[p][on[p]].state = "linked" /\ seen'[p][on[p]].self
    BY <1>1, <2>1, RefreshedElsewhereDoes, LinkFields DEF Asking, Mine, Saw, local, TypeOK
  <2>. QED BY <2>1, <2>2, <2>3, <2>4, AskOn
<1>5. \A b \in Account : Paired(seen'[p][b])
  BY <1>1, RefreshedElsewhereDoes, MintNew, PairedSaw, PairedLinks, PairedNew, LinkFields DEF Sound, Mine, TypeOK, Asking
<1>6. \A b \in Account : Paired(link'[b])
  BY <1>1, RefreshedElsewhereDoes DEF Sound
<1>. QED BY <1>2, <1>3, <1>4, <1>5, <1>6, SoundOf

\* RefreshUserTokens keeps what a process knows.
LEMMA RefreshUserTokensSound ==
    ASSUME Sound, NEW p \in Proc, RefreshUserTokens(p)
    PROVE  Sound'
<1>1. TypeOK /\ on[p] \in Account
  BY DEF Sound, Role, RefreshUserTokens, At, ClaimPlaces, NarrowPlaces, AskPlaces, CheckPlaces, TypeOK, Kinds
<1>2. TypeOK' /\ Others(p)
  BY <1>1, RefreshUserTokensDoes
<1>3. Role(p)'
  BY <1>1, RefreshUserTokensDoes DEF Sound, Role, ClaimPlaces, NarrowPlaces, AskPlaces, CheckPlaces, Ended, local, TypeOK
<1>4. Asking(p)'
  <2>1. pc[p] \in AskPlaces /\ Asking(p) /\ todo[p] \subseteq Account
    BY <1>1, RefreshUserTokensDoes DEF Sound, AskPlaces, TypeOK
  <2>2. todo'[p] = todo[p] /\ on'[p] = on[p] /\ pc'[p] \in AskPlaces \cup {"next"}
    BY <1>1, RefreshUserTokensDoes DEF AskPlaces, local
  <2>3. \A b \in Account \ {on[p]} : seen'[p][b] = seen[p][b]
    BY <1>1, RefreshUserTokensDoes DEF Saw, local
  <2>4. pc'[p] \in {"checkapp", "probe", "due", "claimrefresh"} =>
             seen'[p][on[p]].state = "linked" /\ seen'[p][on[p]].self
    BY <1>1, <2>1, RefreshUserTokensDoes, LinkFields, PairFields, MintNew DEF Asking, Mine, Saw, local, TypeOK
  <2>. QED BY <2>1, <2>2, <2>3, <2>4, AskOn
<1>5. \A b \in Account : Paired(seen'[p][b])
  <2>1. Mine(p) \in Link /\ Paired(Mine(p)) /\ Mine(p).pair \in Pair \cup {None}
    BY <1>1, LinkFields DEF Sound, Mine, TypeOK
  <2>. DEFINE k == [Mine(p) EXCEPT !.pair = Mint(on[p]), !.refreshing = FALSE]
  <2>2. (Names(on[p]) /\ Saw(p, on[p], k)) \/ UNCHANGED seen
    BY <1>1, RefreshUserTokensDoes
  <2>3. Names(on[p]) => Paired(k)
    BY <1>1, <2>1, MintNew, PairedLinks
  <2>. QED BY <1>1, <2>2, <2>3, PairedSaw DEF Sound
<1>6. \A b \in Account : Paired(link'[b])
  BY <1>1, RefreshUserTokensDoes DEF Sound
<1>. QED BY <1>2, <1>3, <1>4, <1>5, <1>6, SoundOf

\* RefreshRefused keeps what a process knows.
LEMMA RefreshRefusedSound ==
    ASSUME Sound, NEW p \in Proc, RefreshRefused(p)
    PROVE  Sound'
<1>1. TypeOK /\ on[p] \in Account
  BY DEF Sound, Role, RefreshRefused, At, ClaimPlaces, NarrowPlaces, AskPlaces, CheckPlaces, TypeOK, Kinds
<1>2. TypeOK' /\ Others(p)
  BY <1>1, RefreshRefusedDoes
<1>3. Role(p)'
  BY <1>1, RefreshRefusedDoes DEF Sound, Role, ClaimPlaces, NarrowPlaces, AskPlaces, CheckPlaces, Ended, local, TypeOK
<1>4. Asking(p)'
  <2>1. pc[p] \in AskPlaces /\ Asking(p) /\ todo[p] \subseteq Account
    BY <1>1, RefreshRefusedDoes DEF Sound, AskPlaces, TypeOK
  <2>2. todo'[p] = todo[p] /\ on'[p] = on[p] /\ pc'[p] \in AskPlaces \cup {"next"}
    BY <1>1, RefreshRefusedDoes DEF AskPlaces, local
  <2>3. \A b \in Account \ {on[p]} : seen'[p][b] = seen[p][b]
    BY <1>1, RefreshRefusedDoes DEF Saw, local
  <2>4. pc'[p] \in {"checkapp", "probe", "due", "claimrefresh"} =>
             seen'[p][on[p]].state = "linked" /\ seen'[p][on[p]].self
    BY <1>1, <2>1, RefreshRefusedDoes, LinkFields, UnverifiableFields, LoseFields DEF Asking, Mine, Saw, local, TypeOK
  <2>. QED BY <2>1, <2>2, <2>3, <2>4, AskOn
<1>5. \A b \in Account : Paired(seen'[p][b])
  <2>1. Mine(p) \in Link /\ Paired(Mine(p)) /\ Mine(p).pair \in Pair \cup {None}
    BY <1>1, LinkFields DEF Sound, Mine, TypeOK
  <2>2. Saw(p, on[p], Unverifiable(Mine(p))) \/ Saw(p, on[p], Lose(Mine(p), Mine(p).pair))
    BY <1>1, RefreshRefusedDoes
  <2>3. Paired(Unverifiable(Mine(p))) /\ Paired(Lose(Mine(p), Mine(p).pair))
    BY <2>1, PairedLinks
  <2>. QED BY <1>1, <2>2, <2>3, PairedSaw
<1>6. \A b \in Account : Paired(link'[b])
  BY <1>1, RefreshRefusedDoes DEF Sound
<1>. QED BY <1>2, <1>3, <1>4, <1>5, <1>6, SoundOf

\* KeepPair keeps what a process knows.
LEMMA KeepPairSound ==
    ASSUME Sound, NEW p \in Proc, KeepPair(p)
    PROVE  Sound'
<1>1. TypeOK /\ on[p] \in Account
  BY DEF Sound, Role, KeepPair, At, ClaimPlaces, NarrowPlaces, AskPlaces, CheckPlaces, TypeOK, Kinds
<1>2. TypeOK' /\ Others(p)
  BY <1>1, KeepPairDoes
<1>3. Role(p)'
  BY <1>1, KeepPairDoes DEF Sound, Role, ClaimPlaces, NarrowPlaces, AskPlaces, CheckPlaces, Ended, local, TypeOK
<1>4. Asking(p)'
  <2>1. pc[p] \in AskPlaces /\ Asking(p) /\ todo[p] \subseteq Account
    BY <1>1, KeepPairDoes DEF Sound, AskPlaces, TypeOK
  <2>2. todo'[p] = todo[p] /\ on'[p] = on[p] /\ pc'[p] \in AskPlaces \cup {"next"}
    BY <1>1, KeepPairDoes DEF AskPlaces, local
  <2>3. \A b \in Account \ {on[p]} : seen'[p][b] = seen[p][b]
    BY <1>1, KeepPairDoes DEF Saw, local
  <2>4. pc'[p] \in {"checkapp", "probe", "due", "claimrefresh"} =>
             seen'[p][on[p]].state = "linked" /\ seen'[p][on[p]].self
    BY <1>1, <2>1, KeepPairDoes, LinkFields DEF Asking, Mine, Saw, local, TypeOK
  <2>. QED BY <2>1, <2>2, <2>3, <2>4, AskOn
<1>5. \A b \in Account : Paired(seen'[p][b])
  BY <1>1, KeepPairDoes, PairedNew DEF Sound, local
<1>6. \A b \in Account : Paired(link'[b])
  BY <1>1, KeepPairDoes, PairedWritten, PairedLinks, PairedNew DEF Sound, Mine, TypeOK, Asking
<1>. QED BY <1>2, <1>3, <1>4, <1>5, <1>6, SoundOf

\* CheckUser keeps what a process knows.
LEMMA CheckUserSound ==
    ASSUME Sound, NEW p \in Proc, CheckUser(p)
    PROVE  Sound'
<1>1. TypeOK /\ on[p] \in Account
  BY DEF Sound, Role, CheckUser, At, ClaimPlaces, NarrowPlaces, AskPlaces, CheckPlaces, TypeOK, Kinds
<1>2. TypeOK' /\ Others(p)
  BY <1>1, CheckUserDoes
<1>3. Role(p)'
  BY <1>1, CheckUserDoes DEF Sound, Role, ClaimPlaces, NarrowPlaces, AskPlaces, CheckPlaces, Ended, local, TypeOK
<1>4. Asking(p)'
  <2>1. pc[p] \in AskPlaces /\ Asking(p) /\ todo[p] \subseteq Account
    BY <1>1, CheckUserDoes DEF Sound, AskPlaces, TypeOK
  <2>2. todo'[p] = todo[p] /\ on'[p] = on[p] /\ pc'[p] \in AskPlaces \cup {"next"}
    BY <1>1, CheckUserDoes DEF AskPlaces, local
  <2>3. \A b \in Account \ {on[p]} : seen'[p][b] = seen[p][b]
    BY <1>1, CheckUserDoes DEF Saw, local
  <2>4. pc'[p] \in {"checkapp", "probe", "due", "claimrefresh"} =>
             seen'[p][on[p]].state = "linked" /\ seen'[p][on[p]].self
    BY <1>1, <2>1, CheckUserDoes, LinkFields, LoseFields, EmailsFields DEF Asking, Mine, Saw, local, TypeOK
  <2>. QED BY <2>1, <2>2, <2>3, <2>4, AskOn
<1>5. \A b \in Account : Paired(seen'[p][b])
  <2>1. Mine(p) \in Link /\ Paired(Mine(p)) /\ Mine(p).pair \in Pair \cup {None}
    BY <1>1, LinkFields DEF Sound, Mine, TypeOK
  <2>. DEFINE kept == Mine(p).emails \cap verified[on[p]]
             k == [Mine(p) EXCEPT !.emails = kept]
  <2>2. \/ Saw(p, on[p], Lose(Mine(p), Mine(p).pair)) \/ Saw(p, on[p], Lose(Mine(p), None))
        \/ Saw(p, on[p], k)
    BY <1>1, CheckUserDoes
  <2>3. kept \in SUBSET Email
    BY <2>1, LinkFields
  <2>4. Paired(Lose(Mine(p), None)) /\ Paired(Lose(Mine(p), Mine(p).pair)) /\ Paired(k)
    BY <2>1, <2>3, PairedLinks
  <2>. QED BY <1>1, <2>2, <2>4, PairedSaw
<1>6. \A b \in Account : Paired(link'[b])
  BY <1>1, CheckUserDoes DEF Sound
<1>. QED BY <1>2, <1>3, <1>4, <1>5, <1>6, SoundOf

\* CheckFails keeps what a process knows.
LEMMA CheckFailsSound ==
    ASSUME Sound, NEW p \in Proc, CheckFails(p)
    PROVE  Sound'
<1>1. TypeOK
  BY DEF Sound, Role, CheckFails, At, ClaimPlaces, NarrowPlaces, AskPlaces, CheckPlaces, TypeOK, Kinds
<1>2. TypeOK' /\ Others(p)
  BY <1>1, CheckFailsDoes
<1>3. Role(p)'
  BY <1>1, CheckFailsDoes DEF Sound, Role, ClaimPlaces, NarrowPlaces, AskPlaces, CheckPlaces, Ended, local, TypeOK
<1>4. Asking(p)'
  <2>1. pc[p] \in AskPlaces /\ Asking(p) /\ todo[p] \subseteq Account
    BY <1>1, CheckFailsDoes DEF Sound, AskPlaces, TypeOK
  <2>2. todo'[p] = todo[p] /\ on'[p] = on[p] /\ pc'[p] \in AskPlaces \cup {"next"}
    BY <1>1, CheckFailsDoes DEF AskPlaces, local
  <2>3. \A b \in Account \ {on[p]} : seen'[p][b] = seen[p][b]
    BY <1>1, CheckFailsDoes DEF Saw, local
  <2>4. pc'[p] \in {"checkapp", "probe", "due", "claimrefresh"} =>
             seen'[p][on[p]].state = "linked" /\ seen'[p][on[p]].self
    BY <1>1, <2>1, CheckFailsDoes, LinkFields DEF Asking, Mine, Saw, local, TypeOK
  <2>. QED BY <2>1, <2>2, <2>3, <2>4, AskOn
<1>5. \A b \in Account : Paired(seen'[p][b])
  BY <1>1, CheckFailsDoes, PairedNew DEF Sound, local
<1>6. \A b \in Account : Paired(link'[b])
  BY <1>1, CheckFailsDoes DEF Sound
<1>. QED BY <1>2, <1>3, <1>4, <1>5, <1>6, SoundOf

\* UpdateChanged keeps what a process knows.
LEMMA UpdateChangedSound ==
    ASSUME Sound, NEW p \in Proc, UpdateChanged(p)
    PROVE  Sound'
<1>1. TypeOK
  BY DEF Sound, Role, UpdateChanged, At, ClaimPlaces, NarrowPlaces, AskPlaces, CheckPlaces, TypeOK, Kinds
<1>2. TypeOK' /\ Others(p)
  BY <1>1, UpdateChangedDoes
<1>3. Role(p)'
  BY <1>1, UpdateChangedDoes DEF Sound, Role, ClaimPlaces, NarrowPlaces, AskPlaces, CheckPlaces, Ended, local, TypeOK
<1>4. Asking(p)'
  BY <1>1, UpdateChangedDoes DEF Sound, Asking, Mine, ClaimPlaces, NarrowPlaces, AskPlaces, CheckPlaces, Ended, local, TypeOK
<1>5. \A b \in Account : Paired(seen'[p][b])
  BY <1>1, UpdateChangedDoes, PairedNew DEF Sound, local
<1>6. \A b \in Account : Paired(link'[b])
  <2>1. CASE UNCHANGED link
    BY <2>1 DEF Sound
  <2>2. CASE link' # link
    <3>1. PICK b \in changed[p] : Written(p, b, seen[p][b])
      BY <1>1, <2>2, UpdateChangedDoes
    <3>2. b \in Account /\ Paired(seen[p][b])
      BY DEF Sound, TypeOK
    <3>. QED BY <3>1, <3>2, PairedWritten
  <2>. QED BY <2>1, <2>2
<1>. QED BY <1>2, <1>3, <1>4, <1>5, <1>6, SoundOf

\* AdoptPick keeps what a process knows.
LEMMA AdoptPickSound ==
    ASSUME Sound, NEW p \in Proc, AdoptPick(p)
    PROVE  Sound'
<1>1. TypeOK
  BY DEF Sound, Role, AdoptPick, At, ClaimPlaces, NarrowPlaces, AskPlaces, CheckPlaces, TypeOK, Kinds
<1>2. TypeOK' /\ Others(p)
  BY <1>1, AdoptPickDoes
<1>3. Role(p)'
  BY <1>1, AdoptPickDoes DEF Sound, Role, ClaimPlaces, NarrowPlaces, AskPlaces, CheckPlaces, Ended, local, TypeOK
<1>4. Asking(p)'
  BY <1>1, AdoptPickDoes DEF Sound, Asking, Mine, ClaimPlaces, NarrowPlaces, AskPlaces, CheckPlaces, Ended, local, TypeOK
<1>5. \A b \in Account : Paired(seen'[p][b])
  BY <1>1, AdoptPickDoes, PairedNew DEF Sound, local
<1>6. \A b \in Account : Paired(link'[b])
  BY <1>1, AdoptPickDoes DEF Sound
<1>. QED BY <1>2, <1>3, <1>4, <1>5, <1>6, SoundOf

\* AdoptWrite keeps what a process knows.
LEMMA AdoptWriteSound ==
    ASSUME Sound, NEW p \in Proc, AdoptWrite(p)
    PROVE  Sound'
<1>1. TypeOK /\ on[p] \in Account
  BY DEF Sound, Role, AdoptWrite, At, ClaimPlaces, NarrowPlaces, AskPlaces, CheckPlaces, TypeOK, Kinds
<1>2. TypeOK' /\ Others(p)
  BY <1>1, AdoptWriteDoes
<1>3. Role(p)'
  BY <1>1, AdoptWriteDoes DEF Sound, Role, ClaimPlaces, NarrowPlaces, AskPlaces, CheckPlaces, Ended, local, TypeOK
<1>4. Asking(p)'
  BY <1>1, AdoptWriteDoes DEF Sound, Asking, Mine, ClaimPlaces, NarrowPlaces, AskPlaces, CheckPlaces, Ended, local, TypeOK
<1>5. \A b \in Account : Paired(seen'[p][b])
  BY <1>1, AdoptWriteDoes, PairedNew DEF Sound, local
<1>6. \A b \in Account : Paired(link'[b])
  BY <1>1, AdoptWriteDoes, PairedWritten, PairedLinks, PairedNew DEF Sound, Mine, TypeOK, Asking
<1>. QED BY <1>2, <1>3, <1>4, <1>5, <1>6, SoundOf

\* Invalidate keeps what a process knows.
LEMMA InvalidateSound ==
    ASSUME Sound, NEW p \in Proc, Invalidate(p)
    PROVE  Sound'
<1>1. TypeOK
  BY DEF Sound, Role, Invalidate, At, ClaimPlaces, NarrowPlaces, AskPlaces, CheckPlaces, TypeOK, Kinds
<1>2. TypeOK' /\ Others(p)
  BY <1>1, InvalidateDoes
<1>3. Role(p)'
  BY <1>1, InvalidateDoes DEF Sound, Role, ClaimPlaces, NarrowPlaces, AskPlaces, CheckPlaces, Ended, local, TypeOK
<1>4. Asking(p)'
  BY <1>1, InvalidateDoes DEF Sound, Asking, Mine, ClaimPlaces, NarrowPlaces, AskPlaces, CheckPlaces, Ended, local, TypeOK
<1>5. \A b \in Account : Paired(seen'[p][b])
  BY <1>1, InvalidateDoes, PairedNew DEF Sound, local
<1>6. \A b \in Account : Paired(link'[b])
  BY <1>1, InvalidateDoes, PairedWritten, PairedLinks, PairedNew DEF Sound, Mine, TypeOK, Asking
<1>. QED BY <1>2, <1>3, <1>4, <1>5, <1>6, SoundOf

\* DeleteLinkApp keeps what a process knows.
LEMMA DeleteLinkAppSound ==
    ASSUME Sound, NEW p \in Proc, DeleteLinkApp(p)
    PROVE  Sound'
<1>1. TypeOK
  BY DEF Sound, Role, DeleteLinkApp, At, ClaimPlaces, NarrowPlaces, AskPlaces, CheckPlaces, TypeOK, Kinds
<1>2. TypeOK' /\ Others(p)
  BY <1>1, DeleteLinkAppDoes
<1>3. Role(p)'
  BY <1>1, DeleteLinkAppDoes DEF Sound, Role, ClaimPlaces, NarrowPlaces, AskPlaces, CheckPlaces, Ended, local, TypeOK
<1>4. Asking(p)'
  BY <1>1, DeleteLinkAppDoes DEF Sound, Asking, Mine, ClaimPlaces, NarrowPlaces, AskPlaces, CheckPlaces, Ended, local, TypeOK
<1>5. \A b \in Account : Paired(seen'[p][b])
  BY <1>1, DeleteLinkAppDoes, PairedNew DEF Sound, local
<1>6. \A b \in Account : Paired(link'[b])
  BY <1>1, DeleteLinkAppDoes DEF Sound
<1>. QED BY <1>2, <1>3, <1>4, <1>5, <1>6, SoundOf

\* Crash keeps what a process knows.
LEMMA CrashSound ==
    ASSUME Sound, NEW p \in Proc, Crash(p)
    PROVE  Sound'
<1>1. TypeOK
  BY DEF Sound, Role, Crash, At, ClaimPlaces, NarrowPlaces, AskPlaces, CheckPlaces, TypeOK, Kinds
<1>2. TypeOK' /\ Others(p)
  BY <1>1, CrashDoes
<1>3. Role(p)'
  BY <1>1, CrashDoes DEF Sound, Role, ClaimPlaces, NarrowPlaces, AskPlaces, CheckPlaces, Ended, local, TypeOK
<1>4. Asking(p)'
  BY <1>1, CrashDoes DEF Sound, Asking, Mine, ClaimPlaces, NarrowPlaces, AskPlaces, CheckPlaces, Ended, local, TypeOK
<1>5. \A b \in Account : Paired(seen'[p][b])
  BY <1>1, CrashDoes, PairedNew DEF Sound, local
<1>6. \A b \in Account : Paired(link'[b])
  BY <1>1, CrashDoes DEF Sound
<1>. QED BY <1>2, <1>3, <1>4, <1>5, <1>6, SoundOf

\* Every step keeps types and what a process knows at its place.
LEMMA SoundNext == ASSUME Sound, [Next]_vars PROVE Sound'
<1>1. CASE UNCHANGED vars
  BY <1>1 DEF Sound, Role, Asking, Mine, TypeOK, vars, world, local
<1>2. CASE \/ \E a \in Account : Revoke(a) \/ \E emails \in SUBSET Email : Verify(a, emails)
           \/ \E new \in App : PutLinkApp(new)
  BY <1>2, WorldDoes DEF Sound, Role, Asking, Mine, local
<1>3. ASSUME NEW p \in Proc, ClaimStep(p) PROVE Sound'
  BY <1>3, LinkCallbackSound, LinkableAddressesSound, PutMarkerSound, ClaimWriteSound, NarrowListSound, NarrowSound, UnmarkSound DEF ClaimStep
<1>4. ASSUME NEW p \in Proc, ListStep(p) PROVE Sound'
  BY <1>4, StartSound, MarkersSound, FinishClaimsSound, ListSound DEF ListStep
<1>5. ASSUME NEW p \in Proc, CheckStep(p) PROVE Sound'
  BY <1>5, LinkCredentialSound, CheckNextSound, CheckAppSound, ProbeSound, RefreshDueSound, ClaimRefreshSound, RefreshedElsewhereSound, RefreshUserTokensSound, RefreshRefusedSound, KeepPairSound, CheckUserSound, CheckFailsSound, UpdateChangedSound DEF CheckStep
<1>6. ASSUME NEW p \in Proc, AdoptPick(p) \/ AdoptWrite(p) \/ Invalidate(p) \/ DeleteLinkApp(p) \/ Crash(p)
      PROVE  Sound'
  BY <1>6, AdoptPickSound, AdoptWriteSound, InvalidateSound, DeleteLinkAppSound, CrashSound
<1>. QED BY <1>1, <1>2, <1>3, <1>4, <1>5, <1>6 DEF Next

\* Types, and places, of GitHubLinks always.
LEMMA SoundAlways == Spec => []Sound
<1>1. Init => Sound
  <2>1. ASSUME Init PROVE TypeOK
    <3>1. link \in [Account -> Link] /\ seen \in [Proc -> [Account -> Link]]
      BY <2>1, NewFields DEF Init
    <3>2. /\ pc \in [Proc -> Places] /\ kind \in [Proc -> Kinds] /\ events \in 0 .. MaxEvents
      BY <2>1, LinksAssumption DEF Init, Places, Kinds
    <3>. QED BY <2>1, <3>1, <3>2 DEF Init, TypeOK
  <2>2. ASSUME Init, NEW p \in Proc PROVE Role(p) /\ Asking(p)
    BY <2>2 DEF Init, Role, Asking, ClaimPlaces, AskPlaces, CheckPlaces
  <2>3. ASSUME Init, NEW a \in Account PROVE Paired(link[a]) /\ \A p \in Proc : Paired(seen[p][a])
    BY <2>3, PairedNew DEF Init
  <2>. QED BY <2>1, <2>2, <2>3 DEF Sound
<1>2. Sound /\ [Next]_vars => Sound'
  BY SoundNext
<1>. QED BY <1>1, <1>2, PTL DEF Spec

\* Type correctness: the links, the markers, GitHub's books and every process.
THEOREM TypeCorrect == Spec => []TypeOK
<1>1. Sound => TypeOK
  BY DEF Sound
<1>. QED BY <1>1, SoundAlways, PTL

\* A person's link, and one whose refresh is under way, has a token pair for the
\* check to ask with (checkLinks, refresh).
THEOREM PairedHolds == Spec => [](\A a \in Account : Paired(link[a]))
<1>1. Sound => \A a \in Account : Paired(link[a])
  BY DEF Sound
<1>. QED BY <1>1, SoundAlways, PTL

-----------------------------------------------------------------------------
(* What a check may write over.                                            *)

\* Less is an order, and what a check does to a link makes it less.
LEMMA LessLinks ==
    ASSUME NEW l \in Link
    PROVE  /\ Less(l, l) /\ Less(Unverifiable(l), l)
           /\ \A was \in Pair \cup {None} : Less(Lose(l, was), l)
           /\ \A r \in BOOLEAN : Less([l EXCEPT !.refreshing = r], l)
           /\ \A new \in Pair : Less([l EXCEPT !.pair = new, !.refreshing = FALSE], l)
           /\ \A emails \in SUBSET Email : emails \subseteq l.emails => Less([l EXCEPT !.emails = emails], l)
<1>1. Less(l, l) /\ Less(Unverifiable(l), l)
  BY UnverifiableFields DEF Less
<1>2. ASSUME NEW was \in Pair \cup {None} PROVE Less(Lose(l, was), l)
  BY LoseFields DEF Less
<1>3. ASSUME NEW r \in BOOLEAN PROVE Less([l EXCEPT !.refreshing = r], l)
  BY RefreshingFields DEF Less
<1>4. ASSUME NEW new \in Pair PROVE Less([l EXCEPT !.pair = new, !.refreshing = FALSE], l)
  BY PairFields DEF Less
<1>5. ASSUME NEW emails \in SUBSET Email, emails \subseteq l.emails PROVE Less([l EXCEPT !.emails = emails], l)
  BY <1>5, EmailsFields DEF Less
<1>. QED BY <1>1, <1>2, <1>3, <1>4, <1>5

\* What a step leaves to be shown: the links of the process that moved.  A write
\* takes the link out of everybody else's hand.
LEMMA ReadFrom ==
    ASSUME TypeOK, ReadInv, NEW p \in Proc, Others(p), ReadOf(p)',
           \/ UNCHANGED link /\ \A q \in Proc \ {p} : cur'[q] = cur[q]
           \/ \E a \in Account, l \in Link : Written(p, a, l)
    PROVE  ReadInv'
<1>1. ASSUME NEW q \in Proc \ {p} PROVE ReadOf(q)'
  <2>1. pc'[q] = pc[q] /\ seen'[q] = seen[q] /\ ReadOf(q) /\ cur[q] \subseteq Account
    BY DEF Others, ReadInv, TypeOK
  <2>2. CASE UNCHANGED link /\ cur'[q] = cur[q]
    BY <2>1, <2>2 DEF ReadOf
  <2>3. CASE \E a \in Account, l \in Link : Written(p, a, l)
    BY <2>1, <2>3 DEF ReadOf, Written
  <2>. QED BY <2>2, <2>3
<1>. QED BY <1>1 DEF ReadInv

\* A check that makes one of its links less has read no more than it had.
LEMMA ReadSaw ==
    ASSUME NEW p \in Proc, ReadOf(p), pc[p] \in CheckPlaces, cur[p] \subseteq Account,
           NEW a \in Account, NEW k, Saw(p, a, k), Less(k, seen[p][a]), UNCHANGED <<link, cur>>
    PROVE  ReadOf(p)'
BY DEF ReadOf, Saw, Less

\* A check that writes what it has.
LEMMA ReadWritten ==
    ASSUME NEW p \in Proc, ReadOf(p), pc[p] \in CheckPlaces, cur[p] \subseteq Account,
           NEW a \in Account, NEW k \in Link, Written(p, a, k), seen'[p][a] = k,
           \A b \in Account \ {a} : seen'[p][b] = seen[p][b]
    PROVE  ReadOf(p)'
BY DEF ReadOf, Written, Less


\* LinkCallback keeps what was read.
LEMMA LinkCallbackRead ==
    ASSUME Sound, ReadInv, NEW p \in Proc, NEW a \in Account, LinkCallback(p, a)
    PROVE  ReadInv'
<1>1. TypeOK /\ ReadInv
  BY DEF Sound, Role, LinkCallback, At, ClaimPlaces, NarrowPlaces, AskPlaces, CheckPlaces, TypeOK, Kinds
<1>2. Others(p) /\ UNCHANGED <<link, cur>> /\ pc'[p] \notin CheckPlaces
  BY <1>1, LinkCallbackDoes DEF ClaimPlaces, NarrowPlaces, AskPlaces, CheckPlaces, Ended
<1>. QED BY <1>1, <1>2, ReadFrom DEF ReadOf

\* LinkableAddresses keeps what was read.
LEMMA LinkableAddressesRead ==
    ASSUME Sound, ReadInv, NEW p \in Proc, LinkableAddresses(p)
    PROVE  ReadInv'
<1>1. TypeOK /\ ReadInv /\ on[p] \in Account
  BY DEF Sound, Role, LinkableAddresses, At, ClaimPlaces, NarrowPlaces, AskPlaces, CheckPlaces, TypeOK, Kinds
<1>2. Others(p) /\ UNCHANGED <<link, cur>> /\ pc'[p] \notin CheckPlaces
  BY <1>1, LinkableAddressesDoes DEF ClaimPlaces, NarrowPlaces, AskPlaces, CheckPlaces, Ended
<1>. QED BY <1>1, <1>2, ReadFrom DEF ReadOf

\* PutMarker keeps what was read.
LEMMA PutMarkerRead ==
    ASSUME Sound, ReadInv, NEW p \in Proc, PutMarker(p)
    PROVE  ReadInv'
<1>1. TypeOK /\ ReadInv /\ on[p] \in Account
  BY DEF Sound, Role, PutMarker, At, ClaimPlaces, NarrowPlaces, AskPlaces, CheckPlaces, TypeOK, Kinds
<1>2. Others(p) /\ UNCHANGED <<link, cur>> /\ pc'[p] \notin CheckPlaces
  BY <1>1, PutMarkerDoes DEF ClaimPlaces, NarrowPlaces, AskPlaces, CheckPlaces, Ended
<1>. QED BY <1>1, <1>2, ReadFrom DEF ReadOf

\* ClaimWrite keeps what was read.
LEMMA ClaimWriteRead ==
    ASSUME Sound, ReadInv, NEW p \in Proc, ClaimWrite(p)
    PROVE  ReadInv'
<1>1. TypeOK /\ ReadInv /\ on[p] \in Account
  BY DEF Sound, Role, ClaimWrite, At, ClaimPlaces, NarrowPlaces, AskPlaces, CheckPlaces, TypeOK, Kinds
<1>2. Others(p) /\ Written(p, on[p], Mine(p)) /\ pc'[p] \notin CheckPlaces /\ Mine(p) \in Link
  BY <1>1, ClaimWriteDoes DEF CheckPlaces, AskPlaces, Mine, TypeOK
<1>. QED BY <1>1, <1>2, ReadFrom DEF ReadOf

\* NarrowList keeps what was read.
LEMMA NarrowListRead ==
    ASSUME Sound, ReadInv, NEW p \in Proc, NarrowList(p)
    PROVE  ReadInv'
<1>1. TypeOK /\ ReadInv /\ on[p] \in Account
  BY DEF Sound, Role, NarrowList, At, ClaimPlaces, NarrowPlaces, AskPlaces, CheckPlaces, TypeOK, Kinds
<1>2. Others(p) /\ UNCHANGED <<link, cur>> /\ pc'[p] \notin CheckPlaces
  BY <1>1, NarrowListDoes DEF ClaimPlaces, NarrowPlaces, AskPlaces, CheckPlaces, Ended
<1>. QED BY <1>1, <1>2, ReadFrom DEF ReadOf

\* Narrow keeps what was read.
LEMMA NarrowRead ==
    ASSUME Sound, ReadInv, NEW p \in Proc, Narrow(p)
    PROVE  ReadInv'
<1>1. TypeOK /\ ReadInv /\ on[p] \in Account
  BY DEF Sound, Role, Narrow, At, ClaimPlaces, NarrowPlaces, AskPlaces, CheckPlaces, TypeOK, Kinds
<1>2. Others(p) /\ pc'[p] \notin CheckPlaces
  BY <1>1, NarrowDoes DEF CheckPlaces, AskPlaces
<1>3. \A b \in todo[p] : b \in Account /\ Narrowed(link[b], claim[p]) \in Link
  BY <1>1, NarrowedFields DEF TypeOK
<1>4. UNCHANGED <<link, cur>> \/ \E b \in todo[p] : Written(p, b, Narrowed(link[b], claim[p]))
  BY <1>1, NarrowDoes
<1>. QED BY <1>1, <1>2, <1>3, <1>4, ReadFrom DEF ReadOf

\* Unmark keeps what was read.
LEMMA UnmarkRead ==
    ASSUME Sound, ReadInv, NEW p \in Proc, Unmark(p)
    PROVE  ReadInv'
<1>1. TypeOK /\ ReadInv /\ on[p] \in Account
  BY DEF Sound, Role, Unmark, At, ClaimPlaces, NarrowPlaces, AskPlaces, CheckPlaces, TypeOK, Kinds
<1>2. Others(p) /\ UNCHANGED <<link, cur>> /\ pc'[p] \notin CheckPlaces
  BY <1>1, UnmarkDoes DEF ClaimPlaces, NarrowPlaces, AskPlaces, CheckPlaces, Ended
<1>. QED BY <1>1, <1>2, ReadFrom DEF ReadOf

\* Markers keeps what was read.
LEMMA MarkersRead ==
    ASSUME Sound, ReadInv, NEW p \in Proc, Markers(p)
    PROVE  ReadInv'
<1>1. TypeOK /\ ReadInv
  BY DEF Sound, Role, Markers, At, ClaimPlaces, NarrowPlaces, AskPlaces, CheckPlaces, TypeOK, Kinds
<1>2. Others(p) /\ UNCHANGED <<link, cur>> /\ pc'[p] \notin CheckPlaces
  BY <1>1, MarkersDoes DEF ClaimPlaces, NarrowPlaces, AskPlaces, CheckPlaces, Ended
<1>. QED BY <1>1, <1>2, ReadFrom DEF ReadOf

\* FinishClaims keeps what was read.
LEMMA FinishClaimsRead ==
    ASSUME Sound, ReadInv, NEW p \in Proc, FinishClaims(p)
    PROVE  ReadInv'
<1>1. TypeOK /\ ReadInv
  BY DEF Sound, Role, FinishClaims, At, ClaimPlaces, NarrowPlaces, AskPlaces, CheckPlaces, TypeOK, Kinds
<1>2. Others(p) /\ UNCHANGED <<link, cur>> /\ pc'[p] \notin CheckPlaces
  BY <1>1, FinishClaimsDoes DEF ClaimPlaces, NarrowPlaces, AskPlaces, CheckPlaces, Ended
<1>. QED BY <1>1, <1>2, ReadFrom DEF ReadOf

\* List keeps what was read.
LEMMA ListRead ==
    ASSUME Sound, ReadInv, NEW p \in Proc, List(p)
    PROVE  ReadInv'
<1>1. TypeOK /\ ReadInv /\ kind[p] \in {"check", "adopt", "disconnect"}
  BY DEF Sound, Role, List, At, ClaimPlaces, NarrowPlaces, AskPlaces, CheckPlaces, TypeOK, Kinds
<1>2. Others(p) /\ UNCHANGED link /\ seen'[p] = link /\ cur'[p] = Account /\ \A q \in Proc \ {p} : cur'[q] = cur[q]
  BY <1>1, ListDoes
<1>3. \A a \in Account : Less(link[a], link[a])
  BY <1>1, LessLinks DEF TypeOK
<1>4. ReadOf(p)'
  BY <1>2, <1>3 DEF ReadOf
<1>. QED BY <1>1, <1>2, <1>4, ReadFrom

\* Start keeps what was read.
LEMMA StartRead ==
    ASSUME Sound, ReadInv, NEW p \in Proc, NEW operation \in {"check", "adopt", "disconnect"}, Start(p, operation)
    PROVE  ReadInv'
<1>1. TypeOK /\ ReadInv
  BY DEF Sound, Role, Start, At, ClaimPlaces, NarrowPlaces, AskPlaces, CheckPlaces, TypeOK, Kinds
<1>2. Others(p) /\ UNCHANGED <<link, cur>> /\ pc'[p] \notin CheckPlaces
  BY <1>1, StartDoes DEF ClaimPlaces, NarrowPlaces, AskPlaces, CheckPlaces, Ended
<1>. QED BY <1>1, <1>2, ReadFrom DEF ReadOf

\* LinkCredential keeps what was read.
LEMMA LinkCredentialRead ==
    ASSUME Sound, ReadInv, NEW p \in Proc, LinkCredential(p)
    PROVE  ReadInv'
<1>1. TypeOK /\ ReadInv
  BY DEF Sound, Role, LinkCredential, At, ClaimPlaces, NarrowPlaces, AskPlaces, CheckPlaces, TypeOK, Kinds
<1>2. Others(p) /\ UNCHANGED <<link, cur>>
  BY <1>1, LinkCredentialDoes
<1>3. ReadOf(p) /\ pc[p] \in CheckPlaces
  BY <1>1 DEF ReadInv, LinkCredential, At, CheckPlaces
<1>4. pc'[p] = "idle" \/ UNCHANGED seen
  BY <1>1, LinkCredentialDoes DEF Ended
<1>5. ReadOf(p)'
  BY <1>2, <1>3, <1>4 DEF ReadOf, CheckPlaces, AskPlaces
<1>. QED BY <1>1, <1>2, <1>5, ReadFrom

\* CheckNext keeps what was read.
LEMMA CheckNextRead ==
    ASSUME Sound, ReadInv, NEW p \in Proc, CheckNext(p)
    PROVE  ReadInv'
<1>1. TypeOK /\ ReadInv
  BY DEF Sound, Role, CheckNext, At, ClaimPlaces, NarrowPlaces, AskPlaces, CheckPlaces, TypeOK, Kinds
<1>2. ReadOf(p) /\ cur[p] \subseteq Account /\ pc[p] \in CheckPlaces
  BY <1>1 DEF Mine, TypeOK, ReadInv, CheckNext, At, CheckPlaces, AskPlaces
<1>3. Others(p) /\ UNCHANGED <<link, cur, seen>>
  BY <1>1, CheckNextDoes DEF local
<1>4. ReadOf(p)'
  BY <1>2, <1>3 DEF ReadOf
<1>. QED BY <1>1, <1>3, <1>4, ReadFrom

\* CheckApp keeps what was read.
LEMMA CheckAppRead ==
    ASSUME Sound, ReadInv, NEW p \in Proc, CheckApp(p)
    PROVE  ReadInv'
<1>1. TypeOK /\ ReadInv /\ on[p] \in Account
  BY DEF Sound, Role, CheckApp, At, ClaimPlaces, NarrowPlaces, AskPlaces, CheckPlaces, TypeOK, Kinds
<1>2. Mine(p) \in Link /\ ReadOf(p) /\ cur[p] \subseteq Account /\ pc[p] \in CheckPlaces
  BY <1>1 DEF Mine, TypeOK, ReadInv, CheckApp, At, CheckPlaces, AskPlaces
<1>3. Others(p) /\ UNCHANGED <<link, cur>>
  BY <1>1, CheckAppDoes
<1>4. Saw(p, on[p], Unverifiable(Mine(p))) \/ (UNCHANGED seen /\ pc[p] = "checkapp")
  BY <1>1, CheckAppDoes
<1>5. Less(Unverifiable(Mine(p)), Mine(p))
  BY <1>1, <1>2, LessLinks, LinkFields
<1>6. Mine(p) = seen[p][on[p]]
  BY DEF Mine
<1>7. ReadOf(p)'
  BY <1>1, <1>2, <1>3, <1>4, <1>5, <1>6, ReadSaw DEF ReadOf
<1>. QED BY <1>1, <1>3, <1>7, ReadFrom

\* Probe keeps what was read.
LEMMA ProbeRead ==
    ASSUME Sound, ReadInv, NEW p \in Proc, Probe(p)
    PROVE  ReadInv'
<1>1. TypeOK /\ ReadInv /\ on[p] \in Account
  BY DEF Sound, Role, Probe, At, ClaimPlaces, NarrowPlaces, AskPlaces, CheckPlaces, TypeOK, Kinds
<1>. DEFINE k == [Mine(p) EXCEPT !.refreshing = FALSE]
<1>2. Mine(p) \in Link /\ ReadOf(p) /\ cur[p] \subseteq Account /\ pc[p] \in CheckPlaces
  BY <1>1 DEF Mine, TypeOK, ReadInv, Probe, At, CheckPlaces, AskPlaces
<1>3. Others(p) /\ UNCHANGED <<link, cur>>
  BY <1>1, ProbeDoes
<1>4. Saw(p, on[p], Unverifiable(Mine(p))) \/ Saw(p, on[p], k)
  BY <1>1, ProbeDoes
<1>5. Less(Unverifiable(Mine(p)), Mine(p)) /\ Less(k, Mine(p))
  BY <1>1, <1>2, LessLinks, LinkFields
<1>6. Mine(p) = seen[p][on[p]]
  BY DEF Mine
<1>7. ReadOf(p)'
  BY <1>1, <1>2, <1>3, <1>4, <1>5, <1>6, ReadSaw DEF ReadOf
<1>. QED BY <1>1, <1>3, <1>7, ReadFrom

\* RefreshDue keeps what was read.
LEMMA RefreshDueRead ==
    ASSUME Sound, ReadInv, NEW p \in Proc, RefreshDue(p)
    PROVE  ReadInv'
<1>1. TypeOK /\ ReadInv /\ on[p] \in Account
  BY DEF Sound, Role, RefreshDue, At, ClaimPlaces, NarrowPlaces, AskPlaces, CheckPlaces, TypeOK, Kinds
<1>2. Mine(p) \in Link /\ ReadOf(p) /\ cur[p] \subseteq Account /\ pc[p] \in CheckPlaces
  BY <1>1 DEF Mine, TypeOK, ReadInv, RefreshDue, At, CheckPlaces, AskPlaces
<1>3. Others(p) /\ UNCHANGED <<link, cur, seen>>
  BY <1>1, RefreshDueDoes DEF local
<1>4. ReadOf(p)'
  BY <1>2, <1>3 DEF ReadOf
<1>. QED BY <1>1, <1>3, <1>4, ReadFrom

\* ClaimRefresh keeps what was read.
LEMMA ClaimRefreshRead ==
    ASSUME Sound, ReadInv, NEW p \in Proc, ClaimRefresh(p)
    PROVE  ReadInv'
<1>1. TypeOK /\ ReadInv /\ on[p] \in Account
  BY DEF Sound, Role, ClaimRefresh, At, ClaimPlaces, NarrowPlaces, AskPlaces, CheckPlaces, TypeOK, Kinds
<1>2. Mine(p) \in Link /\ ReadOf(p) /\ cur[p] \subseteq Account /\ pc[p] \in CheckPlaces
  BY <1>1 DEF Mine, TypeOK, ReadInv, ClaimRefresh, At, CheckPlaces, AskPlaces
<1>. DEFINE k == [Mine(p) EXCEPT !.refreshing = TRUE]
<1>3. /\ Others(p)
      /\ (Saw(p, on[p], k) /\ Written(p, on[p], k)) \/ UNCHANGED <<seen, link, cur>>
  BY <1>1, ClaimRefreshDoes
<1>4. k \in Link
  BY <1>2, RefreshingFields
<1>5. CASE Saw(p, on[p], k) /\ Written(p, on[p], k)
  <2>1. ReadOf(p)'
    BY <1>1, <1>2, <1>4, <1>5, ReadWritten DEF Saw
  <2>. QED BY <1>1, <1>3, <1>4, <1>5, <2>1, ReadFrom
<1>6. CASE UNCHANGED <<seen, link, cur>>
  <2>1. ReadOf(p)'
    BY <1>2, <1>6 DEF ReadOf
  <2>. QED BY <1>1, <1>3, <1>6, <2>1, ReadFrom
<1>. QED BY <1>3, <1>5, <1>6

\* RefreshedElsewhere keeps what was read.
LEMMA RefreshedElsewhereRead ==
    ASSUME Sound, ReadInv, NEW p \in Proc, RefreshedElsewhere(p)
    PROVE  ReadInv'
<1>1. TypeOK /\ ReadInv /\ on[p] \in Account
  BY DEF Sound, Role, RefreshedElsewhere, At, ClaimPlaces, NarrowPlaces, AskPlaces, CheckPlaces, TypeOK, Kinds
<1>2. Mine(p) \in Link /\ ReadOf(p) /\ cur[p] \subseteq Account /\ pc[p] \in CheckPlaces
  BY <1>1 DEF Mine, TypeOK, ReadInv, RefreshedElsewhere, At, CheckPlaces, AskPlaces
<1>3. Others(p) /\ UNCHANGED link /\ \A q \in Proc \ {p} : cur'[q] = cur[q]
  BY <1>1, RefreshedElsewhereDoes
<1>4. \/ Saw(p, on[p], link[on[p]]) /\ cur'[p] = cur[p] \cup {on[p]}
      \/ UNCHANGED <<seen, cur>>
  BY <1>1, RefreshedElsewhereDoes
<1>5. Less(link[on[p]], link[on[p]])
  BY <1>1, LessLinks DEF TypeOK
<1>6. ReadOf(p)'
  BY <1>1, <1>2, <1>3, <1>4, <1>5 DEF ReadOf, Saw
<1>. QED BY <1>1, <1>3, <1>6, ReadFrom

\* RefreshUserTokens keeps what was read.
LEMMA RefreshUserTokensRead ==
    ASSUME Sound, ReadInv, NEW p \in Proc, RefreshUserTokens(p)
    PROVE  ReadInv'
<1>1. TypeOK /\ ReadInv /\ on[p] \in Account
  BY DEF Sound, Role, RefreshUserTokens, At, ClaimPlaces, NarrowPlaces, AskPlaces, CheckPlaces, TypeOK, Kinds
<1>. DEFINE k == [Mine(p) EXCEPT !.pair = Mint(on[p]), !.refreshing = FALSE]
<1>2. Mine(p) \in Link /\ ReadOf(p) /\ cur[p] \subseteq Account /\ pc[p] \in CheckPlaces
  BY <1>1 DEF Mine, TypeOK, ReadInv, RefreshUserTokens, At, CheckPlaces, AskPlaces
<1>3. Others(p) /\ UNCHANGED <<link, cur>>
  BY <1>1, RefreshUserTokensDoes
<1>4. (Names(on[p]) /\ Saw(p, on[p], k)) \/ UNCHANGED seen
  BY <1>1, RefreshUserTokensDoes
<1>5. Names(on[p]) => Less(k, Mine(p))
  BY <1>1, <1>2, MintNew, LessLinks, LinkFields
<1>6. Mine(p) = seen[p][on[p]]
  BY DEF Mine
<1>7. ReadOf(p)'
  BY <1>1, <1>2, <1>3, <1>4, <1>5, <1>6, ReadSaw DEF ReadOf
<1>. QED BY <1>1, <1>3, <1>7, ReadFrom

\* RefreshRefused keeps what was read.
LEMMA RefreshRefusedRead ==
    ASSUME Sound, ReadInv, NEW p \in Proc, RefreshRefused(p)
    PROVE  ReadInv'
<1>1. TypeOK /\ ReadInv /\ on[p] \in Account
  BY DEF Sound, Role, RefreshRefused, At, ClaimPlaces, NarrowPlaces, AskPlaces, CheckPlaces, TypeOK, Kinds
<1>2. Mine(p) \in Link /\ ReadOf(p) /\ cur[p] \subseteq Account /\ pc[p] \in CheckPlaces
  BY <1>1 DEF Mine, TypeOK, ReadInv, RefreshRefused, At, CheckPlaces, AskPlaces
<1>3. Others(p) /\ UNCHANGED <<link, cur>>
  BY <1>1, RefreshRefusedDoes
<1>4. Saw(p, on[p], Unverifiable(Mine(p))) \/ Saw(p, on[p], Lose(Mine(p), Mine(p).pair))
  BY <1>1, RefreshRefusedDoes
<1>5. Less(Unverifiable(Mine(p)), Mine(p)) /\ Less(Lose(Mine(p), Mine(p).pair), Mine(p))
  BY <1>1, <1>2, LessLinks, LinkFields
<1>6. Mine(p) = seen[p][on[p]]
  BY DEF Mine
<1>7. ReadOf(p)'
  BY <1>1, <1>2, <1>3, <1>4, <1>5, <1>6, ReadSaw DEF ReadOf
<1>. QED BY <1>1, <1>3, <1>7, ReadFrom

\* KeepPair keeps what was read.
LEMMA KeepPairRead ==
    ASSUME Sound, ReadInv, NEW p \in Proc, KeepPair(p)
    PROVE  ReadInv'
<1>1. TypeOK /\ ReadInv /\ on[p] \in Account
  BY DEF Sound, Role, KeepPair, At, ClaimPlaces, NarrowPlaces, AskPlaces, CheckPlaces, TypeOK, Kinds
<1>2. Mine(p) \in Link /\ ReadOf(p) /\ cur[p] \subseteq Account /\ pc[p] \in CheckPlaces
  BY <1>1 DEF Mine, TypeOK, ReadInv, KeepPair, At, CheckPlaces, AskPlaces
<1>3. Others(p) /\ UNCHANGED seen /\ (Written(p, on[p], Mine(p)) \/ UNCHANGED <<link, cur>>)
  BY <1>1, KeepPairDoes DEF local
<1>4. CASE Written(p, on[p], Mine(p))
  <2>1. seen'[p][on[p]] = Mine(p)
    BY <1>3 DEF Mine
  <2>2. ReadOf(p)'
    BY <1>1, <1>2, <1>3, <1>4, <2>1, ReadWritten
  <2>. QED BY <1>1, <1>2, <1>3, <1>4, <2>2, ReadFrom
<1>5. CASE UNCHANGED <<link, cur>>
  <2>1. ReadOf(p)'
    BY <1>2, <1>3, <1>5 DEF ReadOf
  <2>. QED BY <1>1, <1>3, <1>5, <2>1, ReadFrom
<1>. QED BY <1>3, <1>4, <1>5

\* CheckUser keeps what was read.
LEMMA CheckUserRead ==
    ASSUME Sound, ReadInv, NEW p \in Proc, CheckUser(p)
    PROVE  ReadInv'
<1>1. TypeOK /\ ReadInv /\ on[p] \in Account
  BY DEF Sound, Role, CheckUser, At, ClaimPlaces, NarrowPlaces, AskPlaces, CheckPlaces, TypeOK, Kinds
<1>. DEFINE kept == Mine(p).emails \cap verified[on[p]]
            k == [Mine(p) EXCEPT !.emails = kept]
<1>2. Mine(p) \in Link /\ ReadOf(p) /\ cur[p] \subseteq Account /\ pc[p] \in CheckPlaces
  BY <1>1 DEF Mine, TypeOK, ReadInv, CheckUser, At, CheckPlaces, AskPlaces
<1>a. kept \in SUBSET Email /\ kept \subseteq Mine(p).emails
  BY <1>2, LinkFields
<1>3. Others(p) /\ UNCHANGED <<link, cur>>
  BY <1>1, CheckUserDoes
<1>4. \/ Saw(p, on[p], Lose(Mine(p), Mine(p).pair)) \/ Saw(p, on[p], Lose(Mine(p), None))
      \/ Saw(p, on[p], k)
  BY <1>1, CheckUserDoes
<1>5. /\ Less(Lose(Mine(p), Mine(p).pair), Mine(p)) /\ Less(Lose(Mine(p), None), Mine(p))
      /\ Less(k, Mine(p))
  BY <1>1, <1>2, <1>a, LessLinks, LinkFields
<1>6. Mine(p) = seen[p][on[p]]
  BY DEF Mine
<1>7. ReadOf(p)'
  BY <1>1, <1>2, <1>3, <1>4, <1>5, <1>6, ReadSaw DEF ReadOf
<1>. QED BY <1>1, <1>3, <1>7, ReadFrom

\* CheckFails keeps what was read.
LEMMA CheckFailsRead ==
    ASSUME Sound, ReadInv, NEW p \in Proc, CheckFails(p)
    PROVE  ReadInv'
<1>1. TypeOK /\ ReadInv
  BY DEF Sound, Role, CheckFails, At, ClaimPlaces, NarrowPlaces, AskPlaces, CheckPlaces, TypeOK, Kinds
<1>2. ReadOf(p) /\ cur[p] \subseteq Account /\ pc[p] \in CheckPlaces
  BY <1>1 DEF Mine, TypeOK, ReadInv, CheckFails, At, CheckPlaces, AskPlaces
<1>3. Others(p) /\ UNCHANGED <<link, cur, seen>>
  BY <1>1, CheckFailsDoes DEF local
<1>4. ReadOf(p)'
  BY <1>2, <1>3 DEF ReadOf
<1>. QED BY <1>1, <1>3, <1>4, ReadFrom

\* UpdateChanged keeps what was read.
LEMMA UpdateChangedRead ==
    ASSUME Sound, ReadInv, NEW p \in Proc, UpdateChanged(p)
    PROVE  ReadInv'
<1>1. TypeOK /\ ReadInv
  BY DEF Sound, Role, UpdateChanged, At, ClaimPlaces, NarrowPlaces, AskPlaces, CheckPlaces, TypeOK, Kinds
<1>2. ReadOf(p) /\ cur[p] \subseteq Account /\ pc[p] \in CheckPlaces
  BY <1>1 DEF TypeOK, ReadInv, UpdateChanged, At, CheckPlaces, AskPlaces
<1>3. /\ Others(p)
      /\ \/ Ended(p) /\ UNCHANGED <<link, cur>>
         \/ /\ UNCHANGED seen
            /\ UNCHANGED <<link, cur>> \/ \E a \in changed[p] : Written(p, a, seen[p][a])
  BY <1>1, UpdateChangedDoes
<1>4. \A a \in changed[p] : a \in Account /\ seen[p][a] \in Link
  BY <1>1 DEF TypeOK
<1>5. CASE UNCHANGED <<link, cur>>
  <2>1. ReadOf(p)'
    BY <1>2, <1>3, <1>5 DEF ReadOf, Ended, CheckPlaces, AskPlaces
  <2>. QED BY <1>1, <1>3, <1>5, <2>1, ReadFrom
<1>6. CASE UNCHANGED seen /\ \E a \in changed[p] : Written(p, a, seen[p][a])
  <2>1. PICK a \in changed[p] : Written(p, a, seen[p][a])
    BY <1>6
  <2>2. ReadOf(p)'
    BY <1>2, <1>4, <1>6, <2>1, ReadWritten
  <2>. QED BY <1>1, <1>3, <1>4, <2>1, <2>2, ReadFrom
<1>. QED BY <1>3, <1>5, <1>6

\* AdoptPick keeps what was read.
LEMMA AdoptPickRead ==
    ASSUME Sound, ReadInv, NEW p \in Proc, AdoptPick(p)
    PROVE  ReadInv'
<1>1. TypeOK /\ ReadInv
  BY DEF Sound, Role, AdoptPick, At, ClaimPlaces, NarrowPlaces, AskPlaces, CheckPlaces, TypeOK, Kinds
<1>2. Others(p) /\ UNCHANGED <<link, cur>> /\ pc'[p] \notin CheckPlaces
  BY <1>1, AdoptPickDoes DEF ClaimPlaces, NarrowPlaces, AskPlaces, CheckPlaces, Ended
<1>. QED BY <1>1, <1>2, ReadFrom DEF ReadOf

\* AdoptWrite keeps what was read.
LEMMA AdoptWriteRead ==
    ASSUME Sound, ReadInv, NEW p \in Proc, AdoptWrite(p)
    PROVE  ReadInv'
<1>1. TypeOK /\ ReadInv /\ on[p] \in Account
  BY DEF Sound, Role, AdoptWrite, At, ClaimPlaces, NarrowPlaces, AskPlaces, CheckPlaces, TypeOK, Kinds
<1>. DEFINE k == [NoLink EXCEPT !.state = "linked", !.emails = claim[p]]
<1>2. Others(p) /\ (UNCHANGED <<link, cur>> \/ Written(p, on[p], k)) /\ pc'[p] \notin CheckPlaces
  BY <1>1, AdoptWriteDoes DEF CheckPlaces, AskPlaces, Ended
<1>3. k \in Link
  BY <1>1, NewFields DEF TypeOK
<1>. QED BY <1>1, <1>2, <1>3, ReadFrom DEF ReadOf

\* Invalidate keeps what was read.
LEMMA InvalidateRead ==
    ASSUME Sound, ReadInv, NEW p \in Proc, Invalidate(p)
    PROVE  ReadInv'
<1>1. TypeOK /\ ReadInv
  BY DEF Sound, Role, Invalidate, At, ClaimPlaces, NarrowPlaces, AskPlaces, CheckPlaces, TypeOK, Kinds
<1>2. Others(p) /\ pc'[p] \notin CheckPlaces
  BY <1>1, InvalidateDoes DEF CheckPlaces, AskPlaces
<1>3. \A b \in todo[p] : b \in Account /\ Unverifiable(link[b]) \in Link
  BY <1>1, UnverifiableFields DEF TypeOK
<1>4. UNCHANGED <<link, cur>> \/ \E b \in todo[p] : Written(p, b, Unverifiable(link[b]))
  BY <1>1, InvalidateDoes
<1>. QED BY <1>1, <1>2, <1>3, <1>4, ReadFrom DEF ReadOf

\* DeleteLinkApp keeps what was read.
LEMMA DeleteLinkAppRead ==
    ASSUME Sound, ReadInv, NEW p \in Proc, DeleteLinkApp(p)
    PROVE  ReadInv'
<1>1. TypeOK /\ ReadInv
  BY DEF Sound, Role, DeleteLinkApp, At, ClaimPlaces, NarrowPlaces, AskPlaces, CheckPlaces, TypeOK, Kinds
<1>2. Others(p) /\ UNCHANGED <<link, cur>> /\ pc'[p] \notin CheckPlaces
  BY <1>1, DeleteLinkAppDoes DEF ClaimPlaces, NarrowPlaces, AskPlaces, CheckPlaces, Ended
<1>. QED BY <1>1, <1>2, ReadFrom DEF ReadOf

\* Crash keeps what was read.
LEMMA CrashRead ==
    ASSUME Sound, ReadInv, NEW p \in Proc, Crash(p)
    PROVE  ReadInv'
<1>1. TypeOK /\ ReadInv
  BY DEF Sound, Role, Crash, At, ClaimPlaces, NarrowPlaces, AskPlaces, CheckPlaces, TypeOK, Kinds
<1>2. Others(p) /\ UNCHANGED <<link, cur>> /\ pc'[p] \notin CheckPlaces
  BY <1>1, CrashDoes DEF ClaimPlaces, NarrowPlaces, AskPlaces, CheckPlaces, Ended
<1>. QED BY <1>1, <1>2, ReadFrom DEF ReadOf

\* Every step keeps what was read.
LEMMA ReadNext == ASSUME Sound, ReadInv, [Next]_vars PROVE ReadInv'
<1>1. CASE UNCHANGED vars
  BY <1>1 DEF ReadInv, ReadOf, vars, local
<1>2. CASE \/ \E a \in Account : Revoke(a) \/ \E emails \in SUBSET Email : Verify(a, emails)
           \/ \E new \in App : PutLinkApp(new)
  BY <1>2, WorldDoes DEF Sound, ReadInv, ReadOf, local
<1>3. ASSUME NEW p \in Proc, ClaimStep(p) PROVE ReadInv'
  BY <1>3, LinkCallbackRead, LinkableAddressesRead, PutMarkerRead, ClaimWriteRead, NarrowListRead, NarrowRead, UnmarkRead DEF ClaimStep
<1>4. ASSUME NEW p \in Proc, ListStep(p) PROVE ReadInv'
  BY <1>4, StartRead, MarkersRead, FinishClaimsRead, ListRead DEF ListStep
<1>5. ASSUME NEW p \in Proc, CheckStep(p) PROVE ReadInv'
  BY <1>5, LinkCredentialRead, CheckNextRead, CheckAppRead, ProbeRead, RefreshDueRead, ClaimRefreshRead, RefreshedElsewhereRead, RefreshUserTokensRead, RefreshRefusedRead, KeepPairRead, CheckUserRead, CheckFailsRead, UpdateChangedRead DEF CheckStep
<1>6. ASSUME NEW p \in Proc, AdoptPick(p) \/ AdoptWrite(p) \/ Invalidate(p) \/ DeleteLinkApp(p) \/ Crash(p)
      PROVE  ReadInv'
  BY <1>6, AdoptPickRead, AdoptWriteRead, InvalidateRead, DeleteLinkAppRead, CrashRead
<1>. QED BY <1>1, <1>2, <1>3, <1>4, <1>5, <1>6 DEF Next


\* A link that did not change became no more.
LEMMA LessSame == ASSUME TypeOK, UNCHANGED link PROVE \A a \in Account : Less(link'[a], link[a])
<1>1. \A a \in Account : Less(link[a], link[a])
  BY LessLinks DEF TypeOK
<1>. QED BY <1>1

\* A write that makes one link less.
LEMMA LessWritten ==
    ASSUME TypeOK, NEW p \in Proc, NEW a \in Account, NEW l, Less(l, link[a]), Written(p, a, l)
    PROVE  \A b \in Account : Less(link'[b], link[b])
<1>1. \A b \in Account : Less(link[b], link[b])
  BY LessLinks DEF TypeOK
<1>. QED BY <1>1 DEF Written

\* The writes of a check that read the link as it stands, and the takings of a
\* claim and of a disconnection, make links less.
LEMMA LessWrites ==
    ASSUME Sound, ReadInv, NEW p \in Proc,
           Narrow(p) \/ Invalidate(p) \/ ClaimRefresh(p) \/ KeepPair(p) \/ UpdateChanged(p)
    PROVE  \A a \in Account : Less(link'[a], link[a])
<1>1. TypeOK /\ ReadOf(p) /\ Role(p) /\ todo[p] \subseteq Account /\ changed[p] \subseteq Account
      /\ cur[p] \subseteq Account /\ claim[p] \in SUBSET Email
  BY DEF Sound, ReadInv, TypeOK
<1>2. \A a \in Account : link[a] \in Link /\ seen[p][a] \in Link
  BY <1>1 DEF TypeOK
<1>3. CASE Narrow(p)
  <2>1. on[p] \in Account
    BY <1>1, <1>3 DEF Narrow, At, Role, ClaimPlaces
  <2>2. \A b \in todo[p] : Less(Narrowed(link[b], claim[p]), link[b])
    BY <1>1, <1>2, NarrowedFields DEF Less
  <2>3. UNCHANGED link \/ \E b \in todo[p] : Written(p, b, Narrowed(link[b], claim[p]))
    BY <1>1, <1>3, <2>1, NarrowDoes
  <2>. QED BY <1>1, <2>2, <2>3, LessSame, LessWritten
<1>4. CASE Invalidate(p)
  <2>1. UNCHANGED link \/ \E b \in todo[p] : Written(p, b, Unverifiable(link[b]))
    BY <1>1, <1>4, InvalidateDoes
  <2>2. \A b \in todo[p] : Less(Unverifiable(link[b]), link[b])
    BY <1>1, <1>2, LessLinks
  <2>. QED BY <1>1, <2>1, <2>2, LessSame, LessWritten
<1>5. ASSUME pc[p] \in CheckPlaces, NEW a \in cur[p], NEW l, Less(l, seen[p][a]) PROVE Less(l, link[a])
  BY <1>1, <1>5 DEF ReadOf, Less
<1>6. CASE ClaimRefresh(p)
  <2>. DEFINE k == [Mine(p) EXCEPT !.refreshing = TRUE]
  <2>1. on[p] \in Account /\ pc[p] \in CheckPlaces
    BY <1>1, <1>6 DEF ClaimRefresh, At, Role, AskPlaces, CheckPlaces
  <2>2. Less(k, seen[p][on[p]])
    BY <1>2, <2>1, LessLinks DEF Mine
  <2>3. UNCHANGED link \/ (on[p] \in cur[p] /\ Written(p, on[p], k))
    BY <1>1, <1>6, <2>1, ClaimRefreshDoes
  <2>. QED BY <1>1, <1>5, <2>1, <2>2, <2>3, LessSame, LessWritten
<1>7. CASE KeepPair(p)
  <2>1. on[p] \in Account /\ pc[p] \in CheckPlaces
    BY <1>1, <1>7 DEF KeepPair, At, Role, AskPlaces, CheckPlaces
  <2>2. Less(Mine(p), seen[p][on[p]])
    BY <1>2, <2>1, LessLinks DEF Mine
  <2>3. UNCHANGED link \/ (on[p] \in cur[p] /\ Written(p, on[p], Mine(p)))
    BY <1>1, <1>7, <2>1, KeepPairDoes
  <2>. QED BY <1>1, <1>5, <2>1, <2>2, <2>3, LessSame, LessWritten
<1>8. CASE UpdateChanged(p)
  <2>1. pc[p] \in CheckPlaces
    BY <1>8 DEF UpdateChanged, At, CheckPlaces
  <2>2. UNCHANGED link \/ \E a \in changed[p] : a \in cur[p] /\ Written(p, a, seen[p][a])
    BY <1>1, <1>8, UpdateChangedDoes
  <2>3. CASE \E a \in changed[p] : a \in cur[p] /\ Written(p, a, seen[p][a])
    <3>1. PICK a \in changed[p] : a \in cur[p] /\ Written(p, a, seen[p][a])
      BY <2>3
    <3>2. Less(seen[p][a], seen[p][a])
      BY <1>1, <1>2, LessLinks
    <3>. QED BY <1>1, <1>5, <2>1, <3>1, <3>2, LessWritten
  <2>. QED BY <1>1, <2>2, <2>3, LessSame
<1>. QED BY <1>3, <1>4, <1>6, <1>7, <1>8

\* Every step makes every link less, or is a claim's or an adoption's write.
LEMMA LinksNext ==
    ASSUME Sound, ReadInv, [Next]_vars
    PROVE  \/ \A a \in Account : Less(link'[a], link[a])
           \/ \E p \in Proc : ClaimWrite(p) \/ AdoptWrite(p)
<1>. DEFINE G == \/ \A a \in Account : Less(link'[a], link[a])
                 \/ \E p \in Proc : ClaimWrite(p) \/ AdoptWrite(p)
<1>. SUFFICES G
  OBVIOUS
<1>0. TypeOK
  BY DEF Sound
<1>1. UNCHANGED link => G
  BY <1>0, LessSame
<1>. HIDE DEF G
<1>2. ASSUME NEW p \in Proc, ClaimWrite(p) \/ AdoptWrite(p) PROVE G
  BY <1>2 DEF G
<1>3. ASSUME NEW p \in Proc, Narrow(p) \/ Invalidate(p) \/ ClaimRefresh(p) \/ KeepPair(p) \/ UpdateChanged(p) PROVE G
  BY <1>3, LessWrites DEF G
<1>4. CASE \/ UNCHANGED vars
           \/ \E a \in Account : Revoke(a) \/ \E emails \in SUBSET Email : Verify(a, emails)
           \/ \E new \in App : PutLinkApp(new)
  BY <1>1, <1>4 DEF vars, Revoke, Verify, PutLinkApp
<1>5. ASSUME NEW p \in Proc, ClaimStep(p) PROVE G
  BY <1>1, <1>2, <1>3, <1>5 DEF ClaimStep, LinkCallback, LinkableAddresses, PutMarker, NarrowList, Unmark
<1>6. ASSUME NEW p \in Proc, ListStep(p) PROVE G
  BY <1>1, <1>6 DEF ListStep, Start, Markers, FinishClaims, List
<1>7. ASSUME NEW p \in Proc, CheckStep(p) PROVE G
  BY <1>1, <1>3, <1>7 DEF CheckStep, LinkCredential, CheckNext, CheckApp, Probe, RefreshDue, RefreshedElsewhere,
     RefreshUserTokens, RefreshRefused, CheckUser, CheckFails
<1>8. ASSUME NEW p \in Proc, AdoptPick(p) \/ AdoptWrite(p) \/ Invalidate(p) \/ DeleteLinkApp(p) \/ Crash(p) PROVE G
  BY <1>1, <1>2, <1>3, <1>8 DEF AdoptPick, DeleteLinkApp, Crash
<1>. QED BY <1>4, <1>5, <1>6, <1>7, <1>8 DEF Next

\* What a check has read as it stands is what is there, less what it found, always.
LEMMA ReadAlways == Spec => [](Sound /\ ReadInv)
<1>1. Init => ReadInv
  BY DEF Init, ReadInv, ReadOf
<1>2. Sound /\ ReadInv /\ [Next]_vars => ReadInv'
  BY ReadNext
<1>. QED BY <1>1, <1>2, SoundAlways, PTL DEF Spec

\* Only the person replaces what the person linked (Update): a check that read an
\* earlier link writes nothing over a later one, however its steps interleave
\* with claims, adoptions and other checks.
THEOREM RelinkKeptHolds == Spec => RelinkKept
<1>. DEFINE Kept == \A a \in Account : link'[a].root # link[a].root =>
                       \E p \in Proc : pc[p] \in {"write", "adoptwrite"} /\ pc'[p] # pc[p]
<1>1. ASSUME Sound, ReadInv, [Next]_vars PROVE Kept
  <2>1. CASE \A a \in Account : Less(link'[a], link[a])
    BY <2>1 DEF Less
  <2>2. ASSUME NEW p \in Proc, ClaimWrite(p) \/ AdoptWrite(p) PROVE Kept
    <3>1. TypeOK /\ on[p] \in Account
      BY <1>1, <2>2 DEF Sound, Role, ClaimWrite, AdoptWrite, At, ClaimPlaces
    <3>2. pc[p] \in {"write", "adoptwrite"} /\ pc'[p] # pc[p]
      BY <2>2, <3>1, ClaimWriteDoes, AdoptWriteDoes DEF Ended
    <3>. QED BY <3>2
  <2>. QED BY <1>1, <2>1, <2>2, LinksNext
<1>2. Sound /\ ReadInv /\ [Next]_vars => [Kept]_vars
  BY <1>1
<1>. QED BY <1>2, ReadAlways, PTL DEF Spec, RelinkKept

-----------------------------------------------------------------------------
(* A claim is finished.                                                    *)

\* A link that stays a person's becomes no more.
Weaker == \A a \in Account : link'[a].self =>
              /\ link[a].self /\ link'[a].emails \subseteq link[a].emails
              /\ link'[a].state = "linked" => link[a].state = "linked"

\* Two links that prove one address did so before.
LEMMA ProvingBefore ==
    ASSUME Weaker, NEW a \in Account, NEW b \in Account, Proving(a, b)'
    PROVE  Proving(a, b)
BY DEF Weaker, Proving, Active

\* Proving one address is mutual.
LEMMA ProvingBoth ==
    ASSUME NEW a \in Account, NEW b \in Account
    PROVE  Proving(a, b)' = Proving(b, a)'
BY DEF Proving

\* A process outside of every claim leaves every claim as it was.
LEMMA ClaimFrame ==
    ASSUME ClaimInv, NEW p \in Proc, Others(p), UNCHANGED <<marker, cut>>, Weaker,
           marks'[p] \subseteq marker, \A q \in Proc \ {p} : marks'[q] = marks[q],
           pc'[p] \notin ClaimPlaces, pc'[p] = "mark" => claim'[p] = seen'[p][on'[p]].emails
    PROVE  ClaimInv'
<1>1. \A q \in Proc : \A a \in Account : Ending(q, a)' => q # p /\ Ending(q, a)
  BY DEF Ending, Others, ClaimPlaces, NarrowPlaces
<1>2. ASSUME NEW q \in Proc \ {p}, kind'[q] = "claim", pc'[q] \in ClaimPlaces,
             NEW r \in Proc \ {q}, on'[r] = on'[q]
      PROVE  /\ kind'[r] = "claim" /\ pc'[r] \in ClaimPlaces => on'[q] \in cut'
             /\ Ending(r, on[q])' => on'[q] \in cut'
  <2>1. MarkedBy(q) /\ kind[q] = "claim" /\ pc[q] \in ClaimPlaces /\ on'[q] = on[q] /\ cut' = cut
    BY <1>2 DEF Others, ClaimInv, Marked
  <2>2. CASE r = p
    BY <2>2 DEF Ending, ClaimPlaces, NarrowPlaces
  <2>3. CASE r # p
    <3>1. kind'[r] = kind[r] /\ pc'[r] = pc[r] /\ on[r] = on[q] /\ marks'[r] = marks[r]
      BY <1>2, <2>1, <2>3 DEF Others
    <3>. QED BY <1>2, <2>1, <3>1 DEF MarkedBy, Ending
  <2>. QED BY <2>2, <2>3
<1>3. ASSUME NEW q \in Proc PROVE MarkedBy(q)'
  <2>1. CASE q = p
    BY <2>1 DEF MarkedBy
  <2>2. CASE q # p
    <3>1. kind'[q] = "claim" /\ pc'[q] \in ClaimPlaces => on'[q] \in marker' \cup cut'
      BY <2>2 DEF Others, ClaimInv, Marked, MarkedBy
    <3>. QED BY <1>2, <2>2, <3>1 DEF MarkedBy
  <2>. QED BY <2>1, <2>2
<1>4. ASSUME NEW q \in Proc PROVE marks'[q] \subseteq marker' /\ (pc'[q] \in {"mark", "write"} => claim'[q] = Mine(q)'.emails)
  BY DEF ClaimInv, Marked, Others, Mine, ClaimPlaces
<1>5. ASSUME NEW a \in Account, NEW b \in Account, Proving(a, b)', Open(a, b) PROVE Open(a, b)'
  <2>1. link'[a].emails \subseteq link[a].emails
    BY <1>5 DEF Weaker, Proving
  <2>2. \A q \in Proc \ {p} : claim'[q] = claim[q] /\ pc'[q] = pc[q] /\ todo'[q] = todo[q]
    BY DEF Others
  <2>. QED BY <1>1, <1>5, <2>1, <2>2 DEF Open
<1>6. \A a, b \in Account : Proving(a, b)' => Open(a, b)' \/ Open(b, a)'
  BY <1>5, ProvingBefore, ProvingBoth DEF ClaimInv
<1>. QED BY <1>3, <1>4, <1>6 DEF ClaimInv, Marked

\* A link made less is weaker.
LEMMA WeakerOf ==
    ASSUME \A a \in Account : Less(link'[a], link[a])
    PROVE  Weaker
BY DEF Less, Weaker


\* LinkCallback keeps every claim's account.
LEMMA LinkCallbackClaim ==
    ASSUME Sound, ReadInv, ClaimInv, NEW p \in Proc, NEW a \in Account, LinkCallback(p, a)
    PROVE  ClaimInv'
<1>1. TypeOK /\ ClaimInv
  BY DEF Sound, Role, LinkCallback, At, ClaimPlaces, NarrowPlaces, AskPlaces, CheckPlaces, TypeOK, Kinds
<1>2. Others(p) /\ UNCHANGED <<link, marker, cut, marks>> /\ pc'[p] \notin ClaimPlaces \cup {"mark"}
  BY <1>1, LinkCallbackDoes DEF ClaimPlaces, NarrowPlaces, AskPlaces, CheckPlaces, Ended
<1>3. Weaker /\ marks[p] \subseteq marker
  BY <1>1, <1>2, LessSame, WeakerOf DEF ClaimInv, Marked
<1>. QED BY <1>1, <1>2, <1>3, ClaimFrame

\* LinkableAddresses keeps every claim's account.
LEMMA LinkableAddressesClaim ==
    ASSUME Sound, ReadInv, ClaimInv, NEW p \in Proc, LinkableAddresses(p)
    PROVE  ClaimInv'
<1>1. TypeOK /\ ClaimInv /\ on[p] \in Account
  BY DEF Sound, Role, LinkableAddresses, At, ClaimPlaces, NarrowPlaces, AskPlaces, CheckPlaces, TypeOK, Kinds
<1>2. /\ Others(p) /\ UNCHANGED <<link, marker, cut, marks>> /\ pc'[p] \in {"idle", "mark"}
      /\ pc'[p] = "mark" => \E accepted \in SUBSET Email :
            seen'[p][on[p]] = [Mine(p) EXCEPT !.emails = accepted] /\ claim'[p] = accepted /\ on'[p] = on[p]
  BY <1>1, LinkableAddressesDoes DEF Ended, Saw
<1>3. Mine(p) \in Link
  BY <1>1 DEF Mine, TypeOK
<1>4. \A accepted \in SUBSET Email : [Mine(p) EXCEPT !.emails = accepted].emails = accepted
  BY <1>3, EmailsFields
<1>6. pc'[p] = "mark" => claim'[p] = seen'[p][on'[p]].emails
  BY <1>2, <1>4
<1>5. Weaker /\ marks[p] \subseteq marker
  BY <1>1, <1>2, LessSame, WeakerOf DEF ClaimInv, Marked
<1>. QED BY <1>1, <1>2, <1>5, <1>6, ClaimFrame DEF ClaimPlaces

\* PutMarker keeps every claim's account.
LEMMA PutMarkerClaim ==
    ASSUME Sound, ReadInv, ClaimInv, NEW p \in Proc, PutMarker(p)
    PROVE  ClaimInv'
<1>1. TypeOK /\ ClaimInv /\ on[p] \in Account
  BY DEF Sound, Role, PutMarker, At, ClaimPlaces, NarrowPlaces, AskPlaces, CheckPlaces, TypeOK, Kinds
<1>. DEFINE x == on[p]
<1>2. /\ Others(p) /\ pc[p] = "mark" /\ pc'[p] = "write" /\ marker' = marker \cup {x}
      /\ \A q \in Proc : marks'[q] = marks[q] \ {x}
      /\ cut' = cut \cup Claimed(p, x)
      /\ UNCHANGED <<link, kind, seen, todo, on, claim>>
  BY <1>1, PutMarkerDoes DEF local
<1>3. kind[p] = "claim"
  BY <1>1, <1>2 DEF Sound, Role
<1>4. ASSUME NEW q \in Proc \ {p}, kind[q] = "claim", pc[q] \in ClaimPlaces, on[q] = x PROVE x \in cut'
  BY <1>2, <1>4 DEF Claimed, At, ClaimPlaces
<1>5. ASSUME NEW q \in Proc, NEW a \in Account, Ending(q, a)' PROVE q # p /\ Ending(q, a) /\ pc'[q] = pc[q]
  BY <1>2, <1>5 DEF Ending, Others, NarrowPlaces
<1>6. ASSUME NEW q \in Proc PROVE MarkedBy(q)'
  <2>. SUFFICES ASSUME kind[q] = "claim", pc'[q] \in ClaimPlaces
                PROVE  /\ on[q] \in marker' \cup cut'
                       /\ \A r \in Proc \ {q} : on[r] = on[q] =>
                            /\ kind[r] = "claim" /\ pc'[r] \in ClaimPlaces => on[q] \in cut'
                            /\ Ending(r, on[q])' => on[q] \in cut'
    BY <1>2 DEF MarkedBy
  <2>1. on[q] \in Account /\ MarkedBy(q)
    BY <1>1, <1>2, <1>3 DEF Sound, Role, Others, ClaimInv, Marked, ClaimPlaces
  <2>2. CASE q = p
    <3>1. ASSUME NEW r \in Proc \ {p}, on[r] = x
          PROVE  /\ kind[r] = "claim" /\ pc'[r] \in ClaimPlaces => x \in cut'
                 /\ Ending(r, x)' => x \in cut'
      <4>1. pc'[r] = pc[r] /\ x \notin marks'[r]
        BY <1>2 DEF Others
      <4>2. Ending(r, x)' => kind[r] = "claim" /\ pc[r] \in ClaimPlaces
        BY <1>2, <4>1 DEF Ending, NarrowPlaces, ClaimPlaces
      <4>. QED BY <1>4, <3>1, <4>1, <4>2
    <3>. QED BY <1>2, <2>2, <3>1
  <2>3. CASE q # p
    <3>1. pc'[q] = pc[q] /\ on[q] \in marker \cup cut /\ pc[q] \in ClaimPlaces
      BY <1>2, <2>1, <2>3 DEF Others, MarkedBy
    <3>2. ASSUME NEW r \in Proc \ {q}, on[r] = on[q]
          PROVE  /\ kind[r] = "claim" /\ pc'[r] \in ClaimPlaces => on[q] \in cut'
                 /\ Ending(r, on[q])' => on[q] \in cut'
      <4>1. CASE r = p
        BY <1>4, <2>3, <3>1, <3>2, <4>1
      <4>2. CASE r # p
        <5>1. pc'[r] = pc[r]
          BY <1>2, <4>2 DEF Others
        <5>. QED BY <1>2, <1>5, <2>1, <3>1, <3>2, <5>1 DEF MarkedBy
      <4>. QED BY <4>1, <4>2
    <3>. QED BY <1>2, <3>1, <3>2
  <2>. QED BY <2>2, <2>3
<1>7. ASSUME NEW q \in Proc PROVE marks'[q] \subseteq marker' /\ (pc'[q] \in {"mark", "write"} => claim'[q] = Mine(q)'.emails)
  BY <1>1, <1>2 DEF ClaimInv, Marked, Others, Mine
<1>8. ASSUME NEW a \in Account, NEW b \in Account, Open(a, b) PROVE Open(a, b)'
  BY <1>2, <1>5, <1>8 DEF Open
<1>9. \A a, b \in Account : Proving(a, b)' => Open(a, b)' \/ Open(b, a)'
  BY <1>1, <1>2, <1>8 DEF ClaimInv, Proving
<1>. QED BY <1>6, <1>7, <1>9 DEF ClaimInv, Marked

\* ClaimWrite keeps every claim's account.
LEMMA ClaimWriteClaim ==
    ASSUME Sound, ReadInv, ClaimInv, NEW p \in Proc, ClaimWrite(p)
    PROVE  ClaimInv'
<1>1. TypeOK /\ ClaimInv /\ on[p] \in Account
  BY DEF Sound, Role, ClaimWrite, At, ClaimPlaces, NarrowPlaces, AskPlaces, CheckPlaces, TypeOK, Kinds
<1>0. PICK x \in Account : x = on[p]
  BY <1>1
<1>2. /\ Others(p) /\ pc[p] = "write" /\ pc'[p] = "others" /\ Written(p, x, Mine(p))
      /\ UNCHANGED <<marker, cut, marks, kind, seen, todo, on, claim>>
  BY <1>0, <1>1, ClaimWriteDoes DEF local
<1>3. kind[p] = "claim" /\ MarkedBy(p) /\ claim[p] = Mine(p).emails
  BY <1>1, <1>2 DEF Sound, Role, ClaimInv, Marked
<1>4. /\ x \in marker \cup cut
      /\ \A q \in Proc \ {p} : on[q] = x =>
            /\ kind[q] = "claim" /\ pc[q] \in ClaimPlaces => x \in cut
            /\ Ending(q, x) => x \in cut
  BY <1>0, <1>2, <1>3 DEF MarkedBy, ClaimPlaces
<1>5. ASSUME NEW q \in Proc \ {p}, NEW a \in Account PROVE Ending(q, a)' = Ending(q, a)
  BY <1>2 DEF Ending, Others
<1>6. ASSUME NEW q \in Proc PROVE MarkedBy(q)'
  <2>1. CASE q = p
    BY <1>0, <1>1, <1>2, <1>4, <1>5, <2>1 DEF MarkedBy, Others
  <2>2. ASSUME q # p, kind[q] = "claim", pc[q] \in ClaimPlaces PROVE MarkedBy(q)'
    <3>1. on[q] \in Account /\ MarkedBy(q)
      BY <1>1, <2>2 DEF Sound, Role, ClaimInv, Marked
    <3>2. on[q] \in marker' \cup cut' /\ on'[q] = on[q]
      BY <1>2, <2>2, <3>1 DEF MarkedBy
    <3>3. ASSUME NEW r \in Proc \ {q}, on[r] = on[q]
          PROVE  /\ kind[r] = "claim" /\ pc'[r] \in ClaimPlaces => on[q] \in cut
                 /\ Ending(r, on[q])' => on[q] \in cut
      <4>1. CASE r = p
        BY <1>0, <1>4, <2>2, <3>3, <4>1
      <4>2. CASE r # p
        <5>1. pc'[r] = pc[r]
          BY <1>2, <4>2 DEF Others
        <5>2. Ending(r, on[q])' => Ending(r, on[q])
          BY <1>2, <4>2 DEF Ending, Others
        <5>. QED BY <2>2, <3>1, <3>3, <5>1, <5>2 DEF MarkedBy
      <4>. QED BY <4>1, <4>2
    <3>. QED BY <1>2, <3>2, <3>3 DEF MarkedBy
  <2>. QED BY <1>2, <2>1, <2>2 DEF MarkedBy, Others
<1>7. ASSUME NEW q \in Proc PROVE marks'[q] \subseteq marker' /\ (pc'[q] \in {"mark", "write"} => claim'[q] = Mine(q)'.emails)
  BY <1>1, <1>2 DEF ClaimInv, Marked, Others, Mine
<1>8. ASSUME NEW b \in Account PROVE Open(x, b)'
  <2>. SUFFICES ASSUME x \notin cut PROVE Open(x, b)'
    BY <1>2 DEF Open
  <2>1. \A q \in Proc \ {p} : ~Ending(q, x)'
    BY <1>2, <1>4 DEF Ending, Others
  <2>2. link'[x].emails \subseteq claim'[p] /\ x \in marker'
    BY <1>0, <1>2, <1>3, <1>4 DEF Written
  <2>. QED BY <1>2, <2>1, <2>2 DEF Open
<1>9. ASSUME NEW a \in Account, NEW b \in Account, a # x, b # x, Proving(a, b)' PROVE Open(a, b)' \/ Open(b, a)'
  <2>1. link'[a] = link[a] /\ link'[b] = link[b]
    BY <1>2, <1>9 DEF Written
  <2>2. Proving(a, b)
    BY <1>9, <2>1 DEF Proving, Active
  <2>3. ASSUME NEW c \in {a, b}, NEW d \in {a, b}, Open(c, d) PROVE Open(c, d)'
    <3>1. \A q \in Proc : Ending(q, c)' => q # p /\ Ending(q, c)
      BY <1>0, <1>2, <1>5, <1>9, <2>3 DEF Ending
    <3>2. \A q \in Proc \ {p} : pc'[q] = pc[q]
      BY <1>2 DEF Others
    <3>3. link'[c] = link[c]
      BY <2>1, <2>3
    <3>. QED BY <1>2, <2>3, <3>1, <3>2, <3>3 DEF Open
  <2>. QED BY <1>1, <2>2, <2>3 DEF ClaimInv
<1>10. \A a, b \in Account : Proving(a, b)' => Open(a, b)' \/ Open(b, a)'
  BY <1>1, <1>8, <1>9
<1>. QED BY <1>6, <1>7, <1>10 DEF ClaimInv, Marked

\* NarrowList keeps every claim's account.
LEMMA NarrowListClaim ==
    ASSUME Sound, ReadInv, ClaimInv, NEW p \in Proc, NarrowList(p)
    PROVE  ClaimInv'
<1>1. TypeOK /\ ClaimInv /\ on[p] \in Account
  BY DEF Sound, Role, NarrowList, At, ClaimPlaces, NarrowPlaces, AskPlaces, CheckPlaces, TypeOK, Kinds
<1>2. /\ Others(p) /\ pc[p] = "others" /\ pc'[p] = "narrow"
      /\ todo'[p] = {b \in Account \ {on[p]} : link[b].state # "none"}
      /\ UNCHANGED <<link, marker, cut, marks, kind, seen, on, claim>>
  BY <1>1, NarrowListDoes
<1>3. \A q \in Proc : /\ pc'[q] \in ClaimPlaces <=> pc[q] \in ClaimPlaces
                      /\ pc'[q] \in NarrowPlaces <=> pc[q] \in NarrowPlaces
  BY <1>2 DEF Others, ClaimPlaces, NarrowPlaces
<1>4. \A q \in Proc : \A a \in Account : Ending(q, a)' <=> Ending(q, a)
  BY <1>2, <1>3 DEF Ending
<1>5. ASSUME NEW q \in Proc PROVE MarkedBy(q)'
  <2>1. on[q] \in Account \/ ~(kind[q] = "claim" /\ pc[q] \in ClaimPlaces)
    BY <1>1 DEF Sound, Role
  <2>. QED BY <1>1, <1>2, <1>3, <1>4, <2>1 DEF ClaimInv, Marked, MarkedBy
<1>6. ASSUME NEW q \in Proc PROVE marks'[q] \subseteq marker' /\ (pc'[q] \in {"mark", "write"} => claim'[q] = Mine(q)'.emails)
  BY <1>1, <1>2 DEF ClaimInv, Marked, Others, Mine
<1>7. ASSUME NEW a \in Account, NEW b \in Account, Proving(a, b), Open(a, b) PROVE Open(a, b)'
  <2>1. a # b /\ link[b].state = "linked"
    BY <1>7 DEF Proving, Active
  <2>2. on[p] = a => b \in todo'[p]
    BY <1>2, <2>1
  <2>3. \A q \in Proc \ {p} : pc'[q] = pc[q] /\ todo'[q] = todo[q]
    BY <1>2 DEF Others
  <2>. QED BY <1>2, <1>4, <1>7, <2>2, <2>3 DEF Open, Ending
<1>8. \A a, b \in Account : Proving(a, b)' => Open(a, b)' \/ Open(b, a)'
  BY <1>1, <1>2, <1>7, ProvingBoth DEF ClaimInv, Proving
<1>. QED BY <1>5, <1>6, <1>8 DEF ClaimInv, Marked

\* Narrow keeps every claim's account.
LEMMA NarrowClaim ==
    ASSUME Sound, ReadInv, ClaimInv, NEW p \in Proc, Narrow(p)
    PROVE  ClaimInv'
<1>1. TypeOK /\ ClaimInv /\ on[p] \in Account
  BY DEF Sound, Role, Narrow, At, ClaimPlaces, NarrowPlaces, AskPlaces, CheckPlaces, TypeOK, Kinds
<1>2. /\ Others(p) /\ pc[p] = "narrow" /\ pc'[p] \in {"narrow", "unmark"}
      /\ UNCHANGED <<marker, cut, marks, kind, seen, on, claim>>
  BY <1>1, NarrowDoes
<1>3. \A q \in Proc : /\ pc'[q] \in ClaimPlaces <=> pc[q] \in ClaimPlaces
                      /\ pc'[q] \in NarrowPlaces <=> pc[q] \in NarrowPlaces
  BY <1>2 DEF Others, ClaimPlaces, NarrowPlaces
<1>4. \A q \in Proc : \A a \in Account : Ending(q, a)' <=> Ending(q, a)
  BY <1>2, <1>3 DEF Ending
<1>5. ASSUME NEW q \in Proc PROVE MarkedBy(q)'
  <2>1. on[q] \in Account \/ ~(kind[q] = "claim" /\ pc[q] \in ClaimPlaces)
    BY <1>1 DEF Sound, Role
  <2>. QED BY <1>1, <1>2, <1>3, <1>4, <2>1 DEF ClaimInv, Marked, MarkedBy
<1>6. ASSUME NEW q \in Proc PROVE marks'[q] \subseteq marker' /\ (pc'[q] \in {"mark", "write"} => claim'[q] = Mine(q)'.emails)
  BY <1>1, <1>2 DEF ClaimInv, Marked, Others, Mine
<1>7. Weaker
  BY <1>1, LessWrites, WeakerOf
<1>8. ASSUME NEW a \in Account, NEW b \in Account, Proving(a, b)', Open(a, b), Ending(p, a), a \notin cut
      PROVE  pc'[p] = "narrow" /\ b \in todo'[p]
  <2>1. link[a].emails \subseteq claim[p] /\ b \in todo[p]
    BY <1>2, <1>8 DEF Open
  <2>2. PICK c \in todo[p] : /\ todo'[p] = todo[p] \ {c} /\ UNCHANGED pc
                             /\ \/ Narrowed(link[c], claim[p]) = link[c] /\ UNCHANGED <<link, cur>>
                                \/ Written(p, c, Narrowed(link[c], claim[p]))
    BY <1>1, <2>1, NarrowDoes
  <2>3. link'[c] = Narrowed(link[c], claim[p])
    BY <2>2 DEF Written
  <2>4. link[c] \in Link /\ claim[p] \in SUBSET Email
    BY <1>1 DEF TypeOK
  <2>5. link'[c].state = "linked" => link'[c].emails \cap claim[p] = {}
    BY <2>3, <2>4, NarrowedFields
  <2>6. link'[b].state = "linked" /\ link'[a].emails \cap link'[b].emails # {} /\ link'[a].emails \subseteq link[a].emails
    BY <1>7, <1>8 DEF Proving, Active, Weaker
  <2>7. b # c
    BY <2>1, <2>5, <2>6
  <2>. QED BY <1>2, <2>1, <2>2, <2>7
<1>9. ASSUME NEW a \in Account, NEW b \in Account, Proving(a, b)', Open(a, b) PROVE Open(a, b)'
  <2>1. link'[a].emails \subseteq link[a].emails
    BY <1>7, <1>9 DEF Weaker, Proving
  <2>2. \A q \in Proc \ {p} : pc'[q] = pc[q] /\ todo'[q] = todo[q]
    BY <1>2 DEF Others
  <2>. QED BY <1>2, <1>4, <1>8, <1>9, <2>1, <2>2 DEF Open
<1>10. \A a, b \in Account : Proving(a, b)' => Open(a, b)' \/ Open(b, a)'
  BY <1>1, <1>7, <1>9, ProvingBefore, ProvingBoth DEF ClaimInv
<1>. QED BY <1>5, <1>6, <1>10 DEF ClaimInv, Marked

\* Unmark keeps every claim's account.
LEMMA UnmarkClaim ==
    ASSUME Sound, ReadInv, ClaimInv, NEW p \in Proc, Unmark(p)
    PROVE  ClaimInv'
<1>1. TypeOK /\ ClaimInv /\ on[p] \in Account
  BY DEF Sound, Role, Unmark, At, ClaimPlaces, NarrowPlaces, AskPlaces, CheckPlaces, TypeOK, Kinds
<1>. DEFINE x == on[p]
            gone == IF kind[p] = "claim" THEN {x} ELSE {x} \cap marks[p]
<1>2. /\ Others(p) /\ pc[p] = "unmark" /\ pc'[p] \notin ClaimPlaces \cup {"mark"}
      /\ marker' = marker \ gone /\ UNCHANGED <<link, cut>>
      /\ \A q \in Proc : marks'[q] = marks[q] \ {x}
  BY <1>1, UnmarkDoes DEF Ended, ClaimPlaces
<1>3. x \in gone => Ending(p, x)
  BY <1>2 DEF Ending, NarrowPlaces
<1>4. ASSUME NEW q \in Proc, NEW a \in Account, Ending(q, a)' PROVE q # p /\ Ending(q, a)
  BY <1>2, <1>4 DEF Ending, Others, NarrowPlaces, ClaimPlaces
<1>5. ASSUME NEW q \in Proc \ {p}, kind[q] = "claim", pc[q] \in ClaimPlaces
      PROVE  MarkedBy(q)'
  <2>1. on[q] \in Account /\ MarkedBy(q) /\ on'[q] = on[q]
    BY <1>1, <1>2, <1>5 DEF Sound, Role, ClaimInv, Marked, Others
  <2>2. on[q] \in marker' \cup cut
    BY <1>2, <1>3, <1>5, <2>1 DEF MarkedBy
  <2>3. ASSUME NEW r \in Proc \ {q}, on'[r] = on[q]
        PROVE  /\ kind'[r] = "claim" /\ pc'[r] \in ClaimPlaces => on[q] \in cut
               /\ Ending(r, on[q])' => on[q] \in cut
    <3>1. CASE r = p
      BY <1>2, <1>4, <2>1, <3>1
    <3>2. CASE r # p
      <4>1. kind'[r] = kind[r] /\ pc'[r] = pc[r] /\ on'[r] = on[r]
        BY <1>2, <3>2 DEF Others
      <4>. QED BY <1>4, <1>5, <2>1, <2>3, <4>1 DEF MarkedBy
    <3>. QED BY <3>1, <3>2
  <2>. QED BY <1>2, <2>1, <2>2, <2>3 DEF MarkedBy
<1>6. ASSUME NEW q \in Proc PROVE MarkedBy(q)'
  BY <1>2, <1>5 DEF MarkedBy, Others
<1>7. ASSUME NEW q \in Proc PROVE marks'[q] \subseteq marker' /\ (pc'[q] \in {"mark", "write"} => claim'[q] = Mine(q)'.emails)
  BY <1>1, <1>2 DEF ClaimInv, Marked, Others, Mine, ClaimPlaces
<1>8. ASSUME NEW a \in Account, NEW b \in Account, Open(a, b) PROVE Open(a, b)'
  <2>1. a \in cut \/ a \in marker'
    BY <1>2, <1>3, <1>8 DEF Open
  <2>2. \A q \in Proc \ {p} : pc'[q] = pc[q] /\ todo'[q] = todo[q] /\ claim'[q] = claim[q]
    BY <1>2 DEF Others
  <2>. QED BY <1>2, <1>4, <1>8, <2>1, <2>2 DEF Open
<1>9. \A a, b \in Account : Proving(a, b)' => Open(a, b)' \/ Open(b, a)'
  BY <1>1, <1>2, <1>8 DEF ClaimInv, Proving
<1>. QED BY <1>6, <1>7, <1>9 DEF ClaimInv, Marked

\* Markers keeps every claim's account.
LEMMA MarkersClaim ==
    ASSUME Sound, ReadInv, ClaimInv, NEW p \in Proc, Markers(p)
    PROVE  ClaimInv'
<1>1. TypeOK /\ ClaimInv
  BY DEF Sound, Role, Markers, At, ClaimPlaces, NarrowPlaces, AskPlaces, CheckPlaces, TypeOK, Kinds
<1>2. /\ Others(p) /\ UNCHANGED <<link, marker, cut>> /\ pc'[p] = "finish" /\ marks'[p] = marker
      /\ \A q \in Proc \ {p} : marks'[q] = marks[q]
  BY <1>1, MarkersDoes
<1>3. Weaker
  BY <1>1, <1>2, LessSame, WeakerOf
<1>. QED BY <1>1, <1>2, <1>3, ClaimFrame DEF ClaimPlaces

\* FinishClaims keeps every claim's account.
LEMMA FinishClaimsClaim ==
    ASSUME Sound, ReadInv, ClaimInv, NEW p \in Proc, FinishClaims(p)
    PROVE  ClaimInv'
<1>1. TypeOK /\ ClaimInv
  BY DEF Sound, Role, FinishClaims, At, ClaimPlaces, NarrowPlaces, AskPlaces, CheckPlaces, TypeOK, Kinds
<1>2. Others(p) /\ pc[p] = "finish" /\ UNCHANGED <<link, marker, kind, seen, todo, marks>>
  BY <1>1, FinishClaimsDoes
<1>3. CASE pc'[p] = "list" /\ UNCHANGED cut
  <2>1. Weaker /\ marks[p] \subseteq marker
    BY <1>1, <1>2, LessSame, WeakerOf DEF ClaimInv, Marked
  <2>. QED BY <1>1, <1>2, <1>3, <2>1, ClaimFrame DEF ClaimPlaces
<1>4. ASSUME NEW x \in changed[p], on'[p] = x, claim'[p] = link[x].emails, cut' = cut \cup Claimed(p, x),
             pc'[p] = IF link[x].state = "linked" THEN "others" ELSE "unmark"
      PROVE  ClaimInv'
  <2>1. kind[p] # "claim" /\ x \in Account
    BY <1>1, <1>2 DEF Sound, Role, TypeOK, ClaimPlaces
  <2>2. ASSUME NEW q \in Proc \ {p} PROVE /\ pc'[q] = pc[q] /\ on'[q] = on[q] /\ claim'[q] = claim[q]
                                          /\ \A a \in Account : Ending(q, a)' <=> Ending(q, a)
    BY <1>2 DEF Others, Ending
  <2>3. ASSUME NEW q \in Proc \ {p}, kind[q] = "claim", pc[q] \in ClaimPlaces, on[q] = x PROVE x \in cut'
    BY <1>4, <2>3 DEF Claimed, At, ClaimPlaces
  <2>4. ASSUME NEW q \in Proc PROVE MarkedBy(q)'
    <3>. SUFFICES ASSUME q # p, kind[q] = "claim", pc[q] \in ClaimPlaces PROVE MarkedBy(q)'
      BY <1>2, <2>1, <2>2 DEF MarkedBy
    <3>1. on[q] \in Account /\ MarkedBy(q) /\ on'[q] = on[q] /\ on[q] \in marker' \cup cut'
      BY <1>1, <1>2, <1>4, <2>2 DEF Sound, Role, ClaimInv, Marked, MarkedBy
    <3>2. ASSUME NEW r \in Proc \ {q}, on'[r] = on[q]
          PROVE  /\ kind'[r] = "claim" /\ pc'[r] \in ClaimPlaces => on[q] \in cut'
                 /\ Ending(r, on[q])' => on[q] \in cut'
      <4>1. CASE r = p
        BY <1>4, <2>3, <3>2, <4>1
      <4>2. CASE r # p
        BY <1>2, <1>4, <2>2, <3>1, <3>2, <4>2 DEF MarkedBy
      <4>. QED BY <4>1, <4>2
    <3>. QED BY <3>1, <3>2 DEF MarkedBy
  <2>5. ASSUME NEW q \in Proc PROVE marks'[q] \subseteq marker' /\ (pc'[q] \in {"mark", "write"} => claim'[q] = Mine(q)'.emails)
    BY <1>1, <1>2, <1>4, <2>2 DEF ClaimInv, Marked, Mine
  <2>6. ASSUME NEW a \in Account, NEW b \in Account, Proving(a, b), Open(a, b) PROVE Open(a, b)'
    <3>1. Ending(p, a)' => link'[a].emails \subseteq claim'[p] /\ pc'[p] = "others"
      BY <1>2, <1>4, <2>6 DEF Ending, Proving, Active
    <3>. QED BY <1>2, <1>4, <2>2, <2>6, <3>1 DEF Open
  <2>7. \A a, b \in Account : Proving(a, b)' => Open(a, b)' \/ Open(b, a)'
    BY <1>1, <1>2, <2>6, ProvingBoth DEF ClaimInv, Proving
  <2>. QED BY <2>4, <2>5, <2>7 DEF ClaimInv, Marked
<1>. QED BY <1>1, <1>3, <1>4, FinishClaimsDoes

\* List keeps every claim's account.
LEMMA ListClaim ==
    ASSUME Sound, ReadInv, ClaimInv, NEW p \in Proc, List(p)
    PROVE  ClaimInv'
<1>1. TypeOK /\ ClaimInv /\ kind[p] \in {"check", "adopt", "disconnect"}
  BY DEF Sound, Role, List, At, ClaimPlaces, NarrowPlaces, AskPlaces, CheckPlaces, TypeOK, Kinds
<1>2. Others(p) /\ UNCHANGED <<link, marker, cut, marks>> /\ pc'[p] \notin ClaimPlaces \cup {"mark"}
  BY <1>1, ListDoes DEF ClaimPlaces, NarrowPlaces, AskPlaces, CheckPlaces, Ended
<1>3. Weaker /\ marks[p] \subseteq marker
  BY <1>1, <1>2, LessSame, WeakerOf DEF ClaimInv, Marked
<1>. QED BY <1>1, <1>2, <1>3, ClaimFrame

\* Start keeps every claim's account.
LEMMA StartClaim ==
    ASSUME Sound, ReadInv, ClaimInv, NEW p \in Proc, NEW operation \in {"check", "adopt", "disconnect"}, Start(p, operation)
    PROVE  ClaimInv'
<1>1. TypeOK /\ ClaimInv
  BY DEF Sound, Role, Start, At, ClaimPlaces, NarrowPlaces, AskPlaces, CheckPlaces, TypeOK, Kinds
<1>2. Others(p) /\ UNCHANGED <<link, marker, cut, marks>> /\ pc'[p] \notin ClaimPlaces \cup {"mark"}
  BY <1>1, StartDoes DEF ClaimPlaces, NarrowPlaces, AskPlaces, CheckPlaces, Ended
<1>3. Weaker /\ marks[p] \subseteq marker
  BY <1>1, <1>2, LessSame, WeakerOf DEF ClaimInv, Marked
<1>. QED BY <1>1, <1>2, <1>3, ClaimFrame

\* LinkCredential keeps every claim's account.
LEMMA LinkCredentialClaim ==
    ASSUME Sound, ReadInv, ClaimInv, NEW p \in Proc, LinkCredential(p)
    PROVE  ClaimInv'
<1>1. TypeOK /\ ClaimInv
  BY DEF Sound, Role, LinkCredential, At, ClaimPlaces, NarrowPlaces, AskPlaces, CheckPlaces, TypeOK, Kinds
<1>2. Others(p) /\ UNCHANGED <<link, marker, cut, marks>> /\ pc'[p] \notin ClaimPlaces \cup {"mark"}
  BY <1>1, LinkCredentialDoes DEF ClaimPlaces, NarrowPlaces, AskPlaces, CheckPlaces, Ended
<1>3. Weaker /\ marks[p] \subseteq marker
  BY <1>1, <1>2, LessSame, WeakerOf DEF ClaimInv, Marked
<1>. QED BY <1>1, <1>2, <1>3, ClaimFrame

\* CheckNext keeps every claim's account.
LEMMA CheckNextClaim ==
    ASSUME Sound, ReadInv, ClaimInv, NEW p \in Proc, CheckNext(p)
    PROVE  ClaimInv'
<1>1. TypeOK /\ ClaimInv
  BY DEF Sound, Role, CheckNext, At, ClaimPlaces, NarrowPlaces, AskPlaces, CheckPlaces, TypeOK, Kinds
<1>2. Others(p) /\ UNCHANGED <<link, marker, cut, marks>> /\ pc'[p] \notin ClaimPlaces \cup {"mark"}
  BY <1>1, CheckNextDoes DEF ClaimPlaces, NarrowPlaces, AskPlaces, CheckPlaces, Ended
<1>3. Weaker /\ marks[p] \subseteq marker
  BY <1>1, <1>2, LessSame, WeakerOf DEF ClaimInv, Marked
<1>. QED BY <1>1, <1>2, <1>3, ClaimFrame

\* CheckApp keeps every claim's account.
LEMMA CheckAppClaim ==
    ASSUME Sound, ReadInv, ClaimInv, NEW p \in Proc, CheckApp(p)
    PROVE  ClaimInv'
<1>1. TypeOK /\ ClaimInv /\ on[p] \in Account
  BY DEF Sound, Role, CheckApp, At, ClaimPlaces, NarrowPlaces, AskPlaces, CheckPlaces, TypeOK, Kinds
<1>2. Others(p) /\ UNCHANGED <<link, marker, cut, marks>> /\ pc'[p] \notin ClaimPlaces \cup {"mark"}
  BY <1>1, CheckAppDoes DEF ClaimPlaces, NarrowPlaces, AskPlaces, CheckPlaces, Ended
<1>3. Weaker /\ marks[p] \subseteq marker
  BY <1>1, <1>2, LessSame, WeakerOf DEF ClaimInv, Marked
<1>. QED BY <1>1, <1>2, <1>3, ClaimFrame

\* Probe keeps every claim's account.
LEMMA ProbeClaim ==
    ASSUME Sound, ReadInv, ClaimInv, NEW p \in Proc, Probe(p)
    PROVE  ClaimInv'
<1>1. TypeOK /\ ClaimInv /\ on[p] \in Account
  BY DEF Sound, Role, Probe, At, ClaimPlaces, NarrowPlaces, AskPlaces, CheckPlaces, TypeOK, Kinds
<1>2. Others(p) /\ UNCHANGED <<link, marker, cut, marks>> /\ pc'[p] \notin ClaimPlaces \cup {"mark"}
  BY <1>1, ProbeDoes DEF ClaimPlaces, NarrowPlaces, AskPlaces, CheckPlaces, Ended
<1>3. Weaker /\ marks[p] \subseteq marker
  BY <1>1, <1>2, LessSame, WeakerOf DEF ClaimInv, Marked
<1>. QED BY <1>1, <1>2, <1>3, ClaimFrame

\* RefreshDue keeps every claim's account.
LEMMA RefreshDueClaim ==
    ASSUME Sound, ReadInv, ClaimInv, NEW p \in Proc, RefreshDue(p)
    PROVE  ClaimInv'
<1>1. TypeOK /\ ClaimInv /\ on[p] \in Account
  BY DEF Sound, Role, RefreshDue, At, ClaimPlaces, NarrowPlaces, AskPlaces, CheckPlaces, TypeOK, Kinds
<1>2. Others(p) /\ UNCHANGED <<link, marker, cut, marks>> /\ pc'[p] \notin ClaimPlaces \cup {"mark"}
  BY <1>1, RefreshDueDoes DEF ClaimPlaces, NarrowPlaces, AskPlaces, CheckPlaces, Ended
<1>3. Weaker /\ marks[p] \subseteq marker
  BY <1>1, <1>2, LessSame, WeakerOf DEF ClaimInv, Marked
<1>. QED BY <1>1, <1>2, <1>3, ClaimFrame

\* ClaimRefresh keeps every claim's account.
LEMMA ClaimRefreshClaim ==
    ASSUME Sound, ReadInv, ClaimInv, NEW p \in Proc, ClaimRefresh(p)
    PROVE  ClaimInv'
<1>1. TypeOK /\ ClaimInv /\ on[p] \in Account
  BY DEF Sound, Role, ClaimRefresh, At, ClaimPlaces, NarrowPlaces, AskPlaces, CheckPlaces, TypeOK, Kinds
<1>2. Others(p) /\ UNCHANGED <<marker, cut, marks>> /\ pc'[p] \notin ClaimPlaces \cup {"mark"}
  BY <1>1, ClaimRefreshDoes DEF ClaimPlaces, NarrowPlaces, AskPlaces, CheckPlaces, Ended
<1>3. Weaker /\ marks[p] \subseteq marker
  BY <1>1, LessWrites, WeakerOf DEF ClaimInv, Marked
<1>. QED BY <1>1, <1>2, <1>3, ClaimFrame

\* RefreshedElsewhere keeps every claim's account.
LEMMA RefreshedElsewhereClaim ==
    ASSUME Sound, ReadInv, ClaimInv, NEW p \in Proc, RefreshedElsewhere(p)
    PROVE  ClaimInv'
<1>1. TypeOK /\ ClaimInv /\ on[p] \in Account
  BY DEF Sound, Role, RefreshedElsewhere, At, ClaimPlaces, NarrowPlaces, AskPlaces, CheckPlaces, TypeOK, Kinds
<1>2. Others(p) /\ UNCHANGED <<link, marker, cut, marks>> /\ pc'[p] \notin ClaimPlaces \cup {"mark"}
  BY <1>1, RefreshedElsewhereDoes DEF ClaimPlaces, NarrowPlaces, AskPlaces, CheckPlaces, Ended
<1>3. Weaker /\ marks[p] \subseteq marker
  BY <1>1, <1>2, LessSame, WeakerOf DEF ClaimInv, Marked
<1>. QED BY <1>1, <1>2, <1>3, ClaimFrame

\* RefreshUserTokens keeps every claim's account.
LEMMA RefreshUserTokensClaim ==
    ASSUME Sound, ReadInv, ClaimInv, NEW p \in Proc, RefreshUserTokens(p)
    PROVE  ClaimInv'
<1>1. TypeOK /\ ClaimInv /\ on[p] \in Account
  BY DEF Sound, Role, RefreshUserTokens, At, ClaimPlaces, NarrowPlaces, AskPlaces, CheckPlaces, TypeOK, Kinds
<1>2. Others(p) /\ UNCHANGED <<link, marker, cut, marks>> /\ pc'[p] \notin ClaimPlaces \cup {"mark"}
  BY <1>1, RefreshUserTokensDoes DEF ClaimPlaces, NarrowPlaces, AskPlaces, CheckPlaces, Ended
<1>3. Weaker /\ marks[p] \subseteq marker
  BY <1>1, <1>2, LessSame, WeakerOf DEF ClaimInv, Marked
<1>. QED BY <1>1, <1>2, <1>3, ClaimFrame

\* RefreshRefused keeps every claim's account.
LEMMA RefreshRefusedClaim ==
    ASSUME Sound, ReadInv, ClaimInv, NEW p \in Proc, RefreshRefused(p)
    PROVE  ClaimInv'
<1>1. TypeOK /\ ClaimInv /\ on[p] \in Account
  BY DEF Sound, Role, RefreshRefused, At, ClaimPlaces, NarrowPlaces, AskPlaces, CheckPlaces, TypeOK, Kinds
<1>2. Others(p) /\ UNCHANGED <<link, marker, cut, marks>> /\ pc'[p] \notin ClaimPlaces \cup {"mark"}
  BY <1>1, RefreshRefusedDoes DEF ClaimPlaces, NarrowPlaces, AskPlaces, CheckPlaces, Ended
<1>3. Weaker /\ marks[p] \subseteq marker
  BY <1>1, <1>2, LessSame, WeakerOf DEF ClaimInv, Marked
<1>. QED BY <1>1, <1>2, <1>3, ClaimFrame

\* KeepPair keeps every claim's account.
LEMMA KeepPairClaim ==
    ASSUME Sound, ReadInv, ClaimInv, NEW p \in Proc, KeepPair(p)
    PROVE  ClaimInv'
<1>1. TypeOK /\ ClaimInv /\ on[p] \in Account
  BY DEF Sound, Role, KeepPair, At, ClaimPlaces, NarrowPlaces, AskPlaces, CheckPlaces, TypeOK, Kinds
<1>2. Others(p) /\ UNCHANGED <<marker, cut, marks>> /\ pc'[p] \notin ClaimPlaces \cup {"mark"}
  BY <1>1, KeepPairDoes DEF ClaimPlaces, NarrowPlaces, AskPlaces, CheckPlaces, Ended
<1>3. Weaker /\ marks[p] \subseteq marker
  BY <1>1, LessWrites, WeakerOf DEF ClaimInv, Marked
<1>. QED BY <1>1, <1>2, <1>3, ClaimFrame

\* CheckUser keeps every claim's account.
LEMMA CheckUserClaim ==
    ASSUME Sound, ReadInv, ClaimInv, NEW p \in Proc, CheckUser(p)
    PROVE  ClaimInv'
<1>1. TypeOK /\ ClaimInv /\ on[p] \in Account
  BY DEF Sound, Role, CheckUser, At, ClaimPlaces, NarrowPlaces, AskPlaces, CheckPlaces, TypeOK, Kinds
<1>2. Others(p) /\ UNCHANGED <<link, marker, cut, marks>> /\ pc'[p] \notin ClaimPlaces \cup {"mark"}
  BY <1>1, CheckUserDoes DEF ClaimPlaces, NarrowPlaces, AskPlaces, CheckPlaces, Ended
<1>3. Weaker /\ marks[p] \subseteq marker
  BY <1>1, <1>2, LessSame, WeakerOf DEF ClaimInv, Marked
<1>. QED BY <1>1, <1>2, <1>3, ClaimFrame

\* CheckFails keeps every claim's account.
LEMMA CheckFailsClaim ==
    ASSUME Sound, ReadInv, ClaimInv, NEW p \in Proc, CheckFails(p)
    PROVE  ClaimInv'
<1>1. TypeOK /\ ClaimInv
  BY DEF Sound, Role, CheckFails, At, ClaimPlaces, NarrowPlaces, AskPlaces, CheckPlaces, TypeOK, Kinds
<1>2. Others(p) /\ UNCHANGED <<link, marker, cut, marks>> /\ pc'[p] \notin ClaimPlaces \cup {"mark"}
  BY <1>1, CheckFailsDoes DEF ClaimPlaces, NarrowPlaces, AskPlaces, CheckPlaces, Ended
<1>3. Weaker /\ marks[p] \subseteq marker
  BY <1>1, <1>2, LessSame, WeakerOf DEF ClaimInv, Marked
<1>. QED BY <1>1, <1>2, <1>3, ClaimFrame

\* UpdateChanged keeps every claim's account.
LEMMA UpdateChangedClaim ==
    ASSUME Sound, ReadInv, ClaimInv, NEW p \in Proc, UpdateChanged(p)
    PROVE  ClaimInv'
<1>1. TypeOK /\ ClaimInv
  BY DEF Sound, Role, UpdateChanged, At, ClaimPlaces, NarrowPlaces, AskPlaces, CheckPlaces, TypeOK, Kinds
<1>2. Others(p) /\ UNCHANGED <<marker, cut, marks>> /\ pc'[p] \notin ClaimPlaces \cup {"mark"}
  BY <1>1, UpdateChangedDoes DEF ClaimPlaces, NarrowPlaces, AskPlaces, CheckPlaces, Ended
<1>3. Weaker /\ marks[p] \subseteq marker
  BY <1>1, LessWrites, WeakerOf DEF ClaimInv, Marked
<1>. QED BY <1>1, <1>2, <1>3, ClaimFrame

\* AdoptPick keeps every claim's account.
LEMMA AdoptPickClaim ==
    ASSUME Sound, ReadInv, ClaimInv, NEW p \in Proc, AdoptPick(p)
    PROVE  ClaimInv'
<1>1. TypeOK /\ ClaimInv
  BY DEF Sound, Role, AdoptPick, At, ClaimPlaces, NarrowPlaces, AskPlaces, CheckPlaces, TypeOK, Kinds
<1>2. Others(p) /\ UNCHANGED <<link, marker, cut, marks>> /\ pc'[p] \notin ClaimPlaces \cup {"mark"}
  BY <1>1, AdoptPickDoes DEF ClaimPlaces, NarrowPlaces, AskPlaces, CheckPlaces, Ended
<1>3. Weaker /\ marks[p] \subseteq marker
  BY <1>1, <1>2, LessSame, WeakerOf DEF ClaimInv, Marked
<1>. QED BY <1>1, <1>2, <1>3, ClaimFrame

\* AdoptWrite keeps every claim's account.
LEMMA AdoptWriteClaim ==
    ASSUME Sound, ReadInv, ClaimInv, NEW p \in Proc, AdoptWrite(p)
    PROVE  ClaimInv'
<1>1. TypeOK /\ ClaimInv /\ on[p] \in Account
  BY DEF Sound, Role, AdoptWrite, At, ClaimPlaces, NarrowPlaces, AskPlaces, CheckPlaces, TypeOK, Kinds
<1>. DEFINE k == [NoLink EXCEPT !.state = "linked", !.emails = claim[p]]
<1>2. /\ Others(p) /\ UNCHANGED <<marker, cut, marks>> /\ pc'[p] = "idle"
      /\ UNCHANGED link \/ Written(p, on[p], k)
  BY <1>1, AdoptWriteDoes DEF Ended
<1>3. ~k.self
  BY <1>1, NewFields DEF TypeOK
<1>4. Weaker
  BY <1>1, <1>2, <1>3 DEF Weaker, Written
<1>5. marks[p] \subseteq marker
  BY <1>1 DEF ClaimInv, Marked
<1>. QED BY <1>1, <1>2, <1>4, <1>5, ClaimFrame DEF ClaimPlaces

\* Invalidate keeps every claim's account.
LEMMA InvalidateClaim ==
    ASSUME Sound, ReadInv, ClaimInv, NEW p \in Proc, Invalidate(p)
    PROVE  ClaimInv'
<1>1. TypeOK /\ ClaimInv
  BY DEF Sound, Role, Invalidate, At, ClaimPlaces, NarrowPlaces, AskPlaces, CheckPlaces, TypeOK, Kinds
<1>2. Others(p) /\ UNCHANGED <<marker, cut, marks>> /\ pc'[p] \notin ClaimPlaces \cup {"mark"}
  BY <1>1, InvalidateDoes DEF ClaimPlaces, NarrowPlaces, AskPlaces, CheckPlaces, Ended
<1>3. Weaker /\ marks[p] \subseteq marker
  BY <1>1, LessWrites, WeakerOf DEF ClaimInv, Marked
<1>. QED BY <1>1, <1>2, <1>3, ClaimFrame

\* DeleteLinkApp keeps every claim's account.
LEMMA DeleteLinkAppClaim ==
    ASSUME Sound, ReadInv, ClaimInv, NEW p \in Proc, DeleteLinkApp(p)
    PROVE  ClaimInv'
<1>1. TypeOK /\ ClaimInv
  BY DEF Sound, Role, DeleteLinkApp, At, ClaimPlaces, NarrowPlaces, AskPlaces, CheckPlaces, TypeOK, Kinds
<1>2. Others(p) /\ UNCHANGED <<link, marker, cut, marks>> /\ pc'[p] \notin ClaimPlaces \cup {"mark"}
  BY <1>1, DeleteLinkAppDoes DEF ClaimPlaces, NarrowPlaces, AskPlaces, CheckPlaces, Ended
<1>3. Weaker /\ marks[p] \subseteq marker
  BY <1>1, <1>2, LessSame, WeakerOf DEF ClaimInv, Marked
<1>. QED BY <1>1, <1>2, <1>3, ClaimFrame

\* Crash keeps every claim's account.
LEMMA CrashClaim ==
    ASSUME Sound, ReadInv, ClaimInv, NEW p \in Proc, Crash(p)
    PROVE  ClaimInv'
<1>1. TypeOK /\ ClaimInv
  BY DEF Sound, Role, Crash, At, ClaimPlaces, NarrowPlaces, AskPlaces, CheckPlaces, TypeOK, Kinds
<1>2. Others(p) /\ UNCHANGED <<link, marker, cut, marks>> /\ pc'[p] \notin ClaimPlaces \cup {"mark"}
  BY <1>1, CrashDoes DEF ClaimPlaces, NarrowPlaces, AskPlaces, CheckPlaces, Ended
<1>3. Weaker /\ marks[p] \subseteq marker
  BY <1>1, <1>2, LessSame, WeakerOf DEF ClaimInv, Marked
<1>. QED BY <1>1, <1>2, <1>3, ClaimFrame

\* Every step keeps every claim's account.
LEMMA ClaimNext == ASSUME Sound, ReadInv, ClaimInv, [Next]_vars PROVE ClaimInv'
<1>1. CASE UNCHANGED vars
  BY <1>1 DEF ClaimInv, Marked, MarkedBy, Ending, Mine, Proving, Active, Open, vars, local
<1>2. CASE \/ \E a \in Account : Revoke(a) \/ \E emails \in SUBSET Email : Verify(a, emails)
           \/ \E new \in App : PutLinkApp(new)
  BY <1>2, WorldDoes DEF Sound, ClaimInv, Marked, MarkedBy, Ending, Mine, Proving, Active, Open, local
<1>3. ASSUME NEW p \in Proc, ClaimStep(p) PROVE ClaimInv'
  BY <1>3, LinkCallbackClaim, LinkableAddressesClaim, PutMarkerClaim, ClaimWriteClaim, NarrowListClaim, NarrowClaim, UnmarkClaim DEF ClaimStep
<1>4. ASSUME NEW p \in Proc, ListStep(p) PROVE ClaimInv'
  BY <1>4, StartClaim, MarkersClaim, FinishClaimsClaim, ListClaim DEF ListStep
<1>5. ASSUME NEW p \in Proc, CheckStep(p) PROVE ClaimInv'
  BY <1>5, LinkCredentialClaim, CheckNextClaim, CheckAppClaim, ProbeClaim, RefreshDueClaim, ClaimRefreshClaim, RefreshedElsewhereClaim, RefreshUserTokensClaim, RefreshRefusedClaim, KeepPairClaim, CheckUserClaim, CheckFailsClaim, UpdateChangedClaim DEF CheckStep
<1>6. ASSUME NEW p \in Proc, AdoptPick(p) \/ AdoptWrite(p) \/ Invalidate(p) \/ DeleteLinkApp(p) \/ Crash(p)
      PROVE  ClaimInv'
  BY <1>6, AdoptPickClaim, AdoptWriteClaim, InvalidateClaim, DeleteLinkAppClaim, CrashClaim
<1>. QED BY <1>1, <1>2, <1>3, <1>4, <1>5, <1>6 DEF Next

\* Every claim's account, always.
LEMMA ClaimAlways == Spec => []ClaimInv
<1>1. Init => ClaimInv
  <2>1. ASSUME Init PROVE Marked
    BY <2>1 DEF Init, Marked, MarkedBy
  <2>2. ASSUME Init, NEW a \in Account, NEW b \in Account PROVE ~Proving(a, b)
    BY <2>2, NewFields DEF Init, Proving, Active
  <2>. QED BY <2>1, <2>2 DEF ClaimInv
<1>2. Sound /\ ReadInv /\ ClaimInv /\ [Next]_vars => ClaimInv'
  BY ClaimNext
<1>. QED BY <1>1, <1>2, ReadAlways, PTL DEF Spec

\* Two accounts people linked prove one address only while the marker of a claim
\* is there for the claim, or for the next reader, to finish it (Claim, narrow,
\* finishClaims): whichever processes die, and wherever.
THEOREM ClaimsFinishHolds == Spec => []ClaimsFinish
<1>1. ClaimInv => ClaimsFinish
  BY DEF ClaimInv, ClaimsFinish, Open
<1>. QED BY <1>1, ClaimAlways, PTL


-----------------------------------------------------------------------------
(* A link is lost on its person's word.                                    *)

\* What a step may do to the pairs it does not own: GitHub forgets none but the
\* one a check exchanges, no history becomes untrue, and a link's pair is what it
\* was, none, or what the process that wrote it had.
PairsKept(p) ==
    \A a \in Account, x \in Pair \cup {None} :
        Known(a, x) /\ (kind[p] = "check" => x # seen[p][a].pair) => Known(a, x)'

WasKept ==
    \A a \in Account : \A x \in revoked[a] :
        x \in revoked'[a] \/ (x # link[a].was /\ \A q \in Proc : x # seen[q][a].was)

LinksKept(p) ==
    \A a \in Account :
        \/ link'[a].pair = None
        \/ link'[a].pair = link[a].pair /\ link'[a].refreshing = link[a].refreshing
        \/ link'[a].pair = seen[p][a].pair /\ (kind[p] = "check" \/ (pc[p] = "write" /\ on[p] = a))

SeenKept(p) ==
    \A a \in Account :
        \/ seen'[p][a].pair \in {seen[p][a].pair, None, link[a].pair}
        \/ \A q \in Proc \ {p} : seen'[p][a].pair # seen[q][a].pair

\* Every other process keeps what it knows of the pairs.
LEMMA PairOthers ==
    ASSUME Sound, PairInv, NEW p \in Proc, NEW q \in Proc \ {p}, Others(p),
           PairsKept(p), LinksKept(p), SeenKept(p)
    PROVE  Claiming(q)' /\ Checking(q)'
<1>1. /\ pc'[q] = pc[q] /\ kind'[q] = kind[q] /\ cred'[q] = cred[q] /\ seen'[q] = seen[q] /\ on'[q] = on[q]
      /\ \A r \in Proc \ {p} : seen'[r] = seen[r]
  BY DEF Others
<1>2. Claiming(q) /\ Checking(q) /\ Claiming(p) /\ Role(q) /\ Role(p)
  BY DEF PairInv, Sound
<1>3. \A a \in Account : \A r \in Proc : seen[r][a].pair \in Pair \cup {None}
  BY LinkFields DEF Sound, TypeOK
<1>4. ASSUME pc[q] \in {"emails", "mark", "write"} PROVE Claiming(q)'
  <2>. DEFINE x == seen[q][on[q]].pair
  <2>1. /\ on[q] \in Account /\ Known(on[q], x) /\ x # None /\ link[on[q]].pair # x
        /\ \A r \in Proc \ {q} : seen[r][on[q]].pair # x
    BY <1>2, <1>4 DEF Claiming, Role, Mine
  <2>2. Mine(q)'.pair = x
    BY <1>1 DEF Mine
  <2>3. Known(on[q], x)'
    BY <1>1, <1>3, <2>1 DEF PairsKept, Known
  <2>4. link'[on[q]].pair # x
    BY <2>1 DEF LinksKept
  <2>5. \A r \in Proc \ {q} : seen'[r][on[q]].pair # x
    BY <1>1, <2>1 DEF SeenKept
  <2>. QED BY <1>1, <2>1, <2>2, <2>3, <2>4, <2>5 DEF Claiming, Known
<1>5. ASSUME kind[q] = "check" PROVE Checking(q)'
  <2>1. kind[p] # "check"
    BY <1>5 DEF PairInv
  <2>2. \A a \in Account : Good(a, seen[q][a])'
    BY <1>1, <1>2, <1>3, <1>5, <2>1 DEF Checking, PairsKept, Good, Known
  <2>3. pc[q] \in {"due", "claimrefresh", "exchange", "refused", "keep", "user"} => Known(on[q], Mine(q).pair)'
    <3>1. pc[q] \in {"due", "claimrefresh", "exchange", "refused", "keep", "user"} => on[q] \in Account
      BY <1>2 DEF Role, AskPlaces
    <3>. QED BY <1>1, <1>2, <1>3, <2>1, <3>1 DEF Checking, PairsKept, Known, Mine
  <2>4. ASSUME pc[q] = "exchange", link'[on[q]].pair = Mine(q).pair PROVE link'[on[q]].refreshing
    <3>. DEFINE x == seen[q][on[q]].pair
    <3>1. on[q] \in Account /\ Mine(q).refreshing /\ (link[on[q]].pair = x => link[on[q]].refreshing)
      BY <1>2, <2>4 DEF Role, AskPlaces, Checking, Mine
    <3>2. x # None
      BY <3>1 DEF Sound, Paired, Mine
    <3>3. pc[p] = "write" /\ on[p] = on[q] => seen[p][on[q]].pair # x
      BY <1>2 DEF Claiming, Mine
    <3>4. link'[on[q]].pair = link[on[q]].pair /\ link'[on[q]].refreshing = link[on[q]].refreshing
      BY <2>1, <2>4, <3>1, <3>2, <3>3 DEF LinksKept, Mine
    <3>. QED BY <2>4, <3>1, <3>4 DEF Mine
  <2>. QED BY <1>1, <1>2, <2>2, <2>3, <2>4 DEF Checking, Mine
<1>6. ASSUME pc[q] \notin {"emails", "mark", "write"} PROVE Claiming(q)'
  BY <1>1, <1>6 DEF Claiming
<1>7. ASSUME kind[q] # "check" PROVE Checking(q)'
  BY <1>1, <1>2, <1>7 DEF Checking, Role, CheckPlaces, AskPlaces
<1>. QED BY <1>4, <1>5, <1>6, <1>7

\* What a step leaves to be shown: the links it wrote, and the process that moved.
LEMMA PairOf ==
    ASSUME Sound, PairInv, NEW p \in Proc, Others(p), PairsKept(p), LinksKept(p), SeenKept(p), WasKept,
           kind'[p] = "check" => \A q \in Proc \ {p} : kind[q] # "check",
           kind'[p] = "none" => seen'[p] = [a \in Account |-> NoLink],
           \A a \in Account : Good(a, link[a])',
           \A a \in Account : link'[a].was \in {link[a].was, None} \/ (\E q \in Proc : link'[a].was = seen[q][a].was),
           \A a \in Account : \/ seen'[p][a].was \in {link[a].was, seen[p][a].was, None}
                              \/ seen'[p][a].was \in revoked'[a],
           Claiming(p)', Checking(p)'
    PROVE  PairInv'
<1>1. \A q, r \in Proc : kind'[q] = "check" /\ kind'[r] = "check" => q = r
  BY DEF PairInv, Others
<1>2. \A q \in Proc : kind'[q] = "none" => seen'[q] = [a \in Account |-> NoLink]
  BY DEF PairInv, Others
<1>3. \A a \in Account : /\ link[a].was # None => link[a].was \in revoked'[a]
                         /\ \A q \in Proc : seen[q][a].was # None => seen[q][a].was \in revoked'[a]
  BY DEF PairInv, WasKept
<1>4. \A a \in Account : link'[a].was # None => link'[a].was \in revoked'[a]
  BY <1>3
<1>5. \A q \in Proc, a \in Account : seen'[q][a].was # None => seen'[q][a].was \in revoked'[a]
  BY <1>3 DEF Others
<1>6. \A q \in Proc : Claiming(q)' /\ Checking(q)'
  BY PairOthers
<1>. QED BY <1>1, <1>2, <1>4, <1>5, <1>6 DEF PairInv

\* With GitHub as it was, nothing is forgotten.
LEMMA StillKnown ==
    ASSUME NEW p \in Proc, UNCHANGED world
    PROVE  /\ PairsKept(p) /\ WasKept
           /\ \A a \in Account : \A x : Known(a, x)' <=> Known(a, x)
BY DEF world, PairsKept, WasKept, Known

\* With the links as they were, every link keeps what it had.
LEMMA StillLinked ==
    ASSUME PairInv, NEW p \in Proc, UNCHANGED <<world, link>>
    PROVE  /\ LinksKept(p) /\ \A a \in Account : Good(a, link[a])'
           /\ \A a \in Account : link'[a].was \in {link[a].was, None}
BY DEF PairInv, LinksKept, Good, Known, world

\* A process that ended has read nothing.
LEMMA EndedSeen ==
    ASSUME NEW p \in Proc, Ended(p)
    PROVE  \A a \in Account : seen'[p][a].pair = None /\ seen'[p][a].was = None
<1>1. ASSUME NEW a \in Account PROVE seen'[p][a] = NoLink
  BY DEF Ended
<1>. QED BY <1>1, NewFields

\* A step that changes neither GitHub nor a link nor what was read, or ends.
LEMMA PairQuiet ==
    ASSUME Sound, PairInv, NEW p \in Proc, Others(p), UNCHANGED <<world, link>>, seen'[p] = seen[p] \/ Ended(p),
           kind'[p] = kind[p] \/ kind'[p] # "check", kind'[p] # "none" \/ Ended(p),
           Claiming(p)' \/ Ended(p), Checking(p)' \/ Ended(p)
    PROVE  PairInv'
<1>1. PairsKept(p) /\ WasKept /\ LinksKept(p) /\ \A a \in Account : Good(a, link[a])'
  BY StillKnown, StillLinked
<1>2. SeenKept(p) /\ \A a \in Account : seen'[p][a].was \in {seen[p][a].was, None}
  <2>1. Ended(p) => \A a \in Account : seen'[p][a].pair = None /\ seen'[p][a].was = None
    BY EndedSeen
  <2>. QED BY <2>1 DEF SeenKept
<1>3. Ended(p) => Claiming(p)' /\ Checking(p)'
  BY DEF Ended, Claiming, Checking
<1>4. kind'[p] = "check" => \A q \in Proc \ {p} : kind[q] # "check"
  BY DEF PairInv, Ended
<1>5. kind'[p] = "none" => seen'[p] = [a \in Account |-> NoLink]
  BY DEF Ended
<1>6. \A a \in Account : link'[a].was \in {link[a].was, None}
  OBVIOUS
<1>. QED BY <1>1, <1>2, <1>3, <1>4, <1>5, <1>6, PairOf

\* A check that goes on with the link at hand made into another.
LEMMA PairSaw ==
    ASSUME Sound, PairInv, NEW p \in Proc, kind[p] = "check", on[p] \in Account, NEW k \in Link,
           Others(p), Saw(p, on[p], k), UNCHANGED <<world, link, kind, on, cred>>,
           k.pair \in {Mine(p).pair, None, link[on[p]].pair},
           k.was \in {link[on[p]].was, Mine(p).was, None} \cup revoked[on[p]],
           k.refreshing \/ Known(on[p], k.pair),
           pc'[p] \in {"next", "due", "user"},
           pc'[p] \in {"due", "user"} => Known(on[p], k.pair),
           pc'[p] = "due" => k.app = cred[p]
    PROVE  PairInv'
<1>1. PairsKept(p) /\ WasKept /\ LinksKept(p) /\ \A a \in Account : Good(a, link[a])'
  BY StillKnown, StillLinked
<1>2. SeenKept(p) /\ \A a \in Account : \/ seen'[p][a].was \in {link[a].was, seen[p][a].was, None}
                                        \/ seen'[p][a].was \in revoked'[a]
  BY DEF Saw, SeenKept, Mine, world
<1>3. kind'[p] = "check" => \A q \in Proc \ {p} : kind[q] # "check"
  BY DEF PairInv
<1>4. Claiming(p)'
  BY DEF Claiming
<1>5. \A a \in Account : Good(a, seen[p][a])'
  <2>1. \A a \in Account : Good(a, seen[p][a])
    BY DEF PairInv, Checking
  <2>2. ASSUME NEW a \in Account, a # on[p] PROVE Good(a, seen[p][a])'
    BY <2>1, <2>2 DEF Saw, Good, Known, world
  <2>3. Good(on[p], seen[p][on[p]])'
    BY DEF Saw, Good, Known, world
  <2>. QED BY <2>2, <2>3
<1>6. Mine(p)' = k /\ (Known(on[p], k.pair) => Known(on[p], Mine(p).pair)')
  BY DEF Mine, Saw, Known, world
<1>7. Checking(p)'
  BY <1>5, <1>6 DEF Checking
<1>8. \A a \in Account : link'[a].was \in {link[a].was, None}
  OBVIOUS
<1>9. kind'[p] # "none"
  OBVIOUS
<1>. QED BY <1>1, <1>2, <1>3, <1>4, <1>7, <1>8, <1>9, PairOf


\* A write of a link with no pair, with the pair it had, or with the pair the
\* process knows.
LEMMA PairWritten ==
    ASSUME Sound, PairInv, NEW p \in Proc, NEW a \in Account, NEW l, Written(p, a, l), Others(p), UNCHANGED world,
           \/ Ended(p)
           \/ /\ \A b \in Account : seen'[p][b].pair = seen[p][b].pair /\ seen'[p][b].was = seen[p][b].was
              /\ kind'[p] = kind[p] /\ kind[p] # "none" /\ Claiming(p)' /\ Checking(p)',
           \/ l.pair = None
           \/ l.pair = link[a].pair /\ l.refreshing = link[a].refreshing
           \/ l.pair = seen[p][a].pair /\ (kind[p] = "check" \/ (pc[p] = "write" /\ on[p] = a)),
           l.refreshing \/ Known(a, l.pair),
           l.was \in {link[a].was, None, seen[p][a].was}
    PROVE  PairInv'
<1>1. PairsKept(p) /\ WasKept
  BY StillKnown
<1>2. LinksKept(p)
  BY DEF LinksKept, Written
<1>3. \A b \in Account : Good(b, link[b])'
  <2>1. Good(a, link[a])'
    BY DEF Written, Good, Known, world
  <2>2. ASSUME NEW b \in Account, b # a PROVE Good(b, link[b])'
    BY <2>2 DEF PairInv, Written, Good, Known, world
  <2>. QED BY <2>1, <2>2
<1>4. SeenKept(p) /\ \A b \in Account : seen'[p][b].was \in {seen[p][b].was, None}
  <2>1. Ended(p) => \A b \in Account : seen'[p][b].pair = None /\ seen'[p][b].was = None
    BY EndedSeen
  <2>. QED BY <2>1 DEF SeenKept
<1>5. \A b \in Account : link'[b].was \in {link[b].was, None} \/ (\E q \in Proc : link'[b].was = seen[q][b].was)
  BY DEF Written
<1>6. Claiming(p)' /\ Checking(p)'
  BY DEF Ended, Claiming, Checking
<1>7. kind'[p] = "check" => \A q \in Proc \ {p} : kind[q] # "check"
  BY DEF PairInv, Ended
<1>8. kind'[p] = "none" => seen'[p] = [b \in Account |-> NoLink]
  BY DEF Ended
<1>. QED BY <1>1, <1>2, <1>3, <1>4, <1>5, <1>6, <1>7, <1>8, PairOf

\* A process outside of its questions keeps what it knows.
LEMMA CheckingStill ==
    ASSUME NEW p \in Proc, Checking(p), kind'[p] = kind[p], seen'[p] = seen[p], UNCHANGED world,
           pc'[p] \notin {"probe", "due", "claimrefresh", "exchange", "refused", "keep", "user"}
    PROVE  Checking(p)'
BY DEF Checking, Good, Known, world


\* LinkCallback keeps what is known of the pairs.
LEMMA LinkCallbackPair ==
    ASSUME Sound, PairInv, NEW p \in Proc, NEW a \in Account, LinkCallback(p, a)
    PROVE  PairInv'
<1>1. TypeOK /\ Role(p) /\ Claiming(p) /\ Checking(p)
  BY DEF Sound, PairInv, Role, LinkCallback, At, ClaimPlaces, NarrowPlaces, AskPlaces, CheckPlaces, TypeOK, Kinds
<1>. DEFINE new == Mint(a)
            k == [NoLink EXCEPT !.state = "linked", !.self = TRUE, !.pair = new, !.root = new, !.app = app]
<1>2. /\ Others(p) /\ pc[p] = "idle" /\ pc'[p] = "emails" /\ app \in App /\ Names(a) /\ Issue(a, None, new)
      /\ kind'[p] = "claim" /\ on'[p] = a /\ Saw(p, a, k) /\ UNCHANGED link
  BY <1>1, LinkCallbackDoes
<1>3. /\ new \in Pair /\ new \notin {link[a].pair, link[a].was}
      /\ \A q \in Proc : new \notin {seen[q][a].pair, seen[q][a].was}
  BY <1>2, MintNew
<1>4. k.pair = new /\ k.was = None
  <2>1. ASSUME NEW n \in Pair, NEW x \in App
        PROVE  LET l == [NoLink EXCEPT !.state = "linked", !.self = TRUE, !.pair = n, !.root = n, !.app = x]
               IN  l.pair = n /\ l.was = None
    BY DEF NoLink, Link
  <2>. QED BY <1>2, <1>3, <2>1
<1>5. kind[p] = "none" /\ new # None
  BY <1>1, <1>2, <1>3, LinksAssumption DEF Role
<1>. HIDE DEF new, k
<1>6. /\ \A b \in Account \ {a} : live'[b] = live[b] /\ revoked'[b] = revoked[b]
      /\ live'[a] = live[a] \cup {new} /\ revoked'[a] = revoked[a] \ {new}
  <2>1. None \notin live[a]
    BY <1>1, LinksAssumption DEF TypeOK
  <2>. QED BY <1>1, <1>2, <2>1 DEF TypeOK, Issue
<1>7. \A b \in Account : \A x : Known(b, x) => Known(b, x)'
  BY <1>6 DEF Known
<1>8. PairsKept(p) /\ WasKept
  BY <1>3, <1>6, <1>7 DEF PairsKept, WasKept
<1>9. LinksKept(p) /\ \A b \in Account : Good(b, link[b])'
  BY <1>1, <1>2, <1>7 DEF LinksKept, PairInv, Good, Known
<1>10. SeenKept(p) /\ \A b \in Account : seen'[p][b].was \in {seen[p][b].was, None}
  BY <1>2, <1>3, <1>4 DEF SeenKept, Saw
<1>12. Claiming(p)' /\ Checking(p)'
  BY <1>2, <1>3, <1>4, <1>5, <1>6 DEF Claiming, Checking, Mine, Saw, Known, Others
<1>13. \A b \in Account : link'[b].was \in {link[b].was, None}
  BY <1>2
<1>. QED BY <1>1, <1>2, <1>8, <1>9, <1>10, <1>12, <1>13, PairOf

\* LinkableAddresses keeps what is known of the pairs.
LEMMA LinkableAddressesPair ==
    ASSUME Sound, PairInv, NEW p \in Proc, LinkableAddresses(p)
    PROVE  PairInv'
<1>1. TypeOK /\ Role(p) /\ Claiming(p) /\ Checking(p) /\ on[p] \in Account
  BY DEF Sound, PairInv, Role, LinkableAddresses, At, ClaimPlaces, NarrowPlaces, AskPlaces, CheckPlaces, TypeOK, Kinds
<1>2. Others(p) /\ UNCHANGED <<world, link>>
  BY <1>1, LinkableAddressesDoes
<1>3. PairsKept(p) /\ WasKept /\ LinksKept(p) /\ \A a \in Account : Good(a, link[a])'
  BY <1>1, <1>2, StillKnown, StillLinked
<1>4. CASE Ended(p)
  <2>1. kind'[p] # "check"
    BY <1>4 DEF Ended
  <2>. QED BY <1>1, <1>2, <1>4, <2>1, PairQuiet
<1>5. ASSUME NEW accepted \in SUBSET Email, Saw(p, on[p], [Mine(p) EXCEPT !.emails = accepted]), pc'[p] = "mark",
             UNCHANGED <<kind, on>>
      PROVE  PairInv'
  <2>. DEFINE k == [Mine(p) EXCEPT !.emails = accepted]
  <2>1. Mine(p) \in Link /\ kind[p] = "claim" /\ pc[p] = "emails" /\ Mine(p) = seen[p][on[p]]
    BY <1>1 DEF Mine, TypeOK, Role, LinkableAddresses, At
  <2>2. k.pair = Mine(p).pair /\ k.was = Mine(p).was
    BY <2>1, EmailsFields
  <2>. HIDE DEF k
  <2>3. SeenKept(p) /\ \A a \in Account : seen'[p][a].was = seen[p][a].was
    BY <1>1, <1>5, <2>1, <2>2 DEF SeenKept, Saw, k
  <2>4. Mine(p)' = k
    BY <1>1, <1>5 DEF Mine, Saw, k
  <2>5. Claiming(p)'
    BY <1>1, <1>2, <1>5, <2>1, <2>2, <2>4 DEF PairInv, Claiming, Known, world, Others
  <2>6. Checking(p)'
    BY <1>5, <2>1 DEF Checking
  <2>7. \A a \in Account : link'[a].was \in {link[a].was, None}
    BY <1>2
  <2>8. kind'[p] = "claim"
    BY <1>5, <2>1
  <2>. QED BY <1>1, <1>2, <1>3, <2>3, <2>5, <2>6, <2>7, <2>8, PairOf
<1>. QED BY <1>1, <1>4, <1>5, LinkableAddressesDoes

\* PutMarker keeps what is known of the pairs.
LEMMA PutMarkerPair ==
    ASSUME Sound, PairInv, NEW p \in Proc, PutMarker(p)
    PROVE  PairInv'
<1>1. TypeOK /\ Role(p) /\ Claiming(p) /\ Checking(p) /\ on[p] \in Account
  BY DEF Sound, PairInv, Role, PutMarker, At, ClaimPlaces, NarrowPlaces, AskPlaces, CheckPlaces, TypeOK, Kinds
<1>2. /\ Others(p) /\ UNCHANGED <<world, link, kind, cred, seen, on>> /\ pc[p] = "mark" /\ pc'[p] = "write"
  BY <1>1, PutMarkerDoes DEF local
<1>3. kind[p] = "claim"
  BY <1>1, <1>2 DEF Role
<1>4. Claiming(p)'
  BY <1>1, <1>2 DEF Claiming, Mine, Known, world
<1>5. Checking(p)'
  BY <1>2, <1>3 DEF Checking
<1>. QED BY <1>1, <1>2, <1>3, <1>4, <1>5, PairQuiet

\* ClaimWrite keeps what is known of the pairs.
LEMMA ClaimWritePair ==
    ASSUME Sound, PairInv, NEW p \in Proc, ClaimWrite(p)
    PROVE  PairInv'
<1>1. TypeOK /\ Role(p) /\ Claiming(p) /\ Checking(p) /\ on[p] \in Account
  BY DEF Sound, PairInv, Role, ClaimWrite, At, ClaimPlaces, NarrowPlaces, AskPlaces, CheckPlaces, TypeOK, Kinds
<1>2. /\ Others(p) /\ UNCHANGED <<world, kind, seen>> /\ pc[p] = "write" /\ pc'[p] = "others"
      /\ Written(p, on[p], Mine(p))
  BY <1>1, ClaimWriteDoes DEF local
<1>3. kind[p] = "claim" /\ Known(on[p], Mine(p).pair)
  BY <1>1, <1>2 DEF Role, PairInv, Claiming
<1>4. Claiming(p)' /\ Checking(p)'
  BY <1>2, <1>3 DEF Claiming, Checking
<1>. QED BY <1>1, <1>2, <1>3, <1>4, PairWritten DEF Mine

\* NarrowList keeps what is known of the pairs.
LEMMA NarrowListPair ==
    ASSUME Sound, PairInv, NEW p \in Proc, NarrowList(p)
    PROVE  PairInv'
<1>1. TypeOK /\ Role(p) /\ Claiming(p) /\ Checking(p) /\ on[p] \in Account
  BY DEF Sound, PairInv, Role, NarrowList, At, ClaimPlaces, NarrowPlaces, AskPlaces, CheckPlaces, TypeOK, Kinds
<1>2. /\ Others(p) /\ UNCHANGED <<world, link>>
      /\ seen'[p] = seen[p] \/ Ended(p)
      /\ kind'[p] = kind[p] \/ Ended(p)
  BY <1>1, NarrowListDoes DEF local
<1>3. kind[p] # "none"
  BY <1>1 DEF Role, NarrowList, At, CheckPlaces, AskPlaces
<1>4. Claiming(p)' \/ Ended(p)
  BY <1>1, NarrowListDoes DEF Claiming
<1>5. Checking(p)' \/ Ended(p)
  BY <1>1, <1>2, <1>3, NarrowListDoes, StillKnown DEF Checking, Role, local, Mine, Good, CheckPlaces, AskPlaces, ClaimPlaces
<1>6. (kind'[p] = kind[p] \/ kind'[p] # "check") /\ (kind'[p] # "none" \/ Ended(p))
  BY <1>2, <1>3 DEF Ended
<1>. QED BY <1>2, <1>4, <1>5, <1>6, PairQuiet

\* Narrow keeps what is known of the pairs.
LEMMA NarrowPair ==
    ASSUME Sound, PairInv, NEW p \in Proc, Narrow(p)
    PROVE  PairInv'
<1>1. TypeOK /\ Role(p) /\ Claiming(p) /\ Checking(p) /\ on[p] \in Account
  BY DEF Sound, PairInv, Role, Narrow, At, ClaimPlaces, NarrowPlaces, AskPlaces, CheckPlaces, TypeOK, Kinds
<1>2. /\ Others(p) /\ UNCHANGED <<world, kind, seen>> /\ pc'[p] \in {"narrow", "unmark"}
  BY <1>1, NarrowDoes
<1>3. kind[p] # "none"
  BY <1>1 DEF Role, Narrow, At
<1>4. Claiming(p)' /\ Checking(p)'
  BY <1>1, <1>2, CheckingStill DEF PairInv, Claiming
<1>5. CASE UNCHANGED link
  BY <1>1, <1>2, <1>3, <1>4, <1>5, PairQuiet
<1>6. ASSUME NEW b \in todo[p], Written(p, b, Narrowed(link[b], claim[p])) PROVE PairInv'
  <2>. DEFINE k == Narrowed(link[b], claim[p])
  <2>1. b \in Account /\ link[b] \in Link /\ claim[p] \in SUBSET Email /\ Good(b, link[b])
    BY <1>1 DEF TypeOK, PairInv
  <2>2. /\ (k.pair = link[b].pair /\ k.refreshing = link[b].refreshing) \/ (k.pair = None /\ ~k.refreshing)
        /\ k.was = link[b].was
    BY <2>1, NarrowedFields
  <2>3. Written(p, b, k)
    BY <1>6
  <2>. HIDE DEF k
  <2>4. k.refreshing \/ Known(b, k.pair)
    BY <2>1, <2>2 DEF Good, Known
  <2>. QED BY <1>1, <1>2, <1>3, <1>4, <2>1, <2>2, <2>3, <2>4, PairWritten
<1>. QED BY <1>1, <1>5, <1>6, NarrowDoes

\* Unmark keeps what is known of the pairs.
LEMMA UnmarkPair ==
    ASSUME Sound, PairInv, NEW p \in Proc, Unmark(p)
    PROVE  PairInv'
<1>1. TypeOK /\ Role(p) /\ Claiming(p) /\ Checking(p) /\ on[p] \in Account
  BY DEF Sound, PairInv, Role, Unmark, At, ClaimPlaces, NarrowPlaces, AskPlaces, CheckPlaces, TypeOK, Kinds
<1>2. /\ Others(p) /\ UNCHANGED <<world, link>>
      /\ seen'[p] = seen[p] \/ Ended(p)
      /\ kind'[p] = kind[p] \/ Ended(p)
  BY <1>1, UnmarkDoes DEF local
<1>3. kind[p] # "none"
  BY <1>1 DEF Role, Unmark, At, CheckPlaces, AskPlaces
<1>4. Claiming(p)' \/ Ended(p)
  BY <1>1, UnmarkDoes DEF Claiming
<1>5. Checking(p)' \/ Ended(p)
  BY <1>1, <1>2, <1>3, UnmarkDoes, StillKnown DEF Checking, Role, local, Mine, Good, CheckPlaces, AskPlaces, ClaimPlaces
<1>6. (kind'[p] = kind[p] \/ kind'[p] # "check") /\ (kind'[p] # "none" \/ Ended(p))
  BY <1>2, <1>3 DEF Ended
<1>. QED BY <1>2, <1>4, <1>5, <1>6, PairQuiet

\* Markers keeps what is known of the pairs.
LEMMA MarkersPair ==
    ASSUME Sound, PairInv, NEW p \in Proc, Markers(p)
    PROVE  PairInv'
<1>1. TypeOK /\ Role(p) /\ Claiming(p) /\ Checking(p)
  BY DEF Sound, PairInv, Role, Markers, At, ClaimPlaces, NarrowPlaces, AskPlaces, CheckPlaces, TypeOK, Kinds
<1>2. /\ Others(p) /\ UNCHANGED <<world, link>>
      /\ seen'[p] = seen[p] \/ Ended(p)
      /\ kind'[p] = kind[p] \/ Ended(p)
  BY <1>1, MarkersDoes DEF local
<1>3. kind[p] # "none"
  BY <1>1 DEF Role, Markers, At, CheckPlaces, AskPlaces
<1>4. Claiming(p)' \/ Ended(p)
  BY <1>1, MarkersDoes DEF Claiming
<1>5. Checking(p)' \/ Ended(p)
  BY <1>1, <1>2, <1>3, MarkersDoes, StillKnown DEF Checking, Role, local, Mine, Good, CheckPlaces, AskPlaces, ClaimPlaces
<1>6. (kind'[p] = kind[p] \/ kind'[p] # "check") /\ (kind'[p] # "none" \/ Ended(p))
  BY <1>2, <1>3 DEF Ended
<1>. QED BY <1>2, <1>4, <1>5, <1>6, PairQuiet

\* FinishClaims keeps what is known of the pairs.
LEMMA FinishClaimsPair ==
    ASSUME Sound, PairInv, NEW p \in Proc, FinishClaims(p)
    PROVE  PairInv'
<1>1. TypeOK /\ Role(p) /\ Claiming(p) /\ Checking(p)
  BY DEF Sound, PairInv, Role, FinishClaims, At, ClaimPlaces, NarrowPlaces, AskPlaces, CheckPlaces, TypeOK, Kinds
<1>2. /\ Others(p) /\ UNCHANGED <<world, link>>
      /\ seen'[p] = seen[p] \/ Ended(p)
      /\ kind'[p] = kind[p] \/ Ended(p)
  BY <1>1, FinishClaimsDoes DEF local
<1>3. kind[p] # "none"
  BY <1>1 DEF Role, FinishClaims, At, CheckPlaces, AskPlaces
<1>4. Claiming(p)' \/ Ended(p)
  BY <1>1, FinishClaimsDoes DEF Claiming
<1>5. Checking(p)' \/ Ended(p)
  BY <1>1, <1>2, <1>3, FinishClaimsDoes, StillKnown DEF Checking, Role, local, Mine, Good, CheckPlaces, AskPlaces, ClaimPlaces
<1>6. (kind'[p] = kind[p] \/ kind'[p] # "check") /\ (kind'[p] # "none" \/ Ended(p))
  BY <1>2, <1>3 DEF Ended
<1>. QED BY <1>2, <1>4, <1>5, <1>6, PairQuiet

\* List keeps what is known of the pairs.
LEMMA ListPair ==
    ASSUME Sound, PairInv, NEW p \in Proc, List(p)
    PROVE  PairInv'
<1>1. TypeOK /\ Role(p) /\ Claiming(p) /\ Checking(p) /\ kind[p] \in {"check", "adopt", "disconnect"}
  BY DEF Sound, PairInv, Role, List, At, ClaimPlaces, NarrowPlaces, AskPlaces, CheckPlaces, TypeOK, Kinds
<1>2. /\ Others(p) /\ UNCHANGED <<world, link, kind>> /\ seen'[p] = link /\ pc'[p] = kind[p]
  BY <1>1, ListDoes
<1>3. PairsKept(p) /\ WasKept /\ LinksKept(p) /\ \A a \in Account : Good(a, link[a])'
  BY <1>1, <1>2, StillKnown, StillLinked
<1>4. SeenKept(p) /\ \A a \in Account : seen'[p][a].was = link[a].was
  BY <1>2 DEF SeenKept
<1>5. kind'[p] = "check" => \A q \in Proc \ {p} : kind[q] # "check"
  BY <1>1, <1>2 DEF PairInv
<1>6. \A a \in Account : Good(a, seen[p][a])'
  BY <1>2, <1>3 DEF Good
<1>7. Claiming(p)' /\ Checking(p)'
  BY <1>1, <1>2, <1>6 DEF Claiming, Checking
<1>8. \A a \in Account : link'[a].was \in {link[a].was, None}
  BY <1>2
<1>9. kind'[p] # "none"
  BY <1>1, <1>2
<1>. QED BY <1>1, <1>2, <1>3, <1>4, <1>5, <1>7, <1>8, <1>9, PairOf

\* Start keeps what is known of the pairs.
LEMMA StartPair ==
    ASSUME Sound, PairInv, NEW p \in Proc, ~Overlap, NEW operation \in {"check", "adopt", "disconnect"}, Start(p, operation)
    PROVE  PairInv'
<1>1. TypeOK /\ Role(p) /\ Claiming(p) /\ Checking(p)
  BY DEF Sound, PairInv, Role, Start, At, ClaimPlaces, NarrowPlaces, AskPlaces, CheckPlaces, TypeOK, Kinds
<1>2. /\ Others(p) /\ UNCHANGED <<world, link, seen>> /\ pc'[p] = "markers" /\ kind'[p] = operation
      /\ operation = "check" => \A q \in Proc : kind[q] # "check"
  BY <1>1, StartDoes
<1>3. PairsKept(p) /\ WasKept /\ LinksKept(p) /\ \A a \in Account : Good(a, link[a])'
  BY <1>1, <1>2, StillKnown, StillLinked
<1>4. SeenKept(p) /\ \A a \in Account : seen'[p][a].was \in {seen[p][a].was, None}
  BY <1>2 DEF SeenKept
<1>5. kind[p] = "none"
  BY <1>1, StartDoes DEF Role
<1>6. \A a \in Account : Good(a, seen[p][a])'
  <2>1. seen'[p] = [a \in Account |-> NoLink]
    BY <1>2, <1>5 DEF PairInv
  <2>2. \A a \in Account : seen'[p][a] = NoLink
    BY <2>1
  <2>. QED BY <2>2, NewFields DEF Good, Known
<1>7. Claiming(p)' /\ Checking(p)'
  BY <1>2, <1>6 DEF Claiming, Checking
<1>8. \A a \in Account : link'[a].was \in {link[a].was, None}
  BY <1>2
<1>. QED BY <1>1, <1>2, <1>3, <1>4, <1>7, <1>8, PairOf

\* LinkCredential keeps what is known of the pairs.
LEMMA LinkCredentialPair ==
    ASSUME Sound, PairInv, NEW p \in Proc, LinkCredential(p)
    PROVE  PairInv'
<1>1. TypeOK /\ Role(p) /\ Claiming(p) /\ Checking(p)
  BY DEF Sound, PairInv, Role, LinkCredential, At, ClaimPlaces, NarrowPlaces, AskPlaces, CheckPlaces, TypeOK, Kinds
<1>2. /\ Others(p) /\ UNCHANGED <<world, link>>
      /\ seen'[p] = seen[p] \/ Ended(p)
      /\ kind'[p] = kind[p] \/ Ended(p)
  BY <1>1, LinkCredentialDoes DEF local
<1>3. kind[p] # "none"
  BY <1>1 DEF Role, LinkCredential, At, CheckPlaces, AskPlaces
<1>4. Claiming(p)' \/ Ended(p)
  BY <1>1, LinkCredentialDoes DEF Claiming
<1>5. Checking(p)' \/ Ended(p)
  BY <1>1, <1>2, <1>3, LinkCredentialDoes, StillKnown DEF Checking, Role, local, Mine, Good, CheckPlaces, AskPlaces, ClaimPlaces
<1>6. (kind'[p] = kind[p] \/ kind'[p] # "check") /\ (kind'[p] # "none" \/ Ended(p))
  BY <1>2, <1>3 DEF Ended
<1>. QED BY <1>2, <1>4, <1>5, <1>6, PairQuiet

\* CheckNext keeps what is known of the pairs.
LEMMA CheckNextPair ==
    ASSUME Sound, PairInv, NEW p \in Proc, CheckNext(p)
    PROVE  PairInv'
<1>1. TypeOK /\ Role(p) /\ Claiming(p) /\ Checking(p)
  BY DEF Sound, PairInv, Role, CheckNext, At, ClaimPlaces, NarrowPlaces, AskPlaces, CheckPlaces, TypeOK, Kinds
<1>2. /\ Others(p) /\ UNCHANGED <<world, link>>
      /\ seen'[p] = seen[p] \/ Ended(p)
      /\ kind'[p] = kind[p] \/ Ended(p)
  BY <1>1, CheckNextDoes DEF local
<1>3. kind[p] # "none"
  BY <1>1 DEF Role, CheckNext, At, CheckPlaces, AskPlaces
<1>4. Claiming(p)' \/ Ended(p)
  BY <1>1, CheckNextDoes DEF Claiming
<1>5. Checking(p)' \/ Ended(p)
  BY <1>1, <1>2, <1>3, CheckNextDoes, StillKnown DEF Checking, Role, local, Mine, Good, CheckPlaces, AskPlaces, ClaimPlaces
<1>6. (kind'[p] = kind[p] \/ kind'[p] # "check") /\ (kind'[p] # "none" \/ Ended(p))
  BY <1>2, <1>3 DEF Ended
<1>. QED BY <1>2, <1>4, <1>5, <1>6, PairQuiet

\* CheckApp keeps what is known of the pairs.
LEMMA CheckAppPair ==
    ASSUME Sound, PairInv, NEW p \in Proc, CheckApp(p)
    PROVE  PairInv'
<1>1. TypeOK /\ Role(p) /\ Claiming(p) /\ Checking(p) /\ on[p] \in Account
  BY DEF Sound, PairInv, Role, CheckApp, At, ClaimPlaces, NarrowPlaces, AskPlaces, CheckPlaces, TypeOK, Kinds
<1>2. Mine(p) \in Link /\ kind[p] = "check" /\ Checking(p) /\ Mine(p) = seen[p][on[p]]
  BY <1>1 DEF Mine, TypeOK, Role, PairInv, CheckApp, At, CheckPlaces, AskPlaces
<1>3. Others(p) /\ UNCHANGED <<world, link, kind, on, cred>>
  BY <1>1, CheckAppDoes
<1>4. CASE Saw(p, on[p], Unverifiable(Mine(p))) /\ pc'[p] = "next"
  <2>. DEFINE k == Unverifiable(Mine(p))
  <2>1. k \in Link /\ k.pair = None /\ k.was = Mine(p).was
    BY <1>2, UnverifiableFields
  <2>. HIDE DEF k
  <2>2. Known(on[p], k.pair)
    BY <2>1 DEF Known
  <2>. QED BY <1>1, <1>2, <1>3, <1>4, <2>1, <2>2, PairSaw DEF k
<1>5. CASE Mine(p).app = cred[p] /\ pc'[p] = (IF Mine(p).refreshing THEN "probe" ELSE "due") /\ UNCHANGED seen
  <2>1. Good(on[p], Mine(p)) /\ Mine(p)' = Mine(p)
    BY <1>1, <1>2, <1>3, <1>5 DEF Checking, Mine
  <2>2. ~Mine(p).refreshing => Known(on[p], Mine(p).pair)'
    BY <1>3, <1>5, <2>1 DEF Good, Known, world, Mine
  <2>3. Checking(p)'
    BY <1>2, <1>3, <1>5, <2>1, <2>2 DEF Checking, Good, Known, world
  <2>4. Claiming(p)'
    BY <1>5 DEF Claiming
  <2>. QED BY <1>1, <1>2, <1>3, <1>5, <2>3, <2>4, PairQuiet
<1>. QED BY <1>1, <1>4, <1>5, CheckAppDoes

\* Probe keeps what is known of the pairs.
LEMMA ProbePair ==
    ASSUME Sound, PairInv, NEW p \in Proc, Probe(p)
    PROVE  PairInv'
<1>1. TypeOK /\ Role(p) /\ Claiming(p) /\ Checking(p) /\ on[p] \in Account
  BY DEF Sound, PairInv, Role, Probe, At, ClaimPlaces, NarrowPlaces, AskPlaces, CheckPlaces, TypeOK, Kinds
<1>2. Mine(p) \in Link /\ kind[p] = "check" /\ Checking(p) /\ Mine(p) = seen[p][on[p]]
  BY <1>1 DEF Mine, TypeOK, Role, PairInv, Probe, At, CheckPlaces, AskPlaces
<1>3. Others(p) /\ UNCHANGED <<world, link, kind, on, cred>> /\ pc[p] = "probe"
  BY <1>1, ProbeDoes
<1>4. CASE Saw(p, on[p], Unverifiable(Mine(p))) /\ pc'[p] = "next"
  <2>. DEFINE k == Unverifiable(Mine(p))
  <2>1. k \in Link /\ k.pair = None /\ k.was = Mine(p).was
    BY <1>2, UnverifiableFields
  <2>. HIDE DEF k
  <2>2. Known(on[p], k.pair)
    BY <2>1 DEF Known
  <2>. QED BY <1>1, <1>2, <1>3, <1>4, <2>1, <2>2, PairSaw DEF k
<1>5. CASE Valid(on[p], Mine(p), cred[p]) /\ pc'[p] = "due" /\ Saw(p, on[p], [Mine(p) EXCEPT !.refreshing = FALSE])
  <2>. DEFINE k == [Mine(p) EXCEPT !.refreshing = FALSE]
  <2>1. k \in Link /\ k.pair = Mine(p).pair /\ k.was = Mine(p).was /\ k.app = Mine(p).app
    BY <1>2, RefreshingFields
  <2>. HIDE DEF k
  <2>2. Known(on[p], k.pair) /\ k.app = cred[p]
    BY <1>5, <2>1 DEF Known, Valid
  <2>. QED BY <1>1, <1>2, <1>3, <1>5, <2>1, <2>2, PairSaw DEF k
<1>. QED BY <1>1, <1>4, <1>5, ProbeDoes

\* RefreshDue keeps what is known of the pairs.
LEMMA RefreshDuePair ==
    ASSUME Sound, PairInv, NEW p \in Proc, RefreshDue(p)
    PROVE  PairInv'
<1>1. TypeOK /\ Role(p) /\ Claiming(p) /\ Checking(p) /\ on[p] \in Account
  BY DEF Sound, PairInv, Role, RefreshDue, At, ClaimPlaces, NarrowPlaces, AskPlaces, CheckPlaces, TypeOK, Kinds
<1>2. /\ Others(p) /\ UNCHANGED <<world, link>>
      /\ seen'[p] = seen[p] \/ Ended(p)
      /\ kind'[p] = kind[p] \/ Ended(p)
  BY <1>1, RefreshDueDoes DEF local
<1>3. kind[p] # "none"
  BY <1>1 DEF Role, RefreshDue, At, CheckPlaces, AskPlaces
<1>4. Claiming(p)' \/ Ended(p)
  BY <1>1, RefreshDueDoes DEF Claiming
<1>5. Checking(p)' \/ Ended(p)
  BY <1>1, <1>2, <1>3, RefreshDueDoes, StillKnown DEF Checking, Role, local, Mine, Good, CheckPlaces, AskPlaces, ClaimPlaces
<1>6. (kind'[p] = kind[p] \/ kind'[p] # "check") /\ (kind'[p] # "none" \/ Ended(p))
  BY <1>2, <1>3 DEF Ended
<1>. QED BY <1>2, <1>4, <1>5, <1>6, PairQuiet

\* ClaimRefresh keeps what is known of the pairs.
LEMMA ClaimRefreshPair ==
    ASSUME Sound, PairInv, NEW p \in Proc, ClaimRefresh(p)
    PROVE  PairInv'
<1>1. TypeOK /\ Role(p) /\ Claiming(p) /\ Checking(p) /\ on[p] \in Account
  BY DEF Sound, PairInv, Role, ClaimRefresh, At, ClaimPlaces, NarrowPlaces, AskPlaces, CheckPlaces, TypeOK, Kinds
<1>2. Mine(p) \in Link /\ kind[p] = "check" /\ Checking(p) /\ Mine(p) = seen[p][on[p]]
  BY <1>1 DEF Mine, TypeOK, Role, PairInv, ClaimRefresh, At, CheckPlaces, AskPlaces
<1>3. Others(p) /\ UNCHANGED <<world, kind, on, cred>> /\ pc[p] = "claimrefresh"
  BY <1>1, ClaimRefreshDoes
<1>4. Known(on[p], Mine(p).pair) /\ Mine(p).app = cred[p]
  BY <1>2, <1>3 DEF Checking
<1>5. CASE pc'[p] = "elsewhere" /\ UNCHANGED <<seen, link>>
  <2>1. Checking(p)' /\ Claiming(p)'
    BY <1>2, <1>3, <1>5, CheckingStill DEF Claiming
  <2>. QED BY <1>1, <1>2, <1>3, <1>5, <2>1, PairQuiet
<1>6. CASE /\ pc'[p] = "exchange" /\ Saw(p, on[p], [Mine(p) EXCEPT !.refreshing = TRUE])
           /\ Written(p, on[p], [Mine(p) EXCEPT !.refreshing = TRUE])
  <2>. DEFINE k == [Mine(p) EXCEPT !.refreshing = TRUE]
  <2>1. k.refreshing /\ k.pair = Mine(p).pair /\ k.was = Mine(p).was /\ k.app = Mine(p).app
    BY <1>2, RefreshingFields
  <2>2. Saw(p, on[p], k) /\ Written(p, on[p], k)
    BY <1>6
  <2>. HIDE DEF k
  <2>3. Mine(p)' = k /\ link'[on'[p]] = k
    BY <1>3, <2>2 DEF Mine, Saw, Written
  <2>4. \A a \in Account : Good(a, seen[p][a])'
    BY <1>1, <1>2, <1>3, <2>1, <2>2 DEF Checking, Good, Known, world, Saw
  <2>5. Known(on[p], Mine(p).pair)'
    BY <1>3, <1>4, <2>1, <2>3 DEF Known, world
  <2>6. Checking(p)' /\ Claiming(p)'
    BY <1>3, <1>4, <1>6, <2>1, <2>3, <2>4, <2>5 DEF Checking, Claiming
  <2>7. \A b \in Account : seen'[p][b].pair = seen[p][b].pair /\ seen'[p][b].was = seen[p][b].was
    BY <1>2, <2>1, <2>2 DEF Saw
  <2>. QED BY <1>1, <1>2, <1>3, <1>4, <2>1, <2>2, <2>6, <2>7, PairWritten
<1>. QED BY <1>1, <1>5, <1>6, ClaimRefreshDoes

\* RefreshedElsewhere keeps what is known of the pairs.
LEMMA RefreshedElsewherePair ==
    ASSUME Sound, PairInv, NEW p \in Proc, RefreshedElsewhere(p)
    PROVE  PairInv'
<1>1. TypeOK /\ Role(p) /\ Claiming(p) /\ Checking(p) /\ on[p] \in Account
  BY DEF Sound, PairInv, Role, RefreshedElsewhere, At, ClaimPlaces, NarrowPlaces, AskPlaces, CheckPlaces, TypeOK, Kinds
<1>2. Mine(p) \in Link /\ kind[p] = "check" /\ Checking(p) /\ Mine(p) = seen[p][on[p]]
  BY <1>1 DEF Mine, TypeOK, Role, PairInv, RefreshedElsewhere, At, CheckPlaces, AskPlaces
<1>3. Others(p) /\ UNCHANGED <<world, link, kind, on, cred>>
  BY <1>1, RefreshedElsewhereDoes
<1>4. CASE ~link[on[p]].refreshing /\ Saw(p, on[p], link[on[p]]) /\ pc'[p] = "user"
  <2>1. link[on[p]] \in Link /\ Known(on[p], link[on[p]].pair)
    BY <1>1, <1>4 DEF TypeOK, PairInv, Good
  <2>. QED BY <1>1, <1>2, <1>3, <1>4, <2>1, PairSaw
<1>5. CASE pc'[p] = "next" /\ UNCHANGED seen
  <2>1. Checking(p)' /\ Claiming(p)'
    BY <1>2, <1>3, <1>5 DEF Checking, Claiming, Good, Known, world
  <2>. QED BY <1>1, <1>2, <1>3, <1>5, <2>1, PairQuiet
<1>. QED BY <1>1, <1>4, <1>5, RefreshedElsewhereDoes

\* RefreshUserTokens keeps what is known of the pairs.
LEMMA RefreshUserTokensPair ==
    ASSUME Sound, PairInv, NEW p \in Proc, RefreshUserTokens(p)
    PROVE  PairInv'
<1>1. TypeOK /\ Role(p) /\ Claiming(p) /\ Checking(p) /\ on[p] \in Account
  BY DEF Sound, PairInv, Role, RefreshUserTokens, At, ClaimPlaces, NarrowPlaces, AskPlaces, CheckPlaces, TypeOK, Kinds
<1>2. Mine(p) \in Link /\ kind[p] = "check" /\ Checking(p) /\ Mine(p) = seen[p][on[p]]
  BY <1>1 DEF Mine, TypeOK, Role, PairInv, RefreshUserTokens, At, CheckPlaces, AskPlaces
<1>3. Others(p) /\ UNCHANGED <<link, kind, on, cred>> /\ pc[p] = "exchange"
  BY <1>1, RefreshUserTokensDoes
<1>4. /\ Known(on[p], Mine(p).pair) /\ Mine(p).app = cred[p] /\ Mine(p).refreshing
      /\ link[on[p]].pair = Mine(p).pair => link[on[p]].refreshing
      /\ \A b \in Account : Good(b, seen[p][b])
  BY <1>2, <1>3 DEF Checking
<1>5. CASE pc'[p] = "refused" /\ UNCHANGED <<world, seen>>
  <2>1. Mine(p)' = Mine(p)
    BY <1>3, <1>5 DEF Mine
  <2>2. Checking(p)' /\ Claiming(p)'
    BY <1>2, <1>3, <1>4, <1>5, <2>1 DEF Checking, Claiming, Good, Known, world
  <2>. QED BY <1>1, <1>2, <1>3, <1>5, <2>2, PairQuiet
<1>6. ASSUME Names(on[p]), Issue(on[p], Mine(p).pair, Mint(on[p])),
             \/ /\ Saw(p, on[p], [Mine(p) EXCEPT !.pair = Mint(on[p]), !.refreshing = FALSE])
                /\ pc'[p] = "keep"
             \/ pc'[p] = "next" /\ UNCHANGED seen
      PROVE  PairInv'
  <2>0. PICK a \in Account : a = on[p]
    BY <1>1
  <2>01. PICK new : new = Mint(a)
    OBVIOUS
  <2>02. PICK k : k = [Mine(p) EXCEPT !.pair = new, !.refreshing = FALSE]
    OBVIOUS
  <2>1. /\ new \in Pair /\ new \notin {link[a].pair, link[a].was}
        /\ \A q \in Proc : new \notin {seen[q][a].pair, seen[q][a].was}
    BY <1>6, <2>0, <2>01, MintNew
  <2>2. ~k.refreshing /\ k.pair = new /\ k.was = Mine(p).was
    BY <1>2, <2>02, <2>1, PairFields
  <2>3. (Saw(p, a, k) /\ pc'[p] = "keep") \/ (pc'[p] = "next" /\ UNCHANGED seen)
    BY <1>6, <2>0, <2>01, <2>02
  <2>4. /\ \A b \in Account \ {a} : live'[b] = live[b] /\ revoked'[b] = revoked[b]
        /\ live'[a] = (live[a] \ {Mine(p).pair}) \cup {new} /\ revoked'[a] = revoked[a] \ {new}
    BY <1>1, <1>6, <2>0, <2>01 DEF TypeOK, Issue
  <2>5. /\ \A b \in Account \ {a} : \A x : Known(b, x) => Known(b, x)'
        /\ \A x : Known(a, x) /\ x # Mine(p).pair => Known(a, x)'
        /\ Known(a, new)'
    BY <2>4 DEF Known
  <2>6. PairsKept(p)
    BY <1>2, <2>0, <2>5 DEF PairsKept
  <2>7. WasKept
    BY <2>1, <2>4 DEF WasKept
  <2>8. LinksKept(p)
    BY <1>3 DEF LinksKept
  <2>9. \A b \in Account : Good(b, link[b])'
    <3>1. \A b \in Account : Good(b, link[b])
      BY DEF PairInv
    <3>2. ASSUME NEW b \in Account PROVE link[b].refreshing \/ Known(b, link[b].pair)'
      BY <1>3, <1>4, <2>0, <2>5, <3>1 DEF Good, Known
    <3>. QED BY <1>3, <3>2 DEF Good, Known
  <2>10. SeenKept(p) /\ \A b \in Account : seen'[p][b].was = seen[p][b].was
    BY <1>2, <2>0, <2>1, <2>2, <2>3 DEF SeenKept, Saw
  <2>11. \A b \in Account : Good(b, seen[p][b])'
    <3>1. ASSUME NEW b \in Account, b # a PROVE Good(b, seen[p][b])'
      <4>1. seen'[p][b] = seen[p][b]
        BY <2>3, <3>1 DEF Saw
      <4>. QED BY <1>4, <2>4, <3>1, <4>1 DEF Good, Known
    <3>2. Good(a, seen[p][a])'
      <4>1. CASE Saw(p, a, k)
        BY <2>2, <2>5, <4>1 DEF Good, Known, Saw
      <4>2. CASE UNCHANGED seen
        BY <1>2, <1>4, <2>0, <4>2 DEF Good
      <4>. QED BY <2>3, <4>1, <4>2
    <3>. QED BY <3>1, <3>2
  <2>12. pc'[p] = "keep" => Known(on[p], Mine(p).pair)'
    BY <1>3, <2>0, <2>2, <2>3, <2>4 DEF Known, Mine, Saw
  <2>13. Checking(p)' /\ Claiming(p)'
    BY <2>3, <2>11, <2>12 DEF Checking, Claiming
  <2>14. kind'[p] = "check" /\ \A q \in Proc \ {p} : kind[q] # "check"
    BY <1>2, <1>3 DEF PairInv
  <2>15. \A b \in Account : link'[b].was \in {link[b].was, None}
    BY <1>3
  <2>. QED BY <1>3, <2>6, <2>7, <2>8, <2>9, <2>10, <2>13, <2>14, <2>15, PairOf
<1>. QED BY <1>1, <1>5, <1>6, RefreshUserTokensDoes

\* RefreshRefused keeps what is known of the pairs.
LEMMA RefreshRefusedPair ==
    ASSUME Sound, PairInv, NEW p \in Proc, RefreshRefused(p)
    PROVE  PairInv'
<1>1. TypeOK /\ Role(p) /\ Claiming(p) /\ Checking(p) /\ on[p] \in Account
  BY DEF Sound, PairInv, Role, RefreshRefused, At, ClaimPlaces, NarrowPlaces, AskPlaces, CheckPlaces, TypeOK, Kinds
<1>2. Mine(p) \in Link /\ kind[p] = "check" /\ Checking(p) /\ Mine(p) = seen[p][on[p]]
  BY <1>1 DEF Mine, TypeOK, Role, PairInv, RefreshRefused, At, CheckPlaces, AskPlaces
<1>3. /\ Others(p) /\ UNCHANGED <<world, link, kind, on, cred>> /\ pc[p] = "refused" /\ pc'[p] = "next"
      /\ Saw(p, on[p], IF Valid(on[p], Mine(p), cred[p]) THEN Unverifiable(Mine(p)) ELSE Lose(Mine(p), Mine(p).pair))
  BY <1>1, RefreshRefusedDoes
<1>4. CASE Valid(on[p], Mine(p), cred[p])
  <2>. DEFINE k == Unverifiable(Mine(p))
  <2>1. k \in Link /\ k.pair = None /\ k.was = Mine(p).was
    BY <1>2, UnverifiableFields
  <2>. HIDE DEF k
  <2>2. Known(on[p], k.pair) /\ Saw(p, on[p], k)
    BY <1>3, <1>4, <2>1 DEF Known, k
  <2>. QED BY <1>1, <1>2, <1>3, <2>1, <2>2, PairSaw
<1>5. CASE ~Valid(on[p], Mine(p), cred[p])
  <2>. DEFINE k == Lose(Mine(p), Mine(p).pair)
  <2>1. k \in Link /\ k.pair = None /\ k.was = Mine(p).pair
    BY <1>2, LinkFields, LoseFields
  <2>2. k.was = None \/ k.was \in revoked[on[p]]
    BY <1>2, <1>3, <1>5, <2>1 DEF Checking, Known, Valid
  <2>. HIDE DEF k
  <2>3. Known(on[p], k.pair) /\ Saw(p, on[p], k)
    BY <1>3, <1>5, <2>1 DEF Known, k
  <2>. QED BY <1>1, <1>2, <1>3, <2>1, <2>2, <2>3, PairSaw
<1>. QED BY <1>4, <1>5

\* KeepPair keeps what is known of the pairs.
LEMMA KeepPairPair ==
    ASSUME Sound, PairInv, NEW p \in Proc, KeepPair(p)
    PROVE  PairInv'
<1>1. TypeOK /\ Role(p) /\ Claiming(p) /\ Checking(p) /\ on[p] \in Account
  BY DEF Sound, PairInv, Role, KeepPair, At, ClaimPlaces, NarrowPlaces, AskPlaces, CheckPlaces, TypeOK, Kinds
<1>2. Mine(p) \in Link /\ kind[p] = "check" /\ Checking(p) /\ Mine(p) = seen[p][on[p]]
  BY <1>1 DEF Mine, TypeOK, Role, PairInv, KeepPair, At, CheckPlaces, AskPlaces
<1>3. /\ Others(p) /\ UNCHANGED <<world, kind, on, cred, seen>> /\ pc[p] = "keep" /\ pc'[p] = "user"
      /\ UNCHANGED link \/ Written(p, on[p], Mine(p))
  BY <1>1, KeepPairDoes DEF local
<1>4. Known(on[p], Mine(p).pair)
  BY <1>2, <1>3 DEF Checking
<1>5. Checking(p)' /\ Claiming(p)'
  BY <1>2, <1>3, <1>4 DEF Checking, Claiming, Good, Known, world, Mine
<1>6. CASE UNCHANGED link
  BY <1>1, <1>2, <1>3, <1>5, <1>6, PairQuiet
<1>7. CASE Written(p, on[p], Mine(p))
  <2>1. Mine(p).pair = seen[p][on[p]].pair /\ Mine(p).was = seen[p][on[p]].was
    BY <1>2
  <2>2. \A b \in Account : seen'[p][b].pair = seen[p][b].pair /\ seen'[p][b].was = seen[p][b].was
    BY <1>3
  <2>. QED BY <1>1, <1>2, <1>3, <1>4, <1>5, <1>7, <2>1, <2>2, PairWritten
<1>. QED BY <1>3, <1>6, <1>7

\* CheckUser keeps what is known of the pairs.
LEMMA CheckUserPair ==
    ASSUME Sound, PairInv, NEW p \in Proc, CheckUser(p)
    PROVE  PairInv'
<1>1. TypeOK /\ Role(p) /\ Claiming(p) /\ Checking(p) /\ on[p] \in Account
  BY DEF Sound, PairInv, Role, CheckUser, At, ClaimPlaces, NarrowPlaces, AskPlaces, CheckPlaces, TypeOK, Kinds
<1>2. Mine(p) \in Link /\ kind[p] = "check" /\ Checking(p) /\ Mine(p) = seen[p][on[p]]
  BY <1>1 DEF Mine, TypeOK, Role, PairInv, CheckUser, At, CheckPlaces, AskPlaces
<1>3. /\ Others(p) /\ UNCHANGED <<world, link, kind, on, cred>> /\ pc[p] = "user" /\ pc'[p] = "next"
  BY <1>1, CheckUserDoes
<1>4. Known(on[p], Mine(p).pair)
  BY <1>2, <1>3 DEF Checking
<1>5. ASSUME NEW was \in Pair \cup {None}, was = None \/ was \in revoked[on[p]], Saw(p, on[p], Lose(Mine(p), was)) PROVE PairInv'
  <2>. DEFINE k == Lose(Mine(p), was)
  <2>1. k \in Link /\ k.pair = None /\ k.was = was
    BY <1>2, LoseFields
  <2>. HIDE DEF k
  <2>2. Known(on[p], k.pair) /\ Saw(p, on[p], k)
    BY <1>5, <2>1 DEF Known, k
  <2>. QED BY <1>1, <1>2, <1>3, <1>5, <2>1, <2>2, PairSaw
<1>6. CASE Mine(p).pair \notin live[on[p]] /\ Saw(p, on[p], Lose(Mine(p), Mine(p).pair))
  <2>1. Mine(p).pair \in Pair \cup {None}
    BY <1>2, LinkFields
  <2>2. Mine(p).pair = None \/ Mine(p).pair \in revoked[on[p]]
    BY <1>4, <1>6 DEF Known
  <2>. QED BY <1>5, <1>6, <2>1, <2>2
<1>7. CASE Saw(p, on[p], [Mine(p) EXCEPT !.emails = Mine(p).emails \cap verified[on[p]]])
  <2>. DEFINE kept == Mine(p).emails \cap verified[on[p]]
              k == [Mine(p) EXCEPT !.emails = kept]
  <2>1. kept \in SUBSET Email
    BY <1>2, LinkFields
  <2>2. k \in Link /\ k.pair = Mine(p).pair /\ k.was = Mine(p).was
    BY <1>2, <2>1, EmailsFields
  <2>3. Saw(p, on[p], k)
    BY <1>7
  <2>. HIDE DEF k, kept
  <2>4. Known(on[p], k.pair)
    BY <1>4, <2>2
  <2>. QED BY <1>1, <1>2, <1>3, <2>2, <2>3, <2>4, PairSaw
<1>. QED BY <1>1, <1>5, <1>6, <1>7, CheckUserDoes

\* CheckFails keeps what is known of the pairs.
LEMMA CheckFailsPair ==
    ASSUME Sound, PairInv, NEW p \in Proc, CheckFails(p)
    PROVE  PairInv'
<1>1. TypeOK /\ Role(p) /\ Claiming(p) /\ Checking(p)
  BY DEF Sound, PairInv, Role, CheckFails, At, ClaimPlaces, NarrowPlaces, AskPlaces, CheckPlaces, TypeOK, Kinds
<1>2. /\ Others(p) /\ UNCHANGED <<world, link>>
      /\ seen'[p] = seen[p] \/ Ended(p)
      /\ kind'[p] = kind[p] \/ Ended(p)
  BY <1>1, CheckFailsDoes DEF local
<1>3. kind[p] # "none"
  BY <1>1 DEF Role, CheckFails, At, CheckPlaces, AskPlaces
<1>4. Claiming(p)' \/ Ended(p)
  BY <1>1, CheckFailsDoes DEF Claiming
<1>5. Checking(p)' \/ Ended(p)
  BY <1>1, <1>2, <1>3, CheckFailsDoes, StillKnown DEF Checking, Role, local, Mine, Good, CheckPlaces, AskPlaces, ClaimPlaces
<1>6. (kind'[p] = kind[p] \/ kind'[p] # "check") /\ (kind'[p] # "none" \/ Ended(p))
  BY <1>2, <1>3 DEF Ended
<1>. QED BY <1>2, <1>4, <1>5, <1>6, PairQuiet

\* UpdateChanged keeps what is known of the pairs.
LEMMA UpdateChangedPair ==
    ASSUME Sound, PairInv, NEW p \in Proc, UpdateChanged(p)
    PROVE  PairInv'
<1>1. TypeOK /\ Role(p) /\ Claiming(p) /\ Checking(p)
  BY DEF Sound, PairInv, Role, UpdateChanged, At, ClaimPlaces, NarrowPlaces, AskPlaces, CheckPlaces, TypeOK, Kinds
<1>2. kind[p] = "check" /\ Checking(p) /\ Others(p) /\ UNCHANGED world /\ pc[p] = "update"
  BY <1>1, UpdateChangedDoes DEF Role, PairInv, CheckPlaces
<1>3. CASE Ended(p) /\ UNCHANGED link
  <2>1. kind'[p] # "check"
    BY <1>3 DEF Ended
  <2>. QED BY <1>1, <1>2, <1>3, <2>1, PairQuiet
<1>4. CASE UNCHANGED <<pc, kind, seen>>
  <2>1. Checking(p)' /\ Claiming(p)'
    BY <1>2, <1>4, CheckingStill DEF Claiming
  <2>2. CASE UNCHANGED link
    BY <1>1, <1>2, <1>4, <2>1, <2>2, PairQuiet
  <2>3. ASSUME NEW a \in changed[p], Written(p, a, seen[p][a]) PROVE PairInv'
    <3>1. a \in Account /\ Good(a, seen[p][a])
      BY <1>1, <1>2 DEF TypeOK, Checking
    <3>2. seen[p][a].refreshing \/ Known(a, seen[p][a].pair)
      BY <3>1 DEF Good
    <3>. QED BY <1>1, <1>2, <1>4, <2>1, <2>3, <3>1, <3>2, PairWritten
  <2>. QED BY <1>1, <2>2, <2>3, <1>2, UpdateChangedDoes DEF Ended
<1>. QED BY <1>1, <1>3, <1>4, UpdateChangedDoes

\* AdoptPick keeps what is known of the pairs.
LEMMA AdoptPickPair ==
    ASSUME Sound, PairInv, NEW p \in Proc, AdoptPick(p)
    PROVE  PairInv'
<1>1. TypeOK /\ Role(p) /\ Claiming(p) /\ Checking(p)
  BY DEF Sound, PairInv, Role, AdoptPick, At, ClaimPlaces, NarrowPlaces, AskPlaces, CheckPlaces, TypeOK, Kinds
<1>2. /\ Others(p) /\ UNCHANGED <<world, link>>
      /\ seen'[p] = seen[p] \/ Ended(p)
      /\ kind'[p] = kind[p] \/ Ended(p)
  BY <1>1, AdoptPickDoes DEF local
<1>3. kind[p] # "none"
  BY <1>1 DEF Role, AdoptPick, At, CheckPlaces, AskPlaces
<1>4. Claiming(p)' \/ Ended(p)
  BY <1>1, AdoptPickDoes DEF Claiming
<1>5. Checking(p)' \/ Ended(p)
  BY <1>1, <1>2, <1>3, AdoptPickDoes, StillKnown DEF Checking, Role, local, Mine, Good, CheckPlaces, AskPlaces, ClaimPlaces
<1>6. (kind'[p] = kind[p] \/ kind'[p] # "check") /\ (kind'[p] # "none" \/ Ended(p))
  BY <1>2, <1>3 DEF Ended
<1>. QED BY <1>2, <1>4, <1>5, <1>6, PairQuiet

\* AdoptWrite keeps what is known of the pairs.
LEMMA AdoptWritePair ==
    ASSUME Sound, PairInv, NEW p \in Proc, AdoptWrite(p)
    PROVE  PairInv'
<1>1. TypeOK /\ Role(p) /\ Claiming(p) /\ Checking(p) /\ on[p] \in Account
  BY DEF Sound, PairInv, Role, AdoptWrite, At, ClaimPlaces, NarrowPlaces, AskPlaces, CheckPlaces, TypeOK, Kinds
<1>. DEFINE k == [NoLink EXCEPT !.state = "linked", !.emails = claim[p]]
<1>2. Others(p) /\ UNCHANGED world /\ Ended(p) /\ (UNCHANGED link \/ Written(p, on[p], k))
  BY <1>1, AdoptWriteDoes
<1>3. k.pair = None /\ k.was = None
  BY <1>1, NewFields DEF TypeOK
<1>. HIDE DEF k
<1>4. Known(on[p], k.pair)
  BY <1>3 DEF Known
<1>5. kind'[p] # "check"
  BY <1>2 DEF Ended
<1>. QED BY <1>1, <1>2, <1>3, <1>4, <1>5, PairQuiet, PairWritten

\* Invalidate keeps what is known of the pairs.
LEMMA InvalidatePair ==
    ASSUME Sound, PairInv, NEW p \in Proc, Invalidate(p)
    PROVE  PairInv'
<1>1. TypeOK /\ Role(p) /\ Claiming(p) /\ Checking(p)
  BY DEF Sound, PairInv, Role, Invalidate, At, ClaimPlaces, NarrowPlaces, AskPlaces, CheckPlaces, TypeOK, Kinds
<1>2. /\ Others(p) /\ UNCHANGED <<world, kind, seen>> /\ pc'[p] \in {"disconnect", "deleteapp"}
  BY <1>1, InvalidateDoes
<1>3. kind[p] # "none"
  BY <1>1 DEF Role, Invalidate, At
<1>4. Claiming(p)' /\ Checking(p)'
  BY <1>1, <1>2, CheckingStill DEF PairInv, Claiming
<1>5. CASE UNCHANGED link
  BY <1>1, <1>2, <1>3, <1>4, <1>5, PairQuiet
<1>6. ASSUME NEW b \in todo[p], Written(p, b, Unverifiable(link[b])) PROVE PairInv'
  <2>. DEFINE k == Unverifiable(link[b])
  <2>1. b \in Account /\ link[b] \in Link
    BY <1>1 DEF TypeOK
  <2>2. k.pair = None /\ k.was = link[b].was
    BY <2>1, UnverifiableFields
  <2>3. Written(p, b, k)
    BY <1>6
  <2>. HIDE DEF k
  <2>4. Known(b, k.pair)
    BY <2>2 DEF Known
  <2>. QED BY <1>1, <1>2, <1>3, <1>4, <2>1, <2>2, <2>3, <2>4, PairWritten
<1>. QED BY <1>1, <1>5, <1>6, InvalidateDoes

\* DeleteLinkApp keeps what is known of the pairs.
LEMMA DeleteLinkAppPair ==
    ASSUME Sound, PairInv, NEW p \in Proc, DeleteLinkApp(p)
    PROVE  PairInv'
<1>1. TypeOK /\ Role(p) /\ Claiming(p) /\ Checking(p)
  BY DEF Sound, PairInv, Role, DeleteLinkApp, At, ClaimPlaces, NarrowPlaces, AskPlaces, CheckPlaces, TypeOK, Kinds
<1>2. Others(p) /\ UNCHANGED <<world, link>> /\ Ended(p)
  BY <1>1, DeleteLinkAppDoes
<1>3. kind'[p] # "check"
  BY <1>2 DEF Ended
<1>. QED BY <1>1, <1>2, <1>3, PairQuiet

\* Crash keeps what is known of the pairs.
LEMMA CrashPair ==
    ASSUME Sound, PairInv, NEW p \in Proc, Crash(p)
    PROVE  PairInv'
<1>1. TypeOK /\ Role(p) /\ Claiming(p) /\ Checking(p)
  BY DEF Sound, PairInv, Role, Crash, At, ClaimPlaces, NarrowPlaces, AskPlaces, CheckPlaces, TypeOK, Kinds
<1>2. Others(p) /\ UNCHANGED <<world, link>> /\ Ended(p)
  BY <1>1, CrashDoes
<1>3. kind'[p] # "check"
  BY <1>2 DEF Ended
<1>. QED BY <1>1, <1>2, <1>3, PairQuiet

\* Every step keeps what is known of the pairs, one check at a time.
LEMMA PairNext == ASSUME ~Overlap, Sound, PairInv, [Next]_vars PROVE PairInv'
<1>1. CASE UNCHANGED vars
  BY <1>1 DEF vars, world, PairInv, Claiming, Checking, Good, Known, Mine, local
<1>2. CASE \/ \E a \in Account : Revoke(a) \/ \E emails \in SUBSET Email : Verify(a, emails)
           \/ \E new \in App : PutLinkApp(new)
  <2>1. /\ UNCHANGED <<link, pc, kind, cred, seen, on>>
        /\ \A a \in Account : \A x : Known(a, x) => Known(a, x)'
        /\ \A a \in Account : revoked[a] \subseteq revoked'[a]
    BY <1>2, WorldDoes DEF Sound, Known, local
  <2>2. \A a \in Account : Good(a, link[a])'
    BY <2>1 DEF PairInv, Good, Known
  <2>3. ASSUME NEW p \in Proc PROVE Claiming(p)'
    <3>1. pc[p] \in {"emails", "mark", "write"} => on[p] \in Account
      BY DEF Sound, Role, ClaimPlaces
    <3>. QED BY <2>1, <3>1 DEF PairInv, Claiming, Known, Mine
  <2>4. ASSUME NEW p \in Proc PROVE Checking(p)'
    <3>1. pc[p] \in AskPlaces => on[p] \in Account
      BY DEF Sound, Role
    <3>2. Checking(p)
      BY DEF PairInv
    <3>3. kind[p] = "check" => \A a \in Account : Good(a, seen[p][a])'
      BY <2>1, <3>2 DEF Checking, Good, Known
    <3>. QED BY <2>1, <3>1, <3>2, <3>3 DEF Checking, Known, Mine, AskPlaces
  <2>. QED BY <2>1, <2>2, <2>3, <2>4 DEF PairInv
<1>3. ASSUME NEW p \in Proc, ClaimStep(p) PROVE PairInv'
  BY <1>3, LinkCallbackPair, LinkableAddressesPair, PutMarkerPair, ClaimWritePair, NarrowListPair, NarrowPair, UnmarkPair DEF ClaimStep
<1>4. ASSUME NEW p \in Proc, ListStep(p) PROVE PairInv'
  BY <1>4, StartPair, MarkersPair, FinishClaimsPair, ListPair DEF ListStep
<1>5. ASSUME NEW p \in Proc, CheckStep(p) PROVE PairInv'
  BY <1>5, LinkCredentialPair, CheckNextPair, CheckAppPair, ProbePair, RefreshDuePair, ClaimRefreshPair, RefreshedElsewherePair, RefreshUserTokensPair, RefreshRefusedPair, KeepPairPair, CheckUserPair, CheckFailsPair, UpdateChangedPair DEF CheckStep
<1>6. ASSUME NEW p \in Proc, AdoptPick(p) \/ AdoptWrite(p) \/ Invalidate(p) \/ DeleteLinkApp(p) \/ Crash(p)
      PROVE  PairInv'
  BY <1>6, AdoptPickPair, AdoptWritePair, InvalidatePair, DeleteLinkAppPair, CrashPair
<1>. QED BY <1>1, <1>2, <1>3, <1>4, <1>5, <1>6 DEF Next

\* A link GitHub is said to have called invalid was revoked by its person
\* (checkLinks), while one check runs at a time: whatever is lost of a refresh,
\* its answer, its write or its process, never loses the link.
THEOREM LostOnRevocationHolds == ~Overlap => (Spec => []LostOnRevocation)
<1>. SUFFICES ASSUME ~Overlap PROVE Spec => []LostOnRevocation
  OBVIOUS
<1>1. ASSUME Init PROVE PairInv
  <2>1. /\ \A a \in Account : link[a] = NoLink /\ \A p \in Proc : seen[p][a] = NoLink
        /\ \A p \in Proc : pc[p] = "idle" /\ kind[p] = "none" /\ seen[p] = [a \in Account |-> NoLink]
    BY <1>1 DEF Init
  <2>2. \A a \in Account : Good(a, link[a])
    BY <2>1, NewFields DEF Good, Known
  <2>3. \A p \in Proc : Claiming(p) /\ Checking(p)
    BY <2>1 DEF Claiming, Checking
  <2>4. \A a \in Account : link[a].was = None /\ \A p \in Proc : seen[p][a].was = None
    <3>1. NoLink.was = None
      BY NewFields
    <3>. QED BY <2>1, <3>1
  <2>. QED BY <2>1, <2>2, <2>3, <2>4 DEF PairInv
<1>2. Sound /\ PairInv /\ [Next]_vars => PairInv'
  BY PairNext
<1>3. PairInv => LostOnRevocation
  BY DEF PairInv, LostOnRevocation
<1>. QED BY <1>1, <1>2, <1>3, SoundAlways, PTL DEF Spec

=============================================================================
