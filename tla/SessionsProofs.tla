--------------------------- MODULE SessionsProofs ---------------------------
(***************************************************************************)
(* Theorems about a browser and its sign-ins, for every set of tabs and    *)
(* accounts and any number of tokens and messages.                         *)
(***************************************************************************)
EXTENDS Sessions, TLAPS

-----------------------------------------------------------------------------
(* Types *)

Request == Sent \union Checked \union Rendered \union Redirected

\* The browser, the tabs and whether requests have overlapped: what handlers leave alone.
browserVars == <<jar, tabs, disturbed>>

LEMMA Unset ==
    /\ NULL # KEPT
    /\ \A u \in Users : u # NULL /\ u # KEPT
    /\ \A n \in Int : n # NULL /\ n # KEPT
    /\ NULL \notin Reads /\ NULL \notin Addresses /\ KEPT \notin Addresses
<1>1. Addresses \subseteq Reads
    BY DEF Reads, Guarded, Public, Addresses
<1>2. \A unset \in {NULL, KEPT} : unset \notin Int /\ unset \notin Users /\ unset \notin Reads
    BY SessionsAssumption
<1>3. NULL # KEPT
    BY SessionsAssumption
<1> QED
    BY <1>1, <1>2, <1>3

LEMMA Numbers ==
    /\ \A n \in Tokens : n \in Nat /\ n # NULL /\ n # KEPT
    /\ \A n \in CsrfTokens : n \in Nat /\ n # NULL /\ n # KEPT
    /\ \A n \in Flashes : n \in Nat /\ n # NULL /\ n # KEPT
<1>1. MaxTokens \in Nat /\ MaxCsrf \in Nat /\ MaxFlash \in Nat
    BY SessionsAssumption
<1> QED
    BY <1>1, Unset DEF Tokens, CsrfTokens, Flashes

\* A request is one of four kinds, told apart by its stage and its location.
LEMMA Kinds ==
    ASSUME TypeOK, NEW t \in Tabs
    PROVE  /\ At(t, "sent") => requests[t] \in Sent
           /\ At(t, "checked") => requests[t] \in Checked
           /\ At(t, "answered") => requests[t] \in Rendered \union Redirected
           /\ At(t, "answered") /\ requests[t].location = NULL => requests[t] \in Rendered
           /\ At(t, "answered") /\ requests[t].location # NULL => requests[t] \in Redirected
           /\ Idle(t) \/ At(t, "sent") \/ At(t, "checked") \/ At(t, "answered")
    BY Unset DEF TypeOK, At, Idle, Sent, Checked, Rendered, Redirected

LEMMA TypeInit == Init => TypeOK
<1>1. MaxTokens \in Nat /\ MaxCsrf \in Nat /\ MaxFlash \in Nat
    BY SessionsAssumption
<1> SUFFICES ASSUME Init PROVE TypeOK
    OBVIOUS
<1>2. jar \in Cookies
    BY DEF Init, Cookies
<1>3. tabs \in [Tabs -> [shows : Page, wanted : Addresses \union {NULL}]]
    BY DEF Init, Page, Blank
<1>4. used \in [tokens : 0..MaxTokens, csrf : 0..MaxCsrf, flash : 0..MaxFlash]
    BY <1>1 DEF Init
<1>5. /\ accounts \in [Users -> {"member", "suspended", "withdrawn"}]
      /\ secured \subseteq Users
      /\ rows \in [Tokens -> [user : Users, due : BOOLEAN] \union {NULL}]
      /\ requests \in [Tabs -> Request \union {NULL}]
      /\ proved \subseteq Users \X {"password", "code"}
      /\ shown \in [Flashes -> Nat]
      /\ disturbed \in BOOLEAN
    BY DEF Init
<1> QED
    BY <1>2, <1>3, <1>4, <1>5 DEF TypeOK, Request

LEMMA HeededCookies ==
    ASSUME NEW route, NEW cookies \in Cookies
    PROVE  /\ Heeded(route, cookies) \in Cookies
           /\ Heeded(route, cookies).csrf = cookies.csrf
           /\ Heeded(route, cookies).flash = cookies.flash
           /\ Heeded(route, cookies).session \in {cookies.session, NULL}
           /\ Heeded(route, cookies).pending \in {cookies.pending, NULL}
           /\ route \in SessionRoutes => Heeded(route, cookies).session = cookies.session
    BY DEF Heeded, Cookies

LEMMA OutgoingType ==
    ASSUME NEW route \in Reads \union Writes, NEW cookies \in Cookies,
           NEW csrf \in CsrfTokens \union {NULL}, NEW to \in Addresses \union {NULL}
    PROVE  Outgoing(route, cookies, csrf, to) \in Sent
<1>1. Heeded(route, cookies) \in Cookies
    BY HeededCookies
<1>2. Gone \in SUBSET Users
    BY DEF Gone
<1> QED
    BY <1>1, <1>2 DEF Outgoing, Sent

\* What the pages offer is a form of a sign-in, of a sign-out or of a withdrawal, or a link.
LEMMA Offered ==
    ASSUME NEW shows
    PROVE  /\ Offers(shows).forms \subseteq Writes
           /\ Offers(shows).links \subseteq Steps
           /\ Offers(shows).forms \intersect SignIns # {} => shows.page \in Steps
           /\ Offers(shows).links \intersect {"challenge", "recovery"} # {} => shows.page \in Steps
    BY DEF Offers, SignInPage, ChallengePage, RecoveryPage, WithdrawalPage, WelcomePage, Sidebar,
           Writes, SignIns, Steps

\* The four ways a tab sends a request of its own.
Sends(t, route, csrf, to, wanted) ==
    /\ route \in Reads \union Writes
    /\ \/ /\ route \in Reads
          /\ csrf = NULL /\ to = NULL /\ wanted = NULL
       \/ /\ route \in Offers(tabs[t].shows).links
          /\ csrf = NULL /\ to = tabs[t].shows.to
          /\ wanted = IF route = "sign_in" THEN to ELSE tabs[t].wanted
       \/ /\ route \in Offers(tabs[t].shows).forms
          /\ csrf = tabs[t].shows.csrf /\ to = tabs[t].shows.to /\ wanted = tabs[t].wanted
    /\ Send(t, route, csrf, to, wanted)

LEMMA Browsing ==
    ASSUME NEW t \in Tabs, Browse(t)
    PROVE  Deliver(t) \/ \E route, csrf, to, wanted : Sends(t, route, csrf, to, wanted)
<1>1. CASE \E route \in Entries[t] : Visit(t, route)
  <2>1. Entries[t] \subseteq Reads
      BY SessionsAssumption
  <2> QED
      BY <1>1, <2>1 DEF Visit, Sends
<1>2. CASE Follow(t)
  <2>1. PICK route \in Offers(tabs[t].shows).links :
            Send(t, route, NULL, tabs[t].shows.to,
                 IF route = "sign_in" THEN tabs[t].shows.to ELSE tabs[t].wanted)
      BY <1>2 DEF Follow
  <2>2. route \in Reads
      BY Offered DEF Reads
  <2> QED
      BY <2>1, <2>2 DEF Sends
<1>3. CASE Submit(t)
  <2>1. PICK route \in Offers(tabs[t].shows).forms :
            Send(t, route, tabs[t].shows.csrf, tabs[t].shows.to, tabs[t].wanted)
      BY <1>3 DEF Submit
  <2>2. route \in Writes
      BY Offered
  <2> QED
      BY <2>1, <2>2 DEF Sends
<1> QED
    BY <1>1, <1>2, <1>3 DEF Browse

\* The browser's state after a request was sent.
LEMMA SentRows ==
    ASSUME TypeOK, NEW t \in Tabs, NEW route, NEW csrf, NEW to, NEW wanted,
           Sends(t, route, csrf, to, wanted)
    PROVE  /\ Idle(t)
           /\ requests'[t] \in Sent
           /\ requests'[t].route = route
           /\ requests'[t].cookies = Heeded(route, jar)
           /\ requests'[t].csrf = csrf /\ requests'[t].to = to
           /\ requests'[t].gone = Gone
           /\ \A s \in Tabs \ {t} : requests'[s] = requests[s]
           /\ tabs'[t] = [shows |-> Blank, wanted |-> wanted]
           /\ \A s \in Tabs \ {t} : tabs'[s] = tabs[s]
           /\ disturbed' = (disturbed \/ InFlight # {})
           /\ UNCHANGED <<accounts, secured, rows, jar, proved, shown, used>>
           /\ TypeOK'
<1>1. tabs[t] \in [shows : Page, wanted : Addresses \union {NULL}]
    BY DEF TypeOK
<1>2. /\ csrf \in CsrfTokens \union {NULL}
      /\ to \in Addresses \union {NULL}
      /\ wanted \in Addresses \union {NULL}
      /\ route \in Reads \union Writes
    BY <1>1 DEF Sends, Page
<1>3. Outgoing(route, jar, csrf, to) \in Sent
    BY <1>2, OutgoingType DEF TypeOK
<1>4. PICK q \in Sent : q = Outgoing(route, jar, csrf, to)
    BY <1>3
<1>5. /\ requests' = [requests EXCEPT ![t] = q]
      /\ tabs' = [tabs EXCEPT ![t] = [shows |-> Blank, wanted |-> wanted]]
      /\ disturbed' = (disturbed \/ InFlight # {})
      /\ UNCHANGED <<accounts, secured, rows, jar, proved, shown, used>>
      /\ Idle(t)
    BY <1>4 DEF Sends, Send
<1>6. /\ requests' \in [Tabs -> Request \union {NULL}]
      /\ requests'[t] = q
      /\ \A s \in Tabs \ {t} : requests'[s] = requests[s]
    BY <1>5 DEF TypeOK, Request
<1>7. Blank \in Page
    BY DEF Blank, Page
<1>8. /\ tabs' \in [Tabs -> [shows : Page, wanted : Addresses \union {NULL}]]
      /\ tabs'[t] = [shows |-> Blank, wanted |-> wanted]
      /\ \A s \in Tabs \ {t} : tabs'[s] = tabs[s]
    BY <1>2, <1>5, <1>7 DEF TypeOK
<1>9. disturbed' \in BOOLEAN
    BY <1>5
<1>10. TypeOK'
    BY <1>5, <1>6, <1>8, <1>9 DEF TypeOK, Request
<1>11. /\ q.route = route /\ q.cookies = Heeded(route, jar)
       /\ q.csrf = csrf /\ q.to = to /\ q.gone = Gone
    BY <1>4 DEF Outgoing
<1> QED
    BY <1>5, <1>6, <1>8, <1>10, <1>11

LEMMA StoredCookies ==
    ASSUME TypeOK, NEW sets \in SetCookies
    PROVE  /\ Stored(sets) \in Cookies
           /\ Stored(sets).session = After(sets.session, jar.session)
           /\ Stored(sets).pending = After(sets.pending, jar.pending)
           /\ Stored(sets).csrf = After(sets.csrf, jar.csrf)
           /\ Stored(sets).flash = After(sets.flash, jar.flash)
    BY DEF TypeOK, Stored, After, Cookies, SetCookies

\* The browser's state after an answer: a page in the tab, or the next request on its way.
LEMMA DeliveredRows ==
    ASSUME TypeOK, NEW t \in Tabs, Deliver(t)
    PROVE  /\ At(t, "answered")
           /\ requests[t].sets \in SetCookies
           /\ jar' = Stored(requests[t].sets)
           /\ \A s \in Tabs \ {t} : requests'[s] = requests[s] /\ tabs'[s] = tabs[s]
           /\ \/ /\ requests[t] \in Rendered
                 /\ requests'[t] = NULL
                 /\ tabs'[t].shows = requests[t].page
                 /\ tabs'[t].wanted = tabs[t].wanted
              \/ /\ requests[t] \in Redirected
                 /\ requests'[t] \in Sent
                 /\ requests'[t].route = requests[t].location
                 /\ requests'[t].cookies = Heeded(requests[t].location, jar')
                 /\ requests'[t].csrf = NULL /\ requests'[t].to = requests[t].to
                 /\ requests'[t].gone = Gone
                 /\ tabs'[t].shows = tabs[t].shows
                 /\ tabs'[t].wanted = Wanted(t)
           /\ UNCHANGED <<accounts, secured, rows, proved, shown, used, disturbed>>
           /\ TypeOK'
<1>0. tabs[t] \in [shows : Page, wanted : Addresses \union {NULL}]
    BY DEF TypeOK
<1>1. At(t, "answered") /\ requests[t].sets \in SetCookies
  <2>1. At(t, "answered")
      BY DEF Deliver, At
  <2> QED
      BY <2>1, Kinds DEF Rendered, Redirected
<1>2. jar' = Stored(requests[t].sets) /\ jar' \in Cookies
    BY <1>1, StoredCookies DEF Deliver
<1>3. UNCHANGED <<accounts, secured, rows, proved, shown, used, disturbed>>
    BY DEF Deliver
<1>4. CASE requests[t].location = NULL
  <2>1. requests[t] \in Rendered /\ requests[t].page \in Page
      BY <1>1, <1>4, Kinds DEF Rendered
  <2>2. /\ tabs' = [tabs EXCEPT ![t].shows = requests[t].page]
        /\ requests' = [requests EXCEPT ![t] = NULL]
      BY <1>4 DEF Deliver
  <2>3. /\ tabs' \in [Tabs -> [shows : Page, wanted : Addresses \union {NULL}]]
        /\ tabs'[t].shows = requests[t].page
        /\ tabs'[t].wanted = tabs[t].wanted
        /\ \A s \in Tabs \ {t} : tabs'[s] = tabs[s]
      BY <1>0, <2>1, <2>2 DEF TypeOK
  <2>4. /\ requests' \in [Tabs -> Request \union {NULL}]
        /\ requests'[t] = NULL
        /\ \A s \in Tabs \ {t} : requests'[s] = requests[s]
      BY <2>2 DEF TypeOK, Request
  <2>5. TypeOK'
      BY <1>2, <1>3, <2>3, <2>4 DEF TypeOK, Request
  <2> QED
      BY <1>1, <1>2, <1>3, <2>1, <2>3, <2>4, <2>5
<1>5. CASE requests[t].location # NULL
  <2>1. /\ requests[t] \in Redirected
        /\ requests[t].location \in Reads
        /\ requests[t].to \in Addresses \union {NULL}
      BY <1>1, <1>5, Kinds DEF Redirected
  <2>2. Outgoing(requests[t].location, jar', NULL, requests[t].to) \in Sent
      BY <1>2, <2>1, OutgoingType
  <2>3. PICK q \in Sent : q = Outgoing(requests[t].location, jar', NULL, requests[t].to)
      BY <2>2
  <2>4. Wanted(t) \in Addresses \union {NULL}
      BY <1>0 DEF Wanted, Addresses
  <2>5. /\ tabs' = [tabs EXCEPT ![t].wanted = Wanted(t)]
        /\ requests' = [requests EXCEPT ![t] = q]
      BY <1>2, <1>5, <2>3 DEF Deliver
  <2>6. /\ tabs' \in [Tabs -> [shows : Page, wanted : Addresses \union {NULL}]]
        /\ tabs'[t].shows = tabs[t].shows
        /\ tabs'[t].wanted = Wanted(t)
        /\ \A s \in Tabs \ {t} : tabs'[s] = tabs[s]
      BY <1>0, <2>4, <2>5 DEF TypeOK
  <2>7. /\ requests' \in [Tabs -> Request \union {NULL}]
        /\ requests'[t] = q
        /\ \A s \in Tabs \ {t} : requests'[s] = requests[s]
      BY <2>5 DEF TypeOK, Request
  <2>8. TypeOK'
      BY <1>2, <1>3, <2>6, <2>7 DEF TypeOK, Request
  <2>9. /\ q.route = requests[t].location
        /\ q.cookies = Heeded(requests[t].location, jar')
        /\ q.csrf = NULL /\ q.to = requests[t].to /\ q.gone = Gone
      BY <2>3 DEF Outgoing
  <2> QED
      BY <1>1, <1>2, <1>3, <2>1, <2>6, <2>7, <2>8, <2>9
<1> QED
    BY <1>4, <1>5

-----------------------------------------------------------------------------
(* What a handler does to its request *)

\* The other tabs wait for answers of their own.
OnlyOf(t) ==
    /\ requests' \in [Tabs -> Request \union {NULL}]
    /\ \A s \in Tabs \ {t} : requests'[s] = requests[s]

Answers(t, page, location, to) ==
    /\ OnlyOf(t)
    /\ requests'[t] \in Rendered \union Redirected
    /\ requests'[t].stage = "answered"
    /\ requests'[t].route = requests[t].route
    /\ requests'[t].page = page
    /\ requests'[t].location = location
    /\ requests'[t].to = to

LEMMA ReplyRows ==
    ASSUME TypeOK, NEW t \in Tabs, At(t, "sent") \/ At(t, "checked"),
           NEW page, NEW location, NEW to, NEW sets \in SetCookies,
           Reply(t, page, location, to, sets),
           \/ page \in Page /\ location = NULL /\ to = NULL
           \/ page = NULL /\ location \in Reads /\ to \in Addresses \union {NULL}
    PROVE  /\ Answers(t, page, location, to)
           /\ requests'[t].sets = sets
<1>1. requests[t].route \in Reads \union Writes
    BY Kinds DEF Sent, Checked, Writes
<1>2. PICK answer : answer = [stage |-> "answered", route |-> requests[t].route, page |-> page,
                              location |-> location, to |-> to, sets |-> sets]
    OBVIOUS
<1>3. answer \in Rendered \union Redirected
    BY <1>1, <1>2 DEF Rendered, Redirected
<1>4. requests' = [requests EXCEPT ![t] = answer]
    BY <1>2 DEF Reply
<1>5. /\ requests' \in [Tabs -> Request \union {NULL}]
      /\ requests'[t] = answer
      /\ \A s \in Tabs \ {t} : requests'[s] = requests[s]
    BY <1>3, <1>4 DEF TypeOK, Request
<1> QED
    BY <1>2, <1>3, <1>5 DEF Answers, OnlyOf

LEMMA AnswerRows ==
    ASSUME TypeOK, NEW t \in Tabs, At(t, "sent") \/ At(t, "checked"),
           NEW page, NEW location, NEW to, NEW sets \in SetCookies,
           Answer(t, page, location, to, sets),
           \/ page \in Page /\ location = NULL /\ to = NULL
           \/ page = NULL /\ location \in Reads /\ to \in Addresses \union {NULL}
    PROVE  /\ Answers(t, page, location, to)
           /\ requests'[t].sets.session = sets.session
           /\ requests'[t].sets.pending = sets.pending
           /\ requests'[t].sets.csrf = sets.csrf
           /\ requests'[t].sets.flash =
                IF sets.flash = KEPT THEN ClearFlash(t) ELSE sets.flash
<1>1. PICK cleared : cleared = [sets EXCEPT !.flash =
                                    IF sets.flash = KEPT THEN ClearFlash(t) ELSE sets.flash]
    OBVIOUS
<1>2. cleared \in SetCookies
    BY <1>1 DEF SetCookies, ClearFlash
<1>3. Reply(t, page, location, to, cleared)
    BY <1>1 DEF Answer
<1>4. Answers(t, page, location, to) /\ requests'[t].sets = cleared
    BY <1>2, <1>3, ReplyRows
<1> QED
    BY <1>1, <1>4 DEF SetCookies

\* What the answers of the handlers set.
LEMMA CookiesSet ==
    ASSUME TypeOK
    PROVE  /\ NoCookies \in SetCookies
           /\ NoCookies.session = KEPT /\ NoCookies.pending = KEPT
           /\ NoCookies.csrf = KEPT /\ NoCookies.flash = KEPT
           /\ \A t \in Tabs : At(t, "sent") /\ ReadCsrf(t) \in CsrfTokens =>
                /\ CsrfCookie(t) \in SetCookies
                /\ CsrfCookie(t).session = KEPT /\ CsrfCookie(t).pending = KEPT
                /\ CsrfCookie(t).flash = KEPT
                /\ CsrfCookie(t).csrf =
                    IF requests[t].cookies.csrf = NULL THEN ReadCsrf(t) ELSE KEPT
           /\ \A u \in Users :
                /\ PendingCookie(u) \in SetCookies
                /\ PendingCookie(u).session = KEPT /\ PendingCookie(u).pending = u
                /\ PendingCookie(u).csrf = KEPT /\ PendingCookie(u).flash = KEPT
           /\ \A k \in Tokens :
                /\ SessionCookie(k) \in SetCookies
                /\ SessionCookie(k).session = k /\ SessionCookie(k).pending = KEPT
                /\ SessionCookie(k).csrf = KEPT /\ SessionCookie(k).flash = KEPT
                /\ NoPending(SessionCookie(k)) \in SetCookies
                /\ NoPending(SessionCookie(k)).session = k
                /\ NoPending(SessionCookie(k)).pending = NULL
                /\ NoPending(SessionCookie(k)).csrf = KEPT
                /\ NoPending(SessionCookie(k)).flash = KEPT
           /\ used.flash + 1 \in Flashes =>
                /\ SetFlash(NoSession) \in SetCookies
                /\ SetFlash(NoSession).session = NULL /\ SetFlash(NoSession).pending = KEPT
                /\ SetFlash(NoSession).csrf = KEPT
                /\ SetFlash(NoSession).flash = used.flash + 1
<1>1. /\ NoCookies \in SetCookies
      /\ NoCookies.session = KEPT /\ NoCookies.pending = KEPT
      /\ NoCookies.csrf = KEPT /\ NoCookies.flash = KEPT
    BY DEF NoCookies, SetCookies
<1>2. ASSUME NEW t \in Tabs, ReadCsrf(t) \in CsrfTokens
      PROVE  /\ CsrfCookie(t) \in SetCookies
             /\ CsrfCookie(t).session = KEPT /\ CsrfCookie(t).pending = KEPT
             /\ CsrfCookie(t).flash = KEPT
             /\ CsrfCookie(t).csrf =
                 IF requests[t].cookies.csrf = NULL THEN ReadCsrf(t) ELSE KEPT
  <2>1. Issues(t) <=> requests[t].cookies.csrf = NULL
    <3>1. ReadCsrf(t) # NULL
        BY <1>2, Numbers
    <3> QED
        BY <3>1 DEF Issues, ReadCsrf
  <2> QED
      BY <1>2, <2>1 DEF CsrfCookie, NoCookies, SetCookies
<1>3. ASSUME NEW u \in Users
      PROVE  /\ PendingCookie(u) \in SetCookies
             /\ PendingCookie(u).session = KEPT /\ PendingCookie(u).pending = u
             /\ PendingCookie(u).csrf = KEPT /\ PendingCookie(u).flash = KEPT
    BY DEF PendingCookie, NoCookies, SetCookies
<1>4. ASSUME NEW k \in Tokens
      PROVE  /\ SessionCookie(k) \in SetCookies
             /\ SessionCookie(k).session = k /\ SessionCookie(k).pending = KEPT
             /\ SessionCookie(k).csrf = KEPT /\ SessionCookie(k).flash = KEPT
             /\ NoPending(SessionCookie(k)) \in SetCookies
             /\ NoPending(SessionCookie(k)).session = k
             /\ NoPending(SessionCookie(k)).pending = NULL
             /\ NoPending(SessionCookie(k)).csrf = KEPT
             /\ NoPending(SessionCookie(k)).flash = KEPT
    BY DEF SessionCookie, NoPending, NoCookies, SetCookies
<1>5. ASSUME used.flash + 1 \in Flashes
      PROVE  /\ SetFlash(NoSession) \in SetCookies
             /\ SetFlash(NoSession).session = NULL /\ SetFlash(NoSession).pending = KEPT
             /\ SetFlash(NoSession).csrf = KEPT
             /\ SetFlash(NoSession).flash = used.flash + 1
    BY <1>5 DEF SetFlash, NoSession, NoCookies, SetCookies
<1> QED
    BY <1>1, <1>2, <1>3, <1>4, <1>5

\* Whose session a request carries: of somebody whose row is there and who is a member.
LEMMA Resolved ==
    ASSUME TypeOK, NEW t \in Tabs, At(t, "sent")
    PROVE  /\ Resolve(t) \in Users \union {NULL}
           /\ requests[t].cookies.session = NULL => Resolve(t) = NULL
           /\ Resolve(t) # NULL =>
                \E k \in Tokens : /\ k = requests[t].cookies.session
                                  /\ rows[k] # NULL
                                  /\ rows[k].user = Resolve(t)
                                  /\ accounts[rows[k].user] = "member"
<1>1. requests[t].cookies.session \in Tokens \union {NULL}
    BY Kinds DEF Sent, Cookies
<1> QED
    BY <1>1, Unset DEF Resolve, TypeOK

\* A page with a form carries a token.
HasToken(page) == Offers(page).forms # {} => page.csrf # NULL

\* The four things that can come of a request in the hands of a handler: a page,
PageComes(t) ==
    LET q == requests[t]
        page == requests'[t].page
        sets == requests'[t].sets
    IN
    /\ At(t, "sent")
    /\ Answers(t, page, NULL, NULL)
    /\ page.page \in Reads
    /\ page.page \in Steps => q.route \in Steps \union SignIns /\ page.to = q.to
    /\ HasToken(page)
    /\ \/ /\ q.route \in Reads
          /\ page.csrf \in {NULL, ReadCsrf(t)}
          /\ sets.csrf = IF q.cookies.csrf = NULL THEN ReadCsrf(t) ELSE KEPT
       \/ /\ q.route \in Writes
          /\ Verified(t)
          /\ page.csrf = q.csrf
          /\ sets.csrf = KEPT
    /\ sets.session = KEPT /\ sets.pending = KEPT /\ sets.flash = ClearFlash(t)
    /\ q.route \in Guarded \union {"delete_account"} => Resolve(t) # NULL
    /\ ShowFlash(t)
    /\ used'.flash = used.flash
    /\ UNCHANGED <<accounts, rows, proved>>

\* an error,
ErrorComes(t) ==
    LET q == requests[t]
        sets == requests'[t].sets
    IN
    /\ Answers(t, Error, NULL, NULL)
    /\ sets.session = KEPT /\ sets.pending = KEPT /\ sets.csrf = KEPT
    /\ \/ sets.flash = KEPT /\ q.route \in Writes /\ At(t, "sent") /\ ~Verified(t)
       \/ sets.flash = KEPT /\ q.route \in Reads /\ q.cookies.csrf = NULL
       \/ sets.flash = ClearFlash(t) /\ (At(t, "checked") \/ q.route \in Guarded \union Writes)
    /\ UNCHANGED <<accounts, rows, proved, shown, used>>

\* a location,
LocationComes(t) ==
    LET q == requests[t]
        location == requests'[t].location
        to == requests'[t].to
        sets == requests'[t].sets
    IN
    /\ Answers(t, NULL, location, to)
    /\ location # NULL
    /\ location \in Steps =>
        \/ location = "challenge" /\ q.route \in SignIns /\ to = q.to
        \/ location = "sign_in" /\ q.route \in Guarded /\ to = q.route
        \/ location = "sign_in" /\ q.route = "delete_account" /\ to = NULL
        \/ location = "sign_in" /\ q.route \in Steps \union SignIns /\ to = q.to
    /\ q.route \in SignIns /\ location \in Addresses => location = AfterSignIn(q.to)
    /\ sets.pending \in {NULL, KEPT} \/ <<sets.pending, "password">> \in proved'
    /\ sets.csrf # KEPT => q.cookies.csrf = NULL
    /\ \/ sets.flash = ClearFlash(t) /\ used'.flash = used.flash
       \/ /\ sets.flash = used.flash + 1 /\ used'.flash = used.flash + 1
          /\ location = "welcome"
          /\ sets.session = NULL /\ sets.csrf = KEPT
          /\ q.route \in Writes
          /\ sets.flash \in Flashes
    /\ At(t, "sent") /\ q.route = "welcome" => Resolve(t) # NULL
    /\ UNCHANGED shown

\* or a check that is passed.
CheckComes(t) ==
    LET q == requests[t]
        user == requests'[t].user
    IN
    /\ At(t, "sent")
    /\ OnlyOf(t)
    /\ requests'[t] \in Checked
    /\ requests'[t].route = q.route
    /\ requests'[t].cookies = q.cookies
    /\ requests'[t].csrf = q.csrf
    /\ requests'[t].to = q.to
    /\ Verified(t)
    /\ q.route \in SignIns =>
        /\ user = q.cookies.pending \/ <<user, "password">> \in proved'
        /\ requests'[t].due => <<user, "code">> \in proved'
    /\ q.route = "delete_account" => Resolve(t) # NULL
    /\ UNCHANGED <<accounts, rows, shown, used>>

\* Whatever comes of it, a session is only inserted for what was checked.
Handled(t) ==
    /\ At(t, "sent") \/ At(t, "checked")
    /\ PageComes(t) \/ ErrorComes(t) \/ LocationComes(t) \/ CheckComes(t)
    /\ \A k \in Tokens : rows'[k] # NULL =>
        \/ rows'[k] = rows[k]
        \/ /\ At(t, "checked")
           /\ requests[t].route \in SignIns
           /\ rows'[k] = [user |-> requests[t].user, due |-> requests[t].due]
    /\ \A u \in Users : accounts'[u] \in {accounts[u], "withdrawn"}
    /\ proved \subseteq proved'
    /\ UNCHANGED <<jar, tabs, disturbed>>
    /\ TypeOK'

LEMMA Reached ==
    ASSUME TypeOK, NEW t \in Tabs, NEW route, Reading(t, route)
    PROVE  /\ At(t, "sent") /\ requests[t] \in Sent /\ requests[t].route = route
           /\ requests[t].to \in Addresses \union {NULL}
           /\ requests[t].csrf \in CsrfTokens \union {NULL}
           /\ requests[t].cookies \in Cookies
           /\ requests[t].cookies.csrf \in CsrfTokens \union {NULL}
    BY Kinds DEF Reading, Sent, Cookies

\* The count of tokens after a read.
LEMMA UsedByRead ==
    ASSUME TypeOK, NEW t \in Tabs, At(t, "sent"), ReadCsrf(t) \in CsrfTokens,
           used' = [used EXCEPT !.csrf = IF Issues(t) THEN ReadCsrf(t) ELSE @]
    PROVE  /\ used' \in [tokens : 0..MaxTokens, csrf : 0..MaxCsrf, flash : 0..MaxFlash]
           /\ used'.flash = used.flash
<1>1. ReadCsrf(t) \in 0..MaxCsrf
    BY Numbers DEF CsrfTokens
<1> QED
    BY <1>1 DEF TypeOK

LEMMA ShownType ==
    ASSUME TypeOK, NEW t \in Tabs, ShowFlash(t)
    PROVE  shown' \in [Flashes -> Nat]
    BY DEF TypeOK, ShowFlash

LEMMA RenderHandled ==
    ASSUME TypeOK, NEW t \in Tabs, At(t, "sent"), requests[t].route \in Reads,
           NEW page \in Reads, NEW csrf \in {NULL, ReadCsrf(t)},
           NEW to \in Addresses \union {NULL},
           Render(t, page, csrf, to),
           page \in Steps => requests[t].route \in Steps /\ to = requests[t].to,
           page \in Steps \union Guarded => csrf = ReadCsrf(t),
           requests[t].route \in Guarded => Resolve(t) # NULL,
           UNCHANGED <<accounts, secured, rows, jar, tabs, proved, disturbed>>
    PROVE  Handled(t)
<1>1. ReadCsrf(t) \in CsrfTokens /\ ReadCsrf(t) # NULL
    BY Numbers DEF Render
<1> DEFINE shows == [page |-> page, csrf |-> csrf, to |-> to]
<1>2. shows \in Page
    BY <1>1 DEF Page
<1>3. HasToken(shows)
    BY <1>1 DEF HasToken, Offers, Sidebar, WelcomePage, Steps, Guarded, Reads, Public
<1>4. CsrfCookie(t) \in SetCookies /\ CsrfCookie(t).session = KEPT /\ CsrfCookie(t).pending = KEPT
      /\ CsrfCookie(t).flash = KEPT
      /\ CsrfCookie(t).csrf = IF requests[t].cookies.csrf = NULL THEN ReadCsrf(t) ELSE KEPT
    BY <1>1, CookiesSet
<1>5. /\ Answers(t, shows, NULL, NULL)
      /\ requests'[t].sets.session = KEPT /\ requests'[t].sets.pending = KEPT
      /\ requests'[t].sets.flash = ClearFlash(t)
      /\ requests'[t].sets.csrf = IF requests[t].cookies.csrf = NULL THEN ReadCsrf(t) ELSE KEPT
    BY <1>2, <1>4, AnswerRows DEF Render
<1>6. /\ used' \in [tokens : 0..MaxTokens, csrf : 0..MaxCsrf, flash : 0..MaxFlash]
      /\ used'.flash = used.flash
    BY <1>1, UsedByRead DEF Render
<1>7. ShowFlash(t) /\ shown' \in [Flashes -> Nat]
    BY ShownType DEF Render
<1>8. TypeOK'
    BY <1>5, <1>6, <1>7 DEF TypeOK, Answers, OnlyOf, Request
<1>9. requests'[t].page = shows
    BY <1>5 DEF Answers
<1>10. PageComes(t)
  <2>1. requests[t].route \notin Writes /\ requests[t].route # "delete_account"
      BY DEF Reads, Writes, Guarded, Public, Steps, SignIns
  <2>2. shows.page = page /\ shows.csrf = csrf /\ shows.to = to
      OBVIOUS
  <2> HIDE DEF shows
  <2> QED
      BY <1>3, <1>5, <1>6, <1>7, <1>9, <2>1, <2>2 DEF PageComes
<1> QED
    BY <1>8, <1>10 DEF Handled

LEMMA RedirectHandled ==
    ASSUME TypeOK, NEW t \in Tabs, At(t, "sent"), requests[t].route \in Reads,
           NEW location \in {"sign_in", "home"}, NEW to \in Addresses \union {NULL},
           Redirect(t, location, to),
           location = "sign_in" =>
                \/ requests[t].route \in Guarded /\ to = requests[t].route
                \/ requests[t].route \in Steps /\ to = requests[t].to,
           requests[t].route = "welcome" => Resolve(t) # NULL,
           UNCHANGED <<accounts, secured, rows, jar, tabs, proved, disturbed>>
    PROVE  Handled(t)
<1>1. ReadCsrf(t) \in CsrfTokens /\ ReadCsrf(t) # NULL
    BY Numbers DEF Redirect
<1>2. location \in Reads /\ location # NULL
    BY Unset DEF Reads, Guarded, Steps
<1>3. CsrfCookie(t) \in SetCookies /\ CsrfCookie(t).session = KEPT /\ CsrfCookie(t).pending = KEPT
      /\ CsrfCookie(t).flash = KEPT
      /\ CsrfCookie(t).csrf = IF requests[t].cookies.csrf = NULL THEN ReadCsrf(t) ELSE KEPT
    BY <1>1, CookiesSet
<1>4. /\ Answers(t, NULL, location, to)
      /\ requests'[t].sets.session = KEPT /\ requests'[t].sets.pending = KEPT
      /\ requests'[t].sets.flash = ClearFlash(t)
      /\ requests'[t].sets.csrf = IF requests[t].cookies.csrf = NULL THEN ReadCsrf(t) ELSE KEPT
    BY <1>2, <1>3, AnswerRows DEF Redirect
<1>5. /\ used' \in [tokens : 0..MaxTokens, csrf : 0..MaxCsrf, flash : 0..MaxFlash]
      /\ used'.flash = used.flash
    BY <1>1, UsedByRead DEF Redirect
<1>6. shown' = shown
    BY DEF Redirect
<1>7. TypeOK'
    BY <1>4, <1>5, <1>6 DEF TypeOK, Answers, OnlyOf, Request
<1>8. requests'[t].location = location /\ requests'[t].to = to
    BY <1>4 DEF Answers
<1>9. requests[t].route \notin SignIns
    BY DEF Reads, Guarded, Public, Steps, SignIns
<1>10. LocationComes(t)
  <2>1. location \in Steps => location = "sign_in"
      BY DEF Steps
  <2>2. location \in Steps =>
        \/ location = "sign_in" /\ requests[t].route \in Guarded /\ to = requests[t].route
        \/ /\ location = "sign_in" /\ to = requests[t].to
           /\ requests[t].route \in Steps \union SignIns
      BY <2>1
  <2>3. /\ requests'[t].sets.pending = KEPT
        /\ requests'[t].sets.csrf # KEPT => requests[t].cookies.csrf = NULL
        /\ requests'[t].sets.flash = ClearFlash(t) /\ used'.flash = used.flash
      BY <1>4, <1>5
  <2> QED
      BY <1>2, <1>4, <1>6, <1>8, <1>9, <2>2, <2>3 DEF LocationComes
<1> QED
    BY <1>7, <1>10 DEF Handled

LEMMA ReadHandled ==
    ASSUME TypeOK, NEW t \in Tabs, Read(t)
    PROVE  Handled(t)
<1>0. "sign_in" \in Reads /\ "board" \in Reads /\ "welcome" \in Reads /\ "home" \in Reads
      /\ "challenge" \in Reads /\ "recovery" \in Reads /\ Guarded \subseteq Reads
      /\ Guarded \subseteq Addresses /\ "board" \in Addresses
    BY DEF Reads, Guarded, Public, Steps, Addresses
<1>1. CASE ShowGuarded(t)
  <2>1. PICK route \in Guarded :
        /\ Reading(t, route)
        /\ \/ /\ Resolve(t) = NULL
              /\ Redirect(t, "sign_in", route)
           \/ /\ Resolve(t) # NULL
              /\ Render(t, route, ReadCsrf(t), NULL)
      BY <1>1 DEF ShowGuarded
  <2>2. route \notin Steps /\ route # "welcome"
      BY DEF Guarded, Steps
  <2>3. CASE Resolve(t) = NULL
      BY <1>0, <1>1, <2>1, <2>2, <2>3, Reached, RedirectHandled DEF ShowGuarded
  <2>4. CASE Resolve(t) # NULL
      BY <1>0, <1>1, <2>1, <2>2, <2>4, Reached, RenderHandled DEF ShowGuarded
  <2> QED
      BY <2>3, <2>4
<1>2. CASE ShowBoard(t)
  <2>1. requests[t].route = "board" /\ At(t, "sent")
      BY <1>2, Reached DEF ShowBoard
  <2>2. "board" \notin Steps /\ "board" \notin Guarded
      BY DEF Guarded, Steps
  <2> QED
      BY <1>0, <1>2, <2>1, <2>2, RenderHandled DEF ShowBoard
<1>3. CASE ShowWelcome(t)
  <2>1. requests[t].route = "welcome" /\ At(t, "sent")
      BY <1>3, Reached DEF ShowWelcome
  <2>2. "welcome" \notin Steps /\ "welcome" \notin Guarded /\ "home" # "sign_in"
      BY DEF Guarded, Steps
  <2>3. CASE Resolve(t) # NULL /\ Redirect(t, "home", NULL)
      BY <1>0, <1>3, <2>1, <2>2, <2>3, RedirectHandled DEF ShowWelcome
  <2>4. CASE Render(t, "welcome", NULL, NULL)
      BY <1>0, <1>3, <2>1, <2>2, <2>4, RenderHandled DEF ShowWelcome
  <2> QED
      BY <1>3, <2>3, <2>4 DEF ShowWelcome
<1>4. CASE NewSignIn(t)
  <2>1. requests[t].route = "sign_in" /\ At(t, "sent") /\ requests[t].to \in Addresses \union {NULL}
      BY <1>4, Reached DEF NewSignIn
  <2>2. "sign_in" \in Steps /\ "sign_in" \notin Guarded
      BY DEF Guarded, Steps
  <2> QED
      BY <1>0, <1>4, <2>1, <2>2, RenderHandled DEF NewSignIn
<1>5. ASSUME NEW route \in {"challenge", "recovery"}, NewChallenge(t, route)
      PROVE  Handled(t)
  <2>1. requests[t].route = route /\ At(t, "sent") /\ requests[t].to \in Addresses \union {NULL}
      BY <1>5, Reached DEF NewChallenge
  <2>2. route \in Steps /\ route \notin Guarded /\ route # "welcome" /\ route \in Reads
      BY <1>0 DEF Guarded, Steps
  <2>3. CASE requests[t].cookies.pending = NULL
      BY <1>0, <1>5, <2>1, <2>2, <2>3, RedirectHandled DEF NewChallenge
  <2>4. CASE requests[t].cookies.pending # NULL
      BY <1>0, <1>5, <2>1, <2>2, <2>4, RenderHandled DEF NewChallenge
  <2> QED
      BY <2>3, <2>4
<1> QED
    BY <1>1, <1>2, <1>3, <1>4, <1>5 DEF Read, NewSignInTwoFactor, NewSignInTwoFactorRecovery

\* What follows a write that is sent elsewhere.
LEMMA SeeOtherComes ==
    ASSUME TypeOK, NEW t \in Tabs, At(t, "sent") \/ At(t, "checked"),
           requests[t].route \in Writes,
           NEW location \in Reads, NEW to \in Addresses \union {NULL}, NEW sets \in SetCookies,
           SeeOther(t, location, to, sets),
           location \in Steps =>
                \/ location = "challenge" /\ requests[t].route \in SignIns /\ to = requests[t].to
                \/ location = "sign_in" /\ requests[t].route = "delete_account" /\ to = NULL
                \/ location = "sign_in" /\ requests[t].route \in SignIns /\ to = requests[t].to,
           requests[t].route \in SignIns /\ location \in Addresses =>
                location = AfterSignIn(requests[t].to),
           sets.pending \in {NULL, KEPT} \/ <<sets.pending, "password">> \in proved',
           sets.csrf = KEPT,
           \/ sets.flash = KEPT /\ used'.flash = used.flash
           \/ /\ sets.flash = used.flash + 1 /\ used'.flash = used.flash + 1
              /\ location = "welcome" /\ sets.session = NULL /\ sets.flash \in Flashes
    PROVE  /\ LocationComes(t)
           /\ OnlyOf(t)
           /\ shown' = shown
<1>1. /\ Answers(t, NULL, location, to)
      /\ requests'[t].sets.session = sets.session
      /\ requests'[t].sets.pending = sets.pending
      /\ requests'[t].sets.csrf = sets.csrf
      /\ requests'[t].sets.flash = IF sets.flash = KEPT THEN ClearFlash(t) ELSE sets.flash
    BY AnswerRows DEF SeeOther
<1>2. requests'[t].location = location /\ requests'[t].to = to
    BY <1>1 DEF Answers
<1>3. location # NULL
    BY Unset
<1>4. shown' = shown
    BY DEF SeeOther
<1>5. requests[t].route # "welcome"
    BY DEF Writes, SignIns
<1>6. \/ requests'[t].sets.flash = ClearFlash(t) /\ used'.flash = used.flash
      \/ /\ requests'[t].sets.flash = used.flash + 1 /\ used'.flash = used.flash + 1
         /\ location = "welcome" /\ requests'[t].sets.session = NULL
         /\ requests'[t].sets.flash \in Flashes
    BY <1>1, Numbers
<1>7. location \in Steps =>
        \/ location = "challenge" /\ requests[t].route \in SignIns /\ to = requests[t].to
        \/ location = "sign_in" /\ requests[t].route \in Guarded /\ to = requests[t].route
        \/ location = "sign_in" /\ requests[t].route = "delete_account" /\ to = NULL
        \/ /\ location = "sign_in" /\ to = requests[t].to
           /\ requests[t].route \in Steps \union SignIns
    OBVIOUS
<1>8. /\ requests'[t].sets.pending \in {NULL, KEPT}
            \/ <<requests'[t].sets.pending, "password">> \in proved'
      /\ requests'[t].sets.csrf = KEPT
    BY <1>1
<1>9. LocationComes(t)
    BY <1>1, <1>2, <1>3, <1>4, <1>5, <1>6, <1>7, <1>8 DEF LocationComes
<1> QED
    BY <1>1, <1>4, <1>9 DEF Answers

\* What is known of a request after its check.
LEMMA CheckRows ==
    ASSUME TypeOK, NEW t \in Tabs, At(t, "sent"),
           requests[t].route \in SignIns \union {"delete_account"},
           NEW u \in Users, NEW due \in BOOLEAN, Check(t, u, due)
    PROVE  /\ OnlyOf(t)
           /\ requests'[t] \in Checked
           /\ requests'[t].route = requests[t].route
           /\ requests'[t].cookies = requests[t].cookies
           /\ requests'[t].csrf = requests[t].csrf
           /\ requests'[t].to = requests[t].to
           /\ requests'[t].user = u
           /\ requests'[t].due = due
<1>1. requests[t] \in Sent
    BY Kinds
<1>2. PICK q : q = [requests[t] EXCEPT !.stage = "checked", !.user = u, !.due = due]
    OBVIOUS
<1>3. q \in Checked
    BY <1>1, <1>2 DEF Sent, Checked
<1>4. /\ q.route = requests[t].route /\ q.cookies = requests[t].cookies
      /\ q.csrf = requests[t].csrf /\ q.to = requests[t].to
      /\ q.user = u
    BY <1>1, <1>2 DEF Sent
<1>5. q.due = due
    BY <1>1, <1>2, Zenon DEF Sent
<1>6. requests' = [requests EXCEPT ![t] = q]
    BY <1>2, Zenon DEF Check
<1>7. /\ requests' \in [Tabs -> Request \union {NULL}]
      /\ requests'[t] = q
      /\ \A s \in Tabs \ {t} : requests'[s] = requests[s]
    BY <1>3, <1>6 DEF TypeOK, Request
<1>8. requests'[t].due = due
    BY <1>5, <1>7, Zenon
<1> QED
    BY <1>3, <1>4, <1>7, <1>8 DEF OnlyOf

-----------------------------------------------------------------------------
(* The handlers that write *)

\* A write that is reached has passed the check of its token.
LEMMA ReachedWrite ==
    ASSUME TypeOK, NEW t \in Tabs, NEW route \in Writes, Writing(t, route)
    PROVE  /\ At(t, "sent") /\ requests[t] \in Sent /\ requests[t].route = route
           /\ requests[t].to \in Addresses \union {NULL}
           /\ requests[t].csrf \in CsrfTokens /\ requests[t].csrf # NULL
           /\ requests[t].cookies \in Cookies
           /\ requests[t].cookies.session \in Tokens \union {NULL}
           /\ requests[t].cookies.pending \in Users \union {NULL}
           /\ Verified(t)
           /\ route \notin Reads
<1>1. route \notin Reads
    BY DEF Writes, SignIns, Reads, Guarded, Public, Steps
<1> QED
    BY <1>1, Reached DEF Writing, Verified, Cookies

\* A form that is shown again carries what it came with.
LEMMA RefuseHandled ==
    ASSUME TypeOK, NEW t \in Tabs, NEW route \in Writes, NEW page \in Steps \union {"withdrawal"},
           Writing(t, route), RenderAgain(t, page),
           page \in Steps => route \in SignIns,
           route = "delete_account" => Resolve(t) # NULL,
           UNCHANGED <<accounts, secured, rows, jar, tabs, proved, disturbed>>
    PROVE  Handled(t)
<1>1. /\ At(t, "sent") /\ requests[t].route = route /\ route \notin Reads
      /\ requests[t].to \in Addresses \union {NULL}
      /\ requests[t].csrf \in CsrfTokens /\ requests[t].csrf # NULL
      /\ Verified(t)
    BY ReachedWrite
<1> DEFINE shows == [page |-> page, csrf |-> requests[t].csrf, to |-> requests[t].to]
<1>2. shows \in Page /\ page \in Reads
    BY <1>1 DEF Page, Reads, Guarded
<1>3. HasToken(shows)
    BY <1>1 DEF HasToken
<1>4. /\ Answers(t, shows, NULL, NULL)
      /\ requests'[t].sets.session = KEPT /\ requests'[t].sets.pending = KEPT
      /\ requests'[t].sets.csrf = KEPT /\ requests'[t].sets.flash = ClearFlash(t)
    BY <1>1, <1>2, CookiesSet, AnswerRows DEF RenderAgain
<1>5. ShowFlash(t) /\ shown' \in [Flashes -> Nat] /\ used' = used
    BY ShownType DEF RenderAgain
<1>6. TypeOK'
    BY <1>4, <1>5 DEF TypeOK, Answers, OnlyOf, Request
<1>7. requests'[t].page = shows
    BY <1>4 DEF Answers
<1>8. PageComes(t)
  <2>1. shows.page = page /\ shows.csrf = requests[t].csrf /\ shows.to = requests[t].to
      OBVIOUS
  <2>2. requests[t].route \in Writes /\ route \notin Guarded
      BY <1>1 DEF Reads
  <2> HIDE DEF shows
  <2> QED
      BY <1>1, <1>2, <1>3, <1>4, <1>5, <1>7, <2>1, <2>2 DEF PageComes
<1> QED
    BY <1>1, <1>6, <1>8 DEF Handled

LEMMA ErrorHandled ==
    ASSUME TypeOK, NEW t \in Tabs, Forbid(t) \/ Fail(t) \/ FailToIssue(t)
    PROVE  Handled(t)
<1>1. Error \in Page
    BY DEF Error, Page
<1>2. UNCHANGED <<accounts, secured, rows, jar, tabs, proved, shown, used, disturbed>>
    BY DEF Forbid, Fail, FailToIssue
<1>3. At(t, "sent") \/ At(t, "checked")
    BY DEF Forbid, Fail, FailToIssue
<1>4. CASE Forbid(t)
  <2>1. /\ Answers(t, Error, NULL, NULL)
        /\ requests'[t].sets = NoCookies
      BY <1>1, <1>3, <1>4, CookiesSet, ReplyRows DEF Forbid
  <2>2. ErrorComes(t)
      BY <1>2, <1>4, <2>1, CookiesSet DEF Forbid, ErrorComes
  <2>3. OnlyOf(t)
      BY <2>1 DEF Answers
  <2> QED
      BY <1>2, <1>3, <2>2, <2>3 DEF Handled, TypeOK, OnlyOf, Request
<1>5. CASE FailToIssue(t)
  <2>1. /\ Answers(t, Error, NULL, NULL)
        /\ requests'[t].sets = NoCookies
      BY <1>1, <1>3, <1>5, CookiesSet, ReplyRows DEF FailToIssue
  <2>2. ErrorComes(t)
      BY <1>2, <1>5, <2>1, CookiesSet DEF FailToIssue, ErrorComes
  <2>3. OnlyOf(t)
      BY <2>1 DEF Answers
  <2> QED
      BY <1>2, <1>3, <2>2, <2>3 DEF Handled, TypeOK, OnlyOf, Request
<1>6. CASE Fail(t)
  <2>1. /\ Answers(t, Error, NULL, NULL)
        /\ requests'[t].sets.session = KEPT /\ requests'[t].sets.pending = KEPT
        /\ requests'[t].sets.csrf = KEPT /\ requests'[t].sets.flash = ClearFlash(t)
      BY <1>1, <1>3, <1>6, CookiesSet, AnswerRows DEF Fail
  <2>2. ErrorComes(t)
      BY <1>2, <1>6, <2>1 DEF Fail, ErrorComes
  <2>3. OnlyOf(t)
      BY <2>1 DEF Answers
  <2> QED
      BY <1>2, <1>3, <2>2, <2>3 DEF Handled, TypeOK, OnlyOf, Request
<1> QED
    BY <1>4, <1>5, <1>6

LEMMA CreateSignInHandled ==
    ASSUME TypeOK, NEW t \in Tabs, CreateSignIn(t)
    PROVE  Handled(t)
<1>1. "create_sign_in" \in SignIns /\ SignIns \subseteq Writes
    BY DEF SignIns, Writes
<1>2. /\ At(t, "sent") /\ requests[t].route = "create_sign_in"
      /\ requests[t].to \in Addresses \union {NULL}
      /\ Verified(t)
    BY <1>1, ReachedWrite DEF CreateSignIn
<1>3. UNCHANGED <<accounts, secured, rows, jar, tabs, used, disturbed>>
    BY DEF CreateSignIn
<1>4. PICK u \in Users :
        /\ proved' = proved \union {<<u, "password">>}
        /\ \/ /\ AsksForCode(u)
              /\ SeeOther(t, "challenge", requests[t].to, PendingCookie(u))
           \/ /\ ~AsksForCode(u)
              /\ Check(t, u, u \in secured)
              /\ UNCHANGED shown
    BY DEF CreateSignIn
<1>5. proved' \subseteq Users \X {"password", "code"} /\ proved \subseteq proved'
    BY <1>4 DEF TypeOK
<1>6. CASE AsksForCode(u)
  <2>1. "challenge" \in Reads /\ "challenge" \notin Addresses
      BY DEF Reads, Steps, Addresses, Guarded
  <2>2. LocationComes(t) /\ OnlyOf(t) /\ shown' = shown
      BY <1>1, <1>2, <1>3, <1>4, <1>6, <2>1, CookiesSet, SeeOtherComes
  <2> QED
      BY <1>2, <1>3, <1>5, <2>2 DEF Handled, TypeOK, OnlyOf, Request
<1>7. CASE ~AsksForCode(u)
  <2>1. Check(t, u, u \in secured) /\ shown' = shown /\ u \notin secured
      BY <1>4, <1>7 DEF AsksForCode
  <2> DEFINE due == u \in secured
  <2>2. due \in BOOLEAN /\ ~due /\ Check(t, u, due)
    <3>1. due \in BOOLEAN
        OBVIOUS
    <3>2. ~due
        BY <2>1
    <3>3. Check(t, u, due)
        BY <2>1, Zenon
    <3> QED
        BY <3>1, <3>2, <3>3
  <2> HIDE DEF due
  <2>3. /\ OnlyOf(t)
        /\ requests'[t] \in Checked
        /\ requests'[t].route = requests[t].route /\ requests'[t].cookies = requests[t].cookies
        /\ requests'[t].csrf = requests[t].csrf /\ requests'[t].to = requests[t].to
        /\ requests'[t].user = u
        /\ requests'[t].due = due
      BY <1>1, <1>2, <2>2, CheckRows
  <2>4. ~requests'[t].due
      BY <2>2, <2>3, Zenon
  <2>5. /\ OnlyOf(t)
        /\ requests'[t] \in Checked
        /\ requests'[t].route = requests[t].route /\ requests'[t].cookies = requests[t].cookies
        /\ requests'[t].csrf = requests[t].csrf /\ requests'[t].to = requests[t].to
        /\ requests'[t].user = u
        /\ ~requests'[t].due
      BY <2>3, <2>4
  <2>6. CheckComes(t)
      BY <1>1, <1>2, <1>3, <1>4, <2>1, <2>5 DEF CheckComes, SignIns
  <2> QED
      BY <1>2, <1>3, <1>5, <2>1, <2>5, <2>6 DEF Handled, TypeOK, OnlyOf, Request
<1> QED
    BY <1>6, <1>7

LEMMA TakeCodeHandled ==
    ASSUME TypeOK, NEW t \in Tabs, CreateSignInTwoFactor(t) \/ CreateSignInTwoFactorRecovery(t)
    PROVE  Handled(t)
<1>1. /\ SignIns \subseteq Writes
      /\ {"create_sign_in_two_factor", "create_sign_in_two_factor_recovery"} \subseteq SignIns
    BY DEF SignIns, Writes
<1>2. /\ At(t, "sent") /\ requests[t].route \in SignIns
      /\ requests[t].to \in Addresses \union {NULL}
      /\ requests[t].cookies.pending \in Users \union {NULL}
      /\ Verified(t)
    BY <1>1, ReachedWrite DEF CreateSignInTwoFactor, CreateSignInTwoFactorRecovery
<1>3. TakeCode(t)
    BY DEF CreateSignInTwoFactor, CreateSignInTwoFactorRecovery
<1>4. UNCHANGED <<accounts, secured, rows, jar, tabs, used, disturbed>>
    BY <1>3 DEF TakeCode
<1>5. CASE StartAgain(t) /\ UNCHANGED proved
  <2>1. "sign_in" \in Reads /\ "sign_in" \notin Addresses
      BY DEF Reads, Steps, Addresses, Guarded
  <2>2. LocationComes(t) /\ OnlyOf(t) /\ shown' = shown
      BY <1>1, <1>2, <1>4, <1>5, <2>1, CookiesSet, SeeOtherComes DEF StartAgain
  <2> QED
      BY <1>2, <1>4, <1>5, <2>2 DEF Handled, TypeOK, OnlyOf, Request
<1>6. ASSUME NEW u, u = requests[t].cookies.pending, u \in secured,
             proved' = proved \union {<<u, "code">>}, Check(t, u, TRUE), UNCHANGED shown
      PROVE  Handled(t)
  <2>1. u \in Users
      BY <1>6 DEF TypeOK
  <2>2. proved' \subseteq Users \X {"password", "code"} /\ proved \subseteq proved'
      BY <1>6, <2>1 DEF TypeOK
  <2>3. /\ OnlyOf(t)
        /\ requests'[t] \in Checked
        /\ requests'[t].route = requests[t].route /\ requests'[t].cookies = requests[t].cookies
        /\ requests'[t].csrf = requests[t].csrf /\ requests'[t].to = requests[t].to
        /\ requests'[t].user = u
      BY <1>2, <1>6, <2>1, CheckRows
  <2>4. <<u, "code">> \in proved'
      BY <1>6
  <2>5. requests[t].route # "delete_account"
      BY <1>2 DEF SignIns
  <2>6. CheckComes(t)
      BY <1>2, <1>4, <1>6, <2>3, <2>4, <2>5 DEF CheckComes
  <2> QED
      BY <1>2, <1>4, <1>6, <2>2, <2>3, <2>6 DEF Handled, TypeOK, OnlyOf, Request
<1> QED
    BY <1>3, <1>5, <1>6 DEF TakeCode

\* The row is inserted for the account that was checked.
LEMMA CreateSessionHandled ==
    ASSUME TypeOK, NEW t \in Tabs, CreateSession(t)
    PROVE  Handled(t)
<1>1. PICK token : token = used.tokens + 1
    OBVIOUS
<1>2. /\ At(t, "checked") /\ requests[t].route \in SignIns /\ token \in Tokens
      /\ rows' = [rows EXCEPT ![token] = [user |-> requests[t].user, due |-> requests[t].due]]
      /\ used' = [used EXCEPT !.tokens = token]
      /\ SeeOther(t, AfterSignIn(requests[t].to), NULL,
            IF requests[t].route = "create_sign_in" THEN SessionCookie(token)
            ELSE NoPending(SessionCookie(token)))
      /\ UNCHANGED <<accounts, secured, jar, tabs, proved, disturbed>>
    BY <1>1 DEF CreateSession
<1>3. requests[t] \in Checked
    BY <1>2, Kinds
<1>4. PICK row \in [user : Users, due : BOOLEAN] :
            row = [user |-> requests[t].user, due |-> requests[t].due]
    BY <1>3 DEF Checked
<1>5. /\ rows' \in [Tokens -> [user : Users, due : BOOLEAN] \union {NULL}]
      /\ \A k \in Tokens : rows'[k] = IF k = token THEN row ELSE rows[k]
  <2>1. rows' = [rows EXCEPT ![token] = row]
      BY <1>2, <1>4
  <2> QED
      BY <1>2, <2>1 DEF TypeOK
<1>6. /\ used' \in [tokens : 0..MaxTokens, csrf : 0..MaxCsrf, flash : 0..MaxFlash]
      /\ used'.flash = used.flash
  <2>1. token \in 0..MaxTokens
      BY <1>2, SessionsAssumption DEF Tokens
  <2> QED
      BY <1>2, <2>1 DEF TypeOK
<1>7. /\ AfterSignIn(requests[t].to) \in Reads
      /\ AfterSignIn(requests[t].to) \notin Steps
    BY <1>3 DEF AfterSignIn, Checked, Addresses, Reads, Guarded, Public, Steps
<1>8. PICK sets \in SetCookies :
        /\ sets.pending \in {NULL, KEPT}
        /\ sets.csrf = KEPT /\ sets.flash = KEPT
        /\ SeeOther(t, AfterSignIn(requests[t].to), NULL, sets)
    BY <1>2, CookiesSet
<1>9. LocationComes(t) /\ OnlyOf(t) /\ shown' = shown
  <2>1. requests[t].route \in Writes
      BY <1>2 DEF Writes
  <2> QED
      BY <1>2, <1>6, <1>7, <1>8, <2>1, SeeOtherComes
<1>10. TypeOK'
    BY <1>2, <1>5, <1>6, <1>9 DEF TypeOK, OnlyOf, Request
<1> QED
    BY <1>2, <1>4, <1>5, <1>9, <1>10 DEF Handled

\* What the sign-out and the withdrawal have in common: the message they leave.
LEMMA FlashIsNext ==
    ASSUME TypeOK, used.flash < MaxFlash, used' = [used EXCEPT !.flash = used.flash + 1]
    PROVE  /\ used.flash + 1 \in Flashes
           /\ used'.flash = used.flash + 1
           /\ used' \in [tokens : 0..MaxTokens, csrf : 0..MaxCsrf, flash : 0..MaxFlash]
<1>1. used.flash \in 0..MaxFlash /\ MaxFlash \in Nat
    BY SessionsAssumption DEF TypeOK
<1>2. used.flash + 1 \in 1..MaxFlash
    BY <1>1
<1> QED
    BY <1>2 DEF Flashes, TypeOK

LEMMA DeleteSessionHandled ==
    ASSUME TypeOK, NEW t \in Tabs, DeleteSession(t)
    PROVE  Handled(t)
<1>1. /\ At(t, "sent") /\ requests[t].route = "delete_session"
      /\ requests[t].cookies.session \in Tokens \union {NULL}
  <2>1. "delete_session" \in Writes
      BY DEF Writes
  <2> QED
      BY <2>1, ReachedWrite DEF DeleteSession
<1>2. /\ rows' = RowsAfterSignOut(t)
      /\ SeeOther(t, "welcome", NULL, SetFlash(NoSession))
      /\ UNCHANGED <<accounts, secured, jar, tabs, proved, disturbed>>
    BY DEF DeleteSession
<1>3. /\ used.flash + 1 \in Flashes
      /\ used'.flash = used.flash + 1
      /\ used' \in [tokens : 0..MaxTokens, csrf : 0..MaxCsrf, flash : 0..MaxFlash]
    BY FlashIsNext DEF DeleteSession
<1>4. /\ rows' \in [Tokens -> [user : Users, due : BOOLEAN] \union {NULL}]
      /\ \A k \in Tokens : rows'[k] \in {rows[k], NULL}
    BY <1>1, <1>2 DEF TypeOK, RowsAfterSignOut
<1>5. LocationComes(t) /\ OnlyOf(t) /\ shown' = shown
  <2>1. /\ requests[t].route \in Writes /\ requests[t].route \notin SignIns
        /\ "welcome" \in Reads /\ "welcome" \notin Steps
      BY <1>1 DEF Writes, SignIns, Reads, Public, Steps
  <2> QED
      BY <1>1, <1>2, <1>3, <2>1, CookiesSet, SeeOtherComes
<1>6. TypeOK'
    BY <1>2, <1>3, <1>4, <1>5 DEF TypeOK, OnlyOf, Request
<1> QED
    BY <1>1, <1>2, <1>4, <1>5, <1>6 DEF Handled

LEMMA DeleteAccountHandled ==
    ASSUME TypeOK, NEW t \in Tabs, DeleteAccount(t)
    PROVE  Handled(t)
<1>0. "delete_account" \in Writes /\ "delete_account" \notin SignIns
    BY DEF Writes, SignIns
<1>1. /\ At(t, "sent") /\ requests[t].route = "delete_account" /\ Verified(t)
    BY <1>0, ReachedWrite DEF DeleteAccount
<1>2. UNCHANGED <<accounts, secured, rows, jar, tabs, proved, used, disturbed>>
    BY DEF DeleteAccount
<1>3. CASE SeeOther(t, "sign_in", NULL, NoCookies)
  <2>1. "sign_in" \in Reads
      BY DEF Reads, Steps
  <2>2. LocationComes(t) /\ OnlyOf(t) /\ shown' = shown
      BY <1>0, <1>1, <1>2, <1>3, <2>1, CookiesSet, SeeOtherComes
  <2> QED
      BY <1>1, <1>2, <2>2 DEF Handled, TypeOK, OnlyOf, Request
<1>4. CASE Resolve(t) # NULL /\ Check(t, Resolve(t), FALSE) /\ UNCHANGED shown
  <2>1. Resolve(t) \in Users
      BY <1>1, <1>4, Resolved
  <2>2. /\ OnlyOf(t)
        /\ requests'[t] \in Checked
        /\ requests'[t].route = requests[t].route /\ requests'[t].cookies = requests[t].cookies
        /\ requests'[t].csrf = requests[t].csrf /\ requests'[t].to = requests[t].to
      BY <1>1, <1>4, <2>1, CheckRows
  <2>3. CheckComes(t)
      BY <1>0, <1>1, <1>2, <1>4, <2>2 DEF CheckComes
  <2> QED
      BY <1>1, <1>2, <1>4, <2>2, <2>3 DEF Handled, TypeOK, OnlyOf, Request
<1> QED
    BY <1>3, <1>4 DEF DeleteAccount

\* A withdrawal takes the sessions of its account with it, here and on other devices.
LEMMA WithdrawalRows ==
    ASSUME TypeOK, NEW u \in Users,
           accounts' = [accounts EXCEPT ![u] = "withdrawn"],
           rows' = RowsWithout(u)
    PROVE  /\ accounts' \in [Users -> {"member", "suspended", "withdrawn"}]
           /\ \A v \in Users : accounts'[v] \in {accounts[v], "withdrawn"}
           /\ rows' \in [Tokens -> [user : Users, due : BOOLEAN] \union {NULL}]
           /\ \A k \in Tokens : rows'[k] \in {rows[k], NULL}
    BY DEF TypeOK, RowsWithout

LEMMA CommitWithdrawalHandled ==
    ASSUME TypeOK, NEW t \in Tabs, CommitWithdrawal(t)
    PROVE  Handled(t)
<1>1. /\ At(t, "checked") /\ requests[t].route = "delete_account"
      /\ accounts' = [accounts EXCEPT ![requests[t].user] = "withdrawn"]
      /\ rows' = RowsWithout(requests[t].user)
      /\ SeeOther(t, "welcome", NULL, SetFlash(NoSession))
      /\ UNCHANGED <<secured, jar, tabs, proved, disturbed>>
    BY DEF CommitWithdrawal
<1>2. requests[t].user \in Users
    BY <1>1, Kinds DEF Checked
<1>3. /\ used.flash + 1 \in Flashes
      /\ used'.flash = used.flash + 1
      /\ used' \in [tokens : 0..MaxTokens, csrf : 0..MaxCsrf, flash : 0..MaxFlash]
    BY FlashIsNext DEF CommitWithdrawal
<1>4. /\ accounts' \in [Users -> {"member", "suspended", "withdrawn"}]
      /\ \A v \in Users : accounts'[v] \in {accounts[v], "withdrawn"}
      /\ rows' \in [Tokens -> [user : Users, due : BOOLEAN] \union {NULL}]
      /\ \A k \in Tokens : rows'[k] \in {rows[k], NULL}
    BY <1>1, <1>2, WithdrawalRows
<1>5. LocationComes(t) /\ OnlyOf(t) /\ shown' = shown
  <2>1. /\ requests[t].route \in Writes /\ requests[t].route \notin SignIns
        /\ "welcome" \in Reads /\ "welcome" \notin Steps
      BY <1>1 DEF Writes, SignIns, Reads, Public, Steps
  <2> QED
      BY <1>1, <1>3, <2>1, CookiesSet, SeeOtherComes
<1>6. TypeOK'
    BY <1>1, <1>3, <1>4, <1>5 DEF TypeOK, OnlyOf, Request
<1> QED
    BY <1>1, <1>4, <1>5, <1>6 DEF Handled

LEMMA WriteHandled ==
    ASSUME TypeOK, NEW t \in Tabs, Write(t)
    PROVE  Handled(t)
<1>1. CASE Refuse(t)
  <2>1. UNCHANGED <<accounts, secured, rows, jar, tabs, proved, disturbed>>
      BY <1>1 DEF Refuse
  <2>2. /\ {"sign_in", "challenge", "recovery"} \subseteq Steps
        /\ {"create_sign_in", "create_sign_in_two_factor", "create_sign_in_two_factor_recovery"}
            \subseteq SignIns
        /\ SignIns \subseteq Writes /\ "delete_account" \in Writes
        /\ "delete_account" \notin SignIns /\ "withdrawal" \notin Steps
      BY DEF Steps, SignIns, Writes
  <2>3. CASE RefuseSignIn(t)
      BY <2>1, <2>2, <2>3, RefuseHandled DEF RefuseSignIn
  <2>4. CASE RefuseCode(t)
      BY <2>1, <2>2, <2>4, RefuseHandled DEF RefuseCode
  <2>5. CASE RefuseRecoveryCode(t)
      BY <2>1, <2>2, <2>5, RefuseHandled DEF RefuseRecoveryCode
  <2>6. CASE RefuseWithdrawal(t)
      BY <2>1, <2>2, <2>6, RefuseHandled DEF RefuseWithdrawal
  <2> QED
      BY <1>1, <2>3, <2>4, <2>5, <2>6 DEF Refuse
<1> QED
    BY <1>1, ErrorHandled, CreateSignInHandled, TakeCodeHandled, CreateSessionHandled,
       DeleteSessionHandled, DeleteAccountHandled, CommitWithdrawalHandled DEF Write

-----------------------------------------------------------------------------
(* Time, other devices and the operator *)

\* A sign-in that expires leaves the other cookies alone, in the browser and on their way.
LEMMA ExpiredRows ==
    ASSUME TypeOK, ExpirePending
    PROVE  /\ jar'.session = jar.session /\ jar'.csrf = jar.csrf /\ jar'.flash = jar.flash
           /\ jar'.pending = NULL
           /\ \A t \in Tabs :
                \/ requests'[t] = requests[t] /\ ~At(t, "sent")
                \/ /\ At(t, "sent") /\ requests'[t] \in Sent
                   /\ requests'[t].route = requests[t].route
                   /\ requests'[t].csrf = requests[t].csrf /\ requests'[t].to = requests[t].to
                   /\ requests'[t].gone = requests[t].gone
                   /\ requests'[t].cookies.session = requests[t].cookies.session
                   /\ requests'[t].cookies.csrf = requests[t].cookies.csrf
                   /\ requests'[t].cookies.flash = requests[t].cookies.flash
                   /\ requests'[t].cookies.pending = NULL
           /\ UNCHANGED <<accounts, secured, rows, tabs, proved, shown, used, disturbed>>
           /\ TypeOK'
<1>1. /\ jar' = [jar EXCEPT !.pending = NULL]
      /\ requests' = [t \in Tabs |->
            IF Idle(t) \/ requests[t].stage # "sent" THEN requests[t]
            ELSE [requests[t] EXCEPT !.cookies.pending = NULL]]
      /\ UNCHANGED <<accounts, secured, rows, tabs, proved, shown, used, disturbed>>
    BY DEF ExpirePending
<1>2. /\ jar' \in Cookies
      /\ jar'.session = jar.session /\ jar'.csrf = jar.csrf /\ jar'.flash = jar.flash
      /\ jar'.pending = NULL
    BY <1>1 DEF TypeOK, Cookies
<1>3. ASSUME NEW t \in Tabs, ~At(t, "sent")
      PROVE  requests'[t] = requests[t]
    BY <1>1, <1>3 DEF At
<1>4. ASSUME NEW t \in Tabs, At(t, "sent")
      PROVE  /\ requests'[t] \in Sent
             /\ requests'[t].route = requests[t].route
             /\ requests'[t].csrf = requests[t].csrf /\ requests'[t].to = requests[t].to
             /\ requests'[t].gone = requests[t].gone
             /\ requests'[t].cookies.session = requests[t].cookies.session
             /\ requests'[t].cookies.csrf = requests[t].cookies.csrf
             /\ requests'[t].cookies.flash = requests[t].cookies.flash
             /\ requests'[t].cookies.pending = NULL
  <2>1. requests[t] \in Sent /\ requests[t].cookies \in Cookies
      BY <1>4, Kinds DEF Sent
  <2>2. PICK cookies \in Cookies : cookies = [requests[t].cookies EXCEPT !.pending = NULL]
      BY <2>1 DEF Cookies
  <2>3. requests'[t] = [requests[t] EXCEPT !.cookies = cookies]
      BY <1>1, <1>4, <2>1, <2>2 DEF At, Sent
  <2>4. /\ cookies.session = requests[t].cookies.session
        /\ cookies.csrf = requests[t].cookies.csrf
        /\ cookies.flash = requests[t].cookies.flash
        /\ cookies.pending = NULL
      BY <2>1, <2>2 DEF Cookies
  <2> QED
      BY <2>1, <2>3, <2>4 DEF Sent
<1>5. requests' \in [Tabs -> Request \union {NULL}]
  <2>1. ASSUME NEW t \in Tabs
        PROVE  requests'[t] \in Request \union {NULL}
      BY <1>3, <1>4 DEF TypeOK, Request
  <2> QED
      BY <1>1, <2>1
<1>6. TypeOK'
    BY <1>1, <1>2, <1>5 DEF TypeOK, Request
<1> QED
    BY <1>1, <1>2, <1>3, <1>4, <1>6

Elsewhere(u) == WithdrawElsewhere(u) \/ Suspend(u) \/ Secure(u)

LEMMA ElsewhereRows ==
    ASSUME TypeOK, NEW u \in Users, Elsewhere(u)
    PROVE  /\ UNCHANGED <<jar, tabs, requests, proved, shown, used, disturbed>>
           /\ \A k \in Tokens : rows'[k] \in {rows[k], NULL}
           /\ \A v \in Users : accounts[v] # "member" => accounts'[v] # "member"
           /\ TypeOK'
<1>1. CASE WithdrawElsewhere(u)
  <2>1. /\ accounts' \in [Users -> {"member", "suspended", "withdrawn"}]
        /\ \A v \in Users : accounts'[v] \in {accounts[v], "withdrawn"}
        /\ rows' \in [Tokens -> [user : Users, due : BOOLEAN] \union {NULL}]
        /\ \A k \in Tokens : rows'[k] \in {rows[k], NULL}
      BY <1>1, WithdrawalRows DEF WithdrawElsewhere
  <2> QED
      BY <1>1, <2>1 DEF WithdrawElsewhere, TypeOK
<1>2. CASE Suspend(u)
  <2>1. /\ accounts' \in [Users -> {"member", "suspended", "withdrawn"}]
        /\ \A v \in Users : accounts[v] # "member" => accounts'[v] # "member"
      BY <1>2 DEF Suspend, TypeOK
  <2> QED
      BY <1>2, <2>1 DEF Suspend, TypeOK
<1>3. CASE Secure(u)
    BY <1>3 DEF Secure, TypeOK
<1> QED
    BY <1>1, <1>2, <1>3 DEF Elsewhere

\* What a step of the system can be.
LEMMA Moves ==
    ASSUME TypeOK, [Next]_vars
    PROVE  \/ \E t \in Tabs : \E route, csrf, to, wanted : Sends(t, route, csrf, to, wanted)
           \/ \E t \in Tabs : Deliver(t) \/ Handled(t)
           \/ ExpirePending
           \/ \E u \in Users : Elsewhere(u)
           \/ UNCHANGED vars
    BY Browsing, ReadHandled, WriteHandled DEF Next, Elsewhere

LEMMA TypeNext == TypeOK /\ [Next]_vars => TypeOK'
<1> SUFFICES ASSUME TypeOK, [Next]_vars PROVE TypeOK'
    OBVIOUS
<1>1. CASE UNCHANGED vars
    BY <1>1 DEF TypeOK, vars
<1>2. CASE ExpirePending
    BY <1>2, ExpiredRows
<1>3. ASSUME NEW t \in Tabs, NEW route, NEW csrf, NEW to, NEW wanted,
             Sends(t, route, csrf, to, wanted)
      PROVE  TypeOK'
    BY <1>3, SentRows
<1>4. ASSUME NEW t \in Tabs, Deliver(t) PROVE TypeOK'
    BY <1>4, DeliveredRows
<1>5. ASSUME NEW t \in Tabs, Handled(t) PROVE TypeOK'
    BY <1>5 DEF Handled
<1>6. ASSUME NEW u \in Users, Elsewhere(u) PROVE TypeOK'
    BY <1>6, ElsewhereRows
<1> QED
    BY <1>1, <1>2, <1>3, <1>4, <1>5, <1>6, Moves

\* Cookies, pages, requests and answers keep to what the handlers and the browser exchange.
THEOREM SessionsTypeCorrect == Spec => []TypeOK
<1> QED
    BY TypeInit, TypeNext, PTL DEF Spec

-----------------------------------------------------------------------------
(* Every factor *)

InHand(t) == At(t, "sent") \/ At(t, "checked")

\* A sign-in that is pending, in the browser or on its way, is of an account whose password was
\* given; a sign-in that was checked has given all that was due.
Gave(u) == u \notin {NULL, KEPT} => <<u, "password">> \in proved

FactorsOf(t) ==
    /\ InHand(t) => Gave(requests[t].cookies.pending)
    /\ At(t, "checked") /\ requests[t].route \in SignIns =>
        /\ Gave(requests[t].user)
        /\ requests[t].due => <<requests[t].user, "code">> \in proved
    /\ At(t, "answered") => Gave(requests[t].sets.pending)

FactorsGiven ==
    /\ SessionsTakeEveryFactor
    /\ Gave(jar.pending)
    /\ \A t \in Tabs : FactorsOf(t)

\* A request that nobody has touched has its factors, whatever was proved since.
LEMMA FactorsKept ==
    ASSUME NEW t \in Tabs, FactorsOf(t), requests'[t] = requests[t], proved \subseteq proved'
    PROVE  FactorsOf(t)'
    BY DEF FactorsOf, InHand, At, Idle, Gave

\* A session keeps its factors, whatever was proved since; a new one has those of its check.
LEMMA RowsKeepFactors ==
    ASSUME TypeOK, FactorsGiven, proved \subseteq proved',
           NEW t \in Tabs,
           \A k \in Tokens : rows'[k] # NULL =>
                \/ rows'[k] = rows[k]
                \/ /\ At(t, "checked")
                   /\ requests[t].route \in SignIns
                   /\ rows'[k] = [user |-> requests[t].user, due |-> requests[t].due]
    PROVE  SessionsTakeEveryFactor'
<1> SUFFICES ASSUME NEW k \in Tokens, rows'[k] # NULL
             PROVE  /\ <<rows'[k].user, "password">> \in proved'
                    /\ rows'[k].due => <<rows'[k].user, "code">> \in proved'
    BY DEF SessionsTakeEveryFactor
<1>1. CASE rows'[k] = rows[k]
    BY <1>1 DEF FactorsGiven, SessionsTakeEveryFactor
<1>2. CASE /\ At(t, "checked")
           /\ requests[t].route \in SignIns
           /\ rows'[k] = [user |-> requests[t].user, due |-> requests[t].due]
  <2>1. requests[t].user \notin {NULL, KEPT}
      BY <1>2, Kinds, Unset DEF Checked
  <2>2. /\ <<requests[t].user, "password">> \in proved
        /\ requests[t].due => <<requests[t].user, "code">> \in proved
      BY <1>2, <2>1 DEF FactorsGiven, FactorsOf, Gave
  <2>3. rows'[k].user = requests[t].user
      BY <1>2
  <2>4. rows'[k].due = requests[t].due
    <3>1. PICK row : row = rows'[k] /\ row = [user |-> requests[t].user, due |-> requests[t].due]
        BY <1>2
    <3>2. row.due = requests[t].due
        BY <3>1
    <3> QED
        BY <3>1, <3>2, Zenon
  <2>5. rows'[k].due => <<requests[t].user, "code">> \in proved
      BY <2>2, <2>4, Zenon
  <2> QED
      BY <2>2, <2>3, <2>5
<1> QED
    BY <1>1, <1>2

LEMMA FactorsNext ==
    ASSUME TypeOK, TypeOK', FactorsGiven, [Next]_vars
    PROVE  FactorsGiven'
<1>1. CASE UNCHANGED vars
    BY <1>1 DEF FactorsGiven, FactorsOf, SessionsTakeEveryFactor, Gave, InHand, At, Idle, vars
<1>2. CASE ExpirePending
  <2>1. /\ jar'.pending = NULL
        /\ UNCHANGED <<rows, proved>>
        /\ \A t \in Tabs :
            \/ requests'[t] = requests[t]
            \/ requests'[t] \in Sent /\ requests'[t].cookies.pending = NULL
      BY <1>2, ExpiredRows
  <2>2. ASSUME NEW t \in Tabs, requests'[t] \in Sent, requests'[t].cookies.pending = NULL
        PROVE  FactorsOf(t)'
      BY <2>2 DEF FactorsOf, Gave, At, Sent
  <2>3. \A t \in Tabs : FactorsOf(t)'
      BY <2>1, <2>2, FactorsKept DEF FactorsGiven
  <2> QED
      BY <2>1, <2>3 DEF FactorsGiven, SessionsTakeEveryFactor, Gave
<1>3. ASSUME NEW t \in Tabs, NEW route, NEW csrf, NEW to, NEW wanted,
             Sends(t, route, csrf, to, wanted)
      PROVE  FactorsGiven'
  <2>1. /\ requests'[t] \in Sent
        /\ requests'[t].cookies = Heeded(route, jar)
        /\ \A s \in Tabs \ {t} : requests'[s] = requests[s]
        /\ UNCHANGED <<rows, jar, proved>>
      BY <1>3, SentRows
  <2>2. requests'[t].cookies.pending \in {jar.pending, NULL}
      BY <2>1, HeededCookies DEF TypeOK
  <2>3. FactorsOf(t)'
      BY <2>1, <2>2 DEF FactorsOf, FactorsGiven, Gave, At, Sent
  <2>4. \A s \in Tabs : FactorsOf(s)'
      BY <2>1, <2>3, FactorsKept DEF FactorsGiven
  <2> QED
      BY <2>1, <2>4 DEF FactorsGiven, SessionsTakeEveryFactor, Gave
<1>4. ASSUME NEW t \in Tabs, Deliver(t)
      PROVE  FactorsGiven'
  <2>1. /\ At(t, "answered")
        /\ requests[t].sets \in SetCookies
        /\ jar' = Stored(requests[t].sets)
        /\ \A s \in Tabs \ {t} : requests'[s] = requests[s]
        /\ \/ requests'[t] = NULL
           \/ /\ requests'[t] \in Sent
              /\ requests'[t].cookies = Heeded(requests[t].location, jar')
        /\ UNCHANGED <<rows, proved>>
      BY <1>4, DeliveredRows
  <2>2. jar'.pending \in {requests[t].sets.pending, jar.pending}
      BY <2>1, StoredCookies DEF After
  <2>3. Gave(jar.pending)'
      BY <2>1, <2>2 DEF FactorsGiven, FactorsOf, Gave
  <2>4. FactorsOf(t)'
    <3>1. CASE requests'[t] = NULL
        BY <3>1 DEF FactorsOf, InHand, At, Idle
    <3>2. CASE /\ requests'[t] \in Sent
               /\ requests'[t].cookies = Heeded(requests[t].location, jar')
      <4>1. requests'[t].cookies.pending \in {jar'.pending, NULL}
          BY <3>2, HeededCookies DEF TypeOK
      <4> QED
          BY <2>3, <3>2, <4>1 DEF FactorsOf, Gave, At, Sent
    <3> QED
        BY <2>1, <3>1, <3>2
  <2>5. \A s \in Tabs : FactorsOf(s)'
      BY <2>1, <2>4, FactorsKept DEF FactorsGiven
  <2> QED
      BY <2>1, <2>3, <2>5 DEF FactorsGiven, SessionsTakeEveryFactor
<1>5. ASSUME NEW t \in Tabs, Handled(t)
      PROVE  FactorsGiven'
  <2>1. proved \subseteq proved' /\ jar' = jar /\ InHand(t)
      BY <1>5 DEF Handled, InHand
  <2>2. SessionsTakeEveryFactor'
      BY <1>5, <2>1, RowsKeepFactors DEF Handled
  <2>3. Gave(jar.pending)'
      BY <2>1 DEF FactorsGiven, Gave
  <2>4. OnlyOf(t)
      BY <1>5 DEF Handled, PageComes, ErrorComes, LocationComes, CheckComes, Answers
  <2>5. FactorsOf(t)'
    <3>1. ASSUME requests'[t].stage = "answered", Gave(requests[t].sets.pending)'
          PROVE  FactorsOf(t)'
        BY <3>1 DEF FactorsOf, InHand, At
    <3>2. CASE PageComes(t)
        BY <3>1, <3>2 DEF PageComes, Answers, Gave
    <3>3. CASE ErrorComes(t)
        BY <3>1, <3>3 DEF ErrorComes, Answers, Gave
    <3>4. CASE LocationComes(t)
        BY <3>1, <3>4 DEF LocationComes, Answers, Gave
    <3>5. CASE CheckComes(t)
      <4>1. requests'[t] \in Checked /\ requests'[t].cookies = requests[t].cookies
            /\ requests'[t].route = requests[t].route
          BY <3>5 DEF CheckComes
      <4>2. requests'[t].stage = "checked"
          BY <4>1 DEF Checked
      <4>3. Gave(requests[t].cookies.pending)'
          BY <2>1, <4>1 DEF FactorsGiven, FactorsOf, Gave
      <4>4. ASSUME requests[t].route \in SignIns
            PROVE  /\ Gave(requests[t].user)'
                   /\ requests'[t].due => <<requests'[t].user, "code">> \in proved'
          BY <3>5, <4>1, <4>3, <4>4 DEF CheckComes, Gave
      <4> QED
          BY <4>1, <4>2, <4>3, <4>4 DEF FactorsOf, InHand, At
    <3> QED
        BY <1>5, <3>2, <3>3, <3>4, <3>5 DEF Handled
  <2>6. \A s \in Tabs : FactorsOf(s)'
      BY <2>1, <2>4, <2>5, FactorsKept DEF FactorsGiven, OnlyOf
  <2> QED
      BY <2>2, <2>3, <2>6 DEF FactorsGiven
<1>6. ASSUME NEW u \in Users, Elsewhere(u)
      PROVE  FactorsGiven'
  <2>1. /\ UNCHANGED <<jar, requests, proved>>
        /\ \A k \in Tokens : rows'[k] \in {rows[k], NULL}
      BY <1>6, ElsewhereRows
  <2>2. \A s \in Tabs : FactorsOf(s)'
      BY <2>1, FactorsKept DEF FactorsGiven
  <2> QED
      BY <2>1, <2>2 DEF FactorsGiven, SessionsTakeEveryFactor, Gave
<1> QED
    BY <1>1, <1>2, <1>3, <1>4, <1>5, <1>6, Moves

LEMMA FactorsInit == Init => FactorsGiven
    BY DEF Init, FactorsGiven, FactorsOf, SessionsTakeEveryFactor, Gave, InHand, At, Idle

\* Whatever the tabs do to the cookies of one another, a session belongs to an account whose
\* password was given in this browser, and whose code too if one was due.
THEOREM EveryFactorIsTaken == Spec => []SessionsTakeEveryFactor
<1>1. TypeOK /\ FactorsGiven /\ [Next]_vars => (TypeOK /\ FactorsGiven)'
    BY TypeNext, FactorsNext
<1>2. FactorsGiven => SessionsTakeEveryFactor
    BY DEF FactorsGiven
<1> QED
    BY <1>1, <1>2, TypeInit, FactorsInit, PTL DEF Spec

-----------------------------------------------------------------------------
(* The address a visitor returns to *)

\* The page of a step, its form and the locations between the steps carry what is wanted; a tab
\* that waits shows nothing.
Carries(t) ==
    LET q == requests[t]
        wanted == tabs[t].wanted
    IN
    /\ InHand(t) /\ q.route \in Steps \union SignIns => q.to = wanted
    /\ At(t, "answered") =>
        /\ q.location = NULL /\ q.page.page \in Steps => q.page.to = wanted
        /\ q.location \in Steps => q.to = Wanted(t)
        /\ q.route \in SignIns /\ q.location \in Addresses => q.location = AfterSignIn(wanted)

CarriesOn(t) ==
    /\ tabs[t].shows.page \in Steps => tabs[t].shows.to = tabs[t].wanted
    /\ ~Idle(t) => tabs[t].shows = Blank
    /\ Carries(t)

WantedIsKept == \A t \in Tabs : CarriesOn(t)

\* A tab that is left alone carries what it did.
LEMMA CarriesStill ==
    ASSUME NEW t \in Tabs, CarriesOn(t), requests'[t] = requests[t], tabs'[t] = tabs[t]
    PROVE  CarriesOn(t)'
    BY DEF CarriesOn, Carries, InHand, At, Idle, Wanted, AfterSignIn

LEMMA BlankIsNoStep == Blank.page \notin Steps /\ NULL \notin Steps /\ Error.page \notin Steps
    BY Unset DEF Blank, Error, Steps, Reads

LEMMA SendsWhatIsWanted ==
    ASSUME TypeOK, NEW t \in Tabs, CarriesOn(t), NEW route, NEW csrf, NEW to, NEW wanted,
           Sends(t, route, csrf, to, wanted)
    PROVE  CarriesOn(t)'
<1>1. /\ requests'[t] \in Sent /\ requests'[t].route = route /\ requests'[t].to = to
      /\ tabs'[t] = [shows |-> Blank, wanted |-> wanted]
    BY SentRows
<1>2. route \in Steps \union SignIns => to = wanted
  <2>1. CASE csrf = NULL /\ to = NULL /\ wanted = NULL
      BY <2>1
  <2>2. CASE /\ route \in Offers(tabs[t].shows).links
             /\ to = tabs[t].shows.to
             /\ wanted = IF route = "sign_in" THEN to ELSE tabs[t].wanted
    <3>1. route \in Steps
        BY <2>2, Offered
    <3>2. CASE route = "sign_in"
        BY <2>2, <3>2
    <3>3. CASE route \in {"challenge", "recovery"}
      <4>1. tabs[t].shows.page \in Steps
          BY <2>2, <3>3, Offered
      <4> QED
          BY <2>2, <3>3, <4>1 DEF CarriesOn
    <3> QED
        BY <3>1, <3>2, <3>3 DEF Steps
  <2>3. CASE /\ route \in Offers(tabs[t].shows).forms
             /\ to = tabs[t].shows.to /\ wanted = tabs[t].wanted
    <3>1. route \in SignIns => tabs[t].shows.page \in Steps
        BY <2>3, Offered
    <3>2. route \notin Steps
        BY <2>3, Offered DEF Steps, Writes, SignIns
    <3> QED
        BY <2>3, <3>1, <3>2 DEF CarriesOn
  <2> QED
      BY <2>1, <2>2, <2>3 DEF Sends
<1>3. tabs'[t].shows = Blank /\ tabs'[t].wanted = wanted
    BY <1>1
<1>4. requests'[t].stage = "sent"
    BY <1>1 DEF Sent
<1>5. Carries(t)'
    BY <1>1, <1>2, <1>3, <1>4 DEF Carries, InHand, At
<1> QED
    BY <1>3, <1>5, BlankIsNoStep DEF CarriesOn

LEMMA DeliversWhatIsWanted ==
    ASSUME TypeOK, NEW t \in Tabs, CarriesOn(t), Deliver(t)
    PROVE  CarriesOn(t)'
<1>1. At(t, "answered") /\ tabs[t].shows = Blank
    BY DeliveredRows DEF CarriesOn, At
<1>2. CASE /\ requests[t] \in Rendered
           /\ requests'[t] = NULL
           /\ tabs'[t].shows = requests[t].page
           /\ tabs'[t].wanted = tabs[t].wanted
  <2>1. Idle(t)' /\ Carries(t)'
      BY <1>2 DEF Carries, InHand, At, Idle
  <2>2. requests[t].location = NULL
      BY <1>2 DEF Rendered
  <2> QED
      BY <1>1, <1>2, <2>1, <2>2 DEF CarriesOn, Carries
<1>3. CASE /\ requests[t] \in Redirected
           /\ requests'[t] \in Sent
           /\ requests'[t].route = requests[t].location
           /\ requests'[t].to = requests[t].to
           /\ tabs'[t].shows = tabs[t].shows
           /\ tabs'[t].wanted = Wanted(t)
  <2>1. requests[t].location \in Reads
      BY <1>3 DEF Redirected
  <2>2. requests[t].location \notin SignIns
      BY <2>1 DEF Reads, Guarded, Public, Steps, SignIns
  <2>3. requests'[t].stage = "sent"
      BY <1>3 DEF Sent
  <2>4. requests[t].location \in Steps => requests[t].to = Wanted(t)
      BY <1>1 DEF CarriesOn, Carries
  <2>5. Carries(t)'
      BY <1>3, <2>2, <2>3, <2>4 DEF Carries, InHand, At
  <2> QED
      BY <1>1, <1>3, <2>5, BlankIsNoStep DEF CarriesOn
<1> QED
    BY <1>2, <1>3, DeliveredRows

LEMMA HandlesWhatIsWanted ==
    ASSUME TypeOK, NEW t \in Tabs, CarriesOn(t), Handled(t)
    PROVE  CarriesOn(t)'
<1>1. tabs'[t] = tabs[t] /\ ~Idle(t) /\ InHand(t)
    BY DEF Handled, At, InHand
<1>2. ASSUME Carries(t)' PROVE CarriesOn(t)'
    BY <1>1, <1>2, BlankIsNoStep DEF CarriesOn
<1>3. requests[t].route \in Steps \union SignIns => requests[t].to = tabs[t].wanted
    BY <1>1 DEF CarriesOn, Carries
<1>4. CASE PageComes(t)
  <2>1. /\ requests'[t].stage = "answered" /\ requests'[t].location = NULL
        /\ requests'[t].page.page \in Steps =>
            requests[t].route \in Steps \union SignIns /\ requests'[t].page.to = requests[t].to
      BY <1>4 DEF PageComes, Answers
  <2>2. Carries(t)'
      BY <1>1, <1>3, <2>1, BlankIsNoStep, Unset DEF Carries, InHand, At
  <2> QED
      BY <1>2, <2>2
<1>5. CASE ErrorComes(t)
  <2>1. /\ requests'[t].stage = "answered" /\ requests'[t].location = NULL
        /\ requests'[t].page = Error
      BY <1>5 DEF ErrorComes, Answers
  <2>2. Carries(t)'
      BY <1>1, <2>1, BlankIsNoStep, Unset DEF Carries, InHand, At
  <2> QED
      BY <1>2, <2>2
<1>6. CASE LocationComes(t)
  <2>1. PICK location, to : location = requests'[t].location /\ to = requests'[t].to
      OBVIOUS
  <2>2. /\ requests'[t].stage = "answered" /\ requests'[t].route = requests[t].route
        /\ location # NULL
        /\ location \in Steps =>
            \/ location = "challenge" /\ requests[t].route \in SignIns /\ to = requests[t].to
            \/ /\ location = "sign_in" /\ requests[t].route \in Guarded
               /\ to = requests[t].route
            \/ location = "sign_in" /\ requests[t].route = "delete_account" /\ to = NULL
            \/ /\ location = "sign_in" /\ requests[t].route \in Steps \union SignIns
               /\ to = requests[t].to
        /\ requests[t].route \in SignIns /\ location \in Addresses =>
            location = AfterSignIn(requests[t].to)
      BY <1>6, <2>1 DEF LocationComes, Answers
  <2>3. location \in Steps => to = Wanted(t)'
    <3>1. Wanted(t)' =
            CASE location # "sign_in" -> tabs[t].wanted
              [] requests[t].route \in Guarded -> requests[t].route
              [] requests[t].route = "delete_account" -> NULL
              [] OTHER -> tabs[t].wanted
        BY <1>1, <2>1, <2>2 DEF Wanted
    <3>2. "delete_account" \notin Guarded /\ \A route \in Steps \union SignIns :
                route \notin Guarded /\ route # "delete_account"
        BY DEF Guarded, Steps, SignIns
    <3> QED
        BY <1>3, <2>2, <3>1, <3>2
  <2>4. Carries(t)'
      BY <1>1, <1>3, <2>1, <2>2, <2>3 DEF Carries, InHand, At
  <2> QED
      BY <1>2, <2>4
<1>7. CASE CheckComes(t)
  <2>1. /\ requests'[t].stage = "checked" /\ requests'[t].route = requests[t].route
        /\ requests'[t].to = requests[t].to
      BY <1>7 DEF CheckComes, Checked
  <2>2. Carries(t)'
      BY <1>1, <1>3, <2>1 DEF Carries, InHand, At
  <2> QED
      BY <1>2, <2>2
<1> QED
    BY <1>4, <1>5, <1>6, <1>7 DEF Handled

LEMMA WantedNext ==
    ASSUME TypeOK, WantedIsKept, [Next]_vars
    PROVE  WantedIsKept'
<1> SUFFICES ASSUME NEW s \in Tabs PROVE CarriesOn(s)'
    BY DEF WantedIsKept
<1>0. CarriesOn(s)
    BY DEF WantedIsKept
<1>1. CASE UNCHANGED vars
    BY <1>0, <1>1, CarriesStill DEF vars
<1>2. CASE ExpirePending
  <2>1. tabs'[s] = tabs[s]
      BY <1>2, ExpiredRows
  <2>2. CASE requests'[s] = requests[s]
      BY <1>0, <2>1, <2>2, CarriesStill
  <2>3. CASE /\ At(s, "sent") /\ requests'[s] \in Sent
             /\ requests'[s].route = requests[s].route
             /\ requests'[s].to = requests[s].to
    <3>1. requests'[s].stage = "sent"
        BY <2>3 DEF Sent
    <3> QED
        BY <1>0, <2>1, <2>3, <3>1 DEF CarriesOn, Carries, InHand, At
  <2> QED
      BY <1>2, <2>2, <2>3, ExpiredRows
<1>3. ASSUME NEW t \in Tabs, NEW route, NEW csrf, NEW to, NEW wanted,
             Sends(t, route, csrf, to, wanted)
      PROVE  CarriesOn(s)'
  <2>1. CASE s = t
      BY <1>0, <1>3, <2>1, SendsWhatIsWanted
  <2>2. CASE s # t
      BY <1>0, <1>3, <2>2, SentRows, CarriesStill
  <2> QED
      BY <2>1, <2>2
<1>4. ASSUME NEW t \in Tabs, Deliver(t)
      PROVE  CarriesOn(s)'
  <2>1. CASE s = t
      BY <1>0, <1>4, <2>1, DeliversWhatIsWanted
  <2>2. CASE s # t
      BY <1>0, <1>4, <2>2, DeliveredRows, CarriesStill
  <2> QED
      BY <2>1, <2>2
<1>5. ASSUME NEW t \in Tabs, Handled(t)
      PROVE  CarriesOn(s)'
  <2>1. CASE s = t
      BY <1>0, <1>5, <2>1, HandlesWhatIsWanted
  <2>2. CASE s # t
    <3>1. OnlyOf(t) /\ tabs' = tabs
        BY <1>5 DEF Handled, PageComes, ErrorComes, LocationComes, CheckComes, Answers
    <3> QED
        BY <1>0, <2>2, <3>1, CarriesStill DEF OnlyOf
  <2> QED
      BY <2>1, <2>2
<1>6. ASSUME NEW u \in Users, Elsewhere(u)
      PROVE  CarriesOn(s)'
    BY <1>0, <1>6, ElsewhereRows, CarriesStill
<1> QED
    BY <1>1, <1>2, <1>3, <1>4, <1>5, <1>6, Moves

LEMMA WantedInit == Init => WantedIsKept
<1> SUFFICES ASSUME Init, NEW t \in Tabs PROVE CarriesOn(t)
    BY DEF WantedIsKept
<1>1. tabs[t].shows = Blank /\ Idle(t)
    BY DEF Init, Idle
<1> QED
    BY <1>1, BlankIsNoStep DEF CarriesOn, Carries, InHand, At

\* However often a sign-in is refused, changes between its challenges or starts again, it ends
\* at the page the visitor was turned away from, and at home when there is none.
THEOREM VisitorsComeBack == Spec => []SignInReturnsToWhatWasWanted
<1>1. TypeOK /\ WantedIsKept /\ [Next]_vars => (TypeOK /\ WantedIsKept)'
    BY TypeNext, WantedNext
<1>2. WantedIsKept => SignInReturnsToWhatWasWanted
    BY DEF WantedIsKept, CarriesOn, Carries, SignInReturnsToWhatWasWanted
<1> QED
    BY <1>1, <1>2, TypeInit, WantedInit, PTL DEF Spec

-----------------------------------------------------------------------------
(* Requests that do not overlap *)

OneInFlight == \A s, t \in Tabs : Idle(s) \/ Idle(t) \/ s = t
Apart == ~disturbed => OneInFlight

\* A request in the hands of a handler or on its way back stays in flight.
LEMMA BusyStays ==
    ASSUME TypeOK, NEW t \in Tabs, Handled(t)
    PROVE  /\ ~Idle(t) /\ requests'[t] # NULL
           /\ OnlyOf(t)
           /\ UNCHANGED <<jar, tabs, disturbed>>
<1>1. OnlyOf(t) /\ requests'[t] \in Checked \union Rendered \union Redirected
    BY DEF Handled, PageComes, ErrorComes, LocationComes, CheckComes, Answers
<1>2. requests'[t] # NULL
    BY <1>1, NoRequestAssumption
<1>3. ~Idle(t) /\ UNCHANGED <<jar, tabs, disturbed>>
    BY DEF Handled, At
<1> QED
    BY <1>1, <1>2, <1>3

LEMMA ApartNext ==
    ASSUME TypeOK, Apart, [Next]_vars
    PROVE  Apart'
<1> SUFFICES ASSUME ~disturbed' PROVE OneInFlight'
    BY DEF Apart
<1>1. CASE UNCHANGED vars
    BY <1>1 DEF Apart, OneInFlight, Idle, vars
<1>2. CASE ExpirePending
  <2>1. disturbed' = disturbed /\ \A t \in Tabs : ~At(t, "sent") => requests'[t] = requests[t]
      BY <1>2, ExpiredRows
  <2>2. \A t \in Tabs : Idle(t) => Idle(t)'
      BY <2>1 DEF At, Idle
  <2> QED
      BY <2>1, <2>2 DEF Apart, OneInFlight
<1>3. ASSUME NEW t \in Tabs, NEW route, NEW csrf, NEW to, NEW wanted,
             Sends(t, route, csrf, to, wanted)
      PROVE  OneInFlight'
  <2>1. InFlight = {} /\ \A s \in Tabs \ {t} : requests'[s] = requests[s]
      BY <1>3, SentRows
  <2>2. \A s \in Tabs \ {t} : Idle(s)'
      BY <2>1 DEF InFlight, Idle
  <2> QED
      BY <2>2 DEF OneInFlight
<1>4. ASSUME NEW t \in Tabs, Deliver(t) \/ Handled(t)
      PROVE  OneInFlight'
  <2>1. /\ ~Idle(t) /\ disturbed' = disturbed
        /\ \A s \in Tabs \ {t} : requests'[s] = requests[s]
      BY <1>4, DeliveredRows, BusyStays DEF At, OnlyOf
  <2>2. \A s \in Tabs \ {t} : Idle(s)'
      BY <2>1 DEF Apart, OneInFlight, Idle
  <2> QED
      BY <2>2 DEF OneInFlight
<1>5. ASSUME NEW u \in Users, Elsewhere(u)
      PROVE  OneInFlight'
    BY <1>5, ElsewhereRows DEF Apart, OneInFlight, Idle
<1> QED
    BY <1>1, <1>2, <1>3, <1>4, <1>5, Moves

LEMMA ApartInit == Init => Apart
    BY DEF Init, Apart, OneInFlight, Idle

-----------------------------------------------------------------------------
(* The token of the forms *)

FormsHaveTokens ==
    \A t \in Tabs :
        /\ HasToken(tabs[t].shows)
        /\ At(t, "answered") /\ requests[t].location = NULL => HasToken(requests[t].page)

\* While requests do not overlap there is one token: in the browser, in the request and in the
\* page that answers it.
SameToken(t) ==
    LET q == requests[t] IN
    /\ tabs[t].shows.csrf \in {NULL, jar.csrf}
    /\ InHand(t) => q.cookies.csrf = jar.csrf
    /\ InHand(t) /\ q.route \in Writes => Verified(t)
    /\ At(t, "answered") =>
        /\ q.sets.csrf # KEPT => jar.csrf = NULL
        /\ q.location = NULL => q.page.csrf \in {NULL, After(q.sets.csrf, jar.csrf)}

TokensAgree == FormsHaveTokens /\ Apart /\ (~disturbed => \A t \in Tabs : SameToken(t))

LEMMA NoForms == HasToken(Blank) /\ HasToken(Error)
    BY DEF HasToken, Offers, Blank, Error

LEMMA FormsNext ==
    ASSUME TypeOK, FormsHaveTokens, [Next]_vars
    PROVE  FormsHaveTokens'
<1> DEFINE Has(t) ==
        /\ HasToken(tabs[t].shows)
        /\ At(t, "answered") /\ requests[t].location = NULL => HasToken(requests[t].page)
<1> SUFFICES ASSUME NEW s \in Tabs PROVE Has(s)'
    BY DEF FormsHaveTokens
<1>0. Has(s)
    BY DEF FormsHaveTokens
<1>1. ASSUME requests'[s] = requests[s], tabs'[s] = tabs[s] PROVE Has(s)'
    BY <1>0, <1>1 DEF At, Idle
<1>2. ASSUME requests'[s] \in Sent, tabs'[s].shows \in {tabs[s].shows, Blank} PROVE Has(s)'
    BY <1>0, <1>2, NoForms DEF At, Sent
<1>3. CASE UNCHANGED vars
    BY <1>1, <1>3 DEF vars
<1>4. CASE ExpirePending
    BY <1>1, <1>2, <1>4, ExpiredRows
<1>5. ASSUME NEW t \in Tabs, NEW route, NEW csrf, NEW to, NEW wanted,
             Sends(t, route, csrf, to, wanted)
      PROVE  Has(s)'
  <2>0. \A r \in Tabs \ {t} : requests'[r] = requests[r] /\ tabs'[r] = tabs[r]
      BY <1>5, SentRows
  <2>1. CASE s # t
      BY <1>1, <2>0, <2>1
  <2>2. CASE s = t
    <3>1. requests'[s] \in Sent /\ tabs'[s] = [shows |-> Blank, wanted |-> wanted]
        BY <1>5, <2>2, SentRows
    <3>2. tabs'[s].shows = Blank
        BY <3>1
    <3> QED
        BY <1>2, <3>1, <3>2
  <2> QED
      BY <2>1, <2>2
<1>6. ASSUME NEW t \in Tabs, Deliver(t)
      PROVE  Has(s)'
  <2>1. CASE s # t
      BY <1>1, <1>6, <2>1, DeliveredRows
  <2>2. CASE s = t /\ requests'[t] = NULL /\ requests[t] \in Rendered
    <3>1. tabs'[s].shows = requests[s].page
        BY <1>6, <2>2, DeliveredRows, NoRequestAssumption
    <3>2. requests[s].location = NULL /\ At(s, "answered")
        BY <1>6, <2>2, DeliveredRows DEF Rendered
    <3> QED
        BY <1>0, <2>2, <3>1, <3>2 DEF At, Idle
  <2>3. CASE s = t /\ requests'[t] \in Sent /\ tabs'[t].shows = tabs[t].shows
      BY <1>2, <2>3
  <2> QED
      BY <1>6, <2>1, <2>2, <2>3, DeliveredRows
<1>7. ASSUME NEW t \in Tabs, Handled(t)
      PROVE  Has(s)'
  <2>1. CASE s # t
      BY <1>1, <1>7, <2>1, BusyStays DEF OnlyOf
  <2>2. CASE s = t
    <3>1. tabs'[s] = tabs[s]
        BY <1>7, BusyStays
    <3>2. requests'[s].location = NULL /\ At(s, "answered")' => HasToken(requests'[s].page)
      <4>1. CASE PageComes(s)
          BY <4>1 DEF PageComes
      <4>2. CASE ErrorComes(s)
          BY <4>2, NoForms DEF ErrorComes, Answers
      <4>3. CASE LocationComes(s)
          BY <4>3 DEF LocationComes
      <4>4. CASE CheckComes(s)
          BY <4>4 DEF CheckComes, Checked, At
      <4> QED
          BY <1>7, <2>2, <4>1, <4>2, <4>3, <4>4 DEF Handled
    <3>3. HasToken(tabs'[s].shows)
        BY <1>0, <3>1
    <3> QED
        BY <3>2, <3>3
  <2> QED
      BY <2>1, <2>2
<1>8. ASSUME NEW u \in Users, Elsewhere(u)
      PROVE  Has(s)'
    BY <1>1, <1>8, ElsewhereRows
<1> HIDE DEF Has
<1> QED
    BY <1>3, <1>4, <1>5, <1>6, <1>7, <1>8, Moves

\* A tab that waits for nothing keeps its token through the answer of another.
LEMMA QuietTab ==
    ASSUME NEW t \in Tabs, Idle(t)', tabs[t].shows.csrf \in {NULL, jar.csrf},
           tabs'[t].shows = tabs[t].shows,
           jar'.csrf = jar.csrf \/ jar.csrf = NULL
    PROVE  SameToken(t)'
<1>1. ~At(t, "answered")' /\ ~InHand(t)'
    BY DEF At, InHand
<1>2. tabs'[t].shows.csrf \in {NULL, jar'.csrf}
    OBVIOUS
<1> QED
    BY <1>1, <1>2 DEF SameToken

LEMMA SendsTheToken ==
    ASSUME TypeOK, FormsHaveTokens, NEW t \in Tabs, SameToken(t),
           NEW route, NEW csrf, NEW to, NEW wanted, Sends(t, route, csrf, to, wanted)
    PROVE  SameToken(t)'
<1>1. /\ requests'[t] \in Sent /\ requests'[t].route = route
      /\ requests'[t].cookies = Heeded(route, jar)
      /\ requests'[t].csrf = csrf
      /\ tabs'[t] = [shows |-> Blank, wanted |-> wanted]
    BY SentRows
<1>2. jar' = jar
    BY DEF Sends, Send
<1>3. requests'[t].cookies.csrf = jar.csrf
    BY <1>1, HeededCookies DEF TypeOK
<1>4. requests'[t].stage = "sent"
    BY <1>1 DEF Sent
<1>5. tabs'[t].shows.csrf = NULL
  <2>1. tabs'[t].shows = Blank
      BY <1>1
  <2> QED
      BY <2>1 DEF Blank
<1>6. ASSUME route \in Writes PROVE csrf # NULL /\ csrf = jar.csrf
  <2>1. route \notin Reads
      BY <1>6 DEF Writes, SignIns, Reads, Guarded, Public, Steps
  <2>2. route \notin Offers(tabs[t].shows).links
      BY <2>1, Offered DEF Reads
  <2>3. route \in Offers(tabs[t].shows).forms /\ csrf = tabs[t].shows.csrf
      BY <2>1, <2>2 DEF Sends
  <2>4. tabs[t].shows.csrf # NULL
      BY <2>3 DEF FormsHaveTokens, HasToken
  <2> QED
      BY <2>3, <2>4 DEF SameToken
<1>7. InHand(t)' /\ requests'[t].route \in Writes => Verified(t)'
    BY <1>1, <1>3, <1>6 DEF Verified
<1> QED
    BY <1>2, <1>3, <1>4, <1>5, <1>7 DEF SameToken, At

\* The token of the browser changes only with the answer to a request that had none.
LEMMA DeliversTheToken ==
    ASSUME TypeOK, NEW t \in Tabs, SameToken(t), Deliver(t)
    PROVE  /\ SameToken(t)'
           /\ jar'.csrf = jar.csrf \/ jar.csrf = NULL
<1>1. /\ At(t, "answered")
      /\ requests[t].sets \in SetCookies
      /\ jar' = Stored(requests[t].sets)
    BY DeliveredRows
<1>2. jar'.csrf = After(requests[t].sets.csrf, jar.csrf)
    BY <1>1, StoredCookies
<1>3. requests[t].sets.csrf # KEPT => jar.csrf = NULL
    BY <1>1 DEF SameToken
<1>4. jar'.csrf = jar.csrf \/ jar.csrf = NULL
    BY <1>2, <1>3 DEF After
<1>5. CASE /\ requests[t] \in Rendered
           /\ requests'[t] = NULL
           /\ tabs'[t].shows = requests[t].page
  <2>1. requests[t].location = NULL
      BY <1>5 DEF Rendered
  <2>2. tabs'[t].shows.csrf \in {NULL, jar'.csrf}
      BY <1>1, <1>2, <1>5, <2>1 DEF SameToken
  <2>3. ~At(t, "answered")' /\ ~InHand(t)'
      BY <1>5 DEF At, InHand, Idle
  <2> QED
      BY <1>4, <2>2, <2>3 DEF SameToken
<1>6. CASE /\ requests[t] \in Redirected
           /\ requests'[t] \in Sent
           /\ requests'[t].route = requests[t].location
           /\ requests'[t].cookies = Heeded(requests[t].location, jar')
           /\ tabs'[t].shows = tabs[t].shows
  <2>1. requests'[t].cookies.csrf = jar'.csrf
    <3>1. jar' \in Cookies
        BY <1>1, StoredCookies
    <3> QED
        BY <1>6, <3>1, HeededCookies
  <2>2. requests'[t].route \notin Writes
      BY <1>6 DEF Redirected, Writes, SignIns, Reads, Guarded, Public, Steps
  <2>3. tabs'[t].shows.csrf \in {NULL, jar'.csrf}
      BY <1>4, <1>6 DEF SameToken
  <2>4. requests'[t].stage = "sent"
      BY <1>6 DEF Sent
  <2> QED
      BY <1>4, <2>1, <2>2, <2>3, <2>4 DEF SameToken, At
<1> QED
    BY <1>4, <1>5, <1>6, DeliveredRows

LEMMA HandlesTheToken ==
    ASSUME TypeOK, NEW t \in Tabs, SameToken(t), Handled(t)
    PROVE  SameToken(t)'
<1>1. /\ InHand(t) /\ jar' = jar /\ tabs' = tabs
      /\ requests[t].cookies.csrf = jar.csrf
      /\ tabs'[t].shows.csrf \in {NULL, jar'.csrf}
    BY DEF Handled, InHand, SameToken
<1>2. ASSUME requests'[t].stage = "answered",
             requests'[t].sets.csrf # KEPT => jar.csrf = NULL,
             requests'[t].location = NULL =>
                requests'[t].page.csrf \in {NULL, After(requests'[t].sets.csrf, jar.csrf)}
      PROVE  SameToken(t)'
    BY <1>1, <1>2 DEF SameToken, At, InHand
<1>3. CASE PageComes(t)
  <2>1. requests'[t].stage = "answered"
      BY <1>3 DEF PageComes, Answers
  <2>2. CASE /\ requests'[t].page.csrf \in {NULL, ReadCsrf(t)}
             /\ requests'[t].sets.csrf = IF jar.csrf = NULL THEN ReadCsrf(t) ELSE KEPT
    <3>1. CASE jar.csrf = NULL
      <4>1. ReadCsrf(t) = used.csrf + 1
          BY <1>1, <3>1 DEF ReadCsrf
      <4>2. ReadCsrf(t) # KEPT
          BY <4>1, Unset DEF TypeOK
      <4>3. After(requests'[t].sets.csrf, jar.csrf) = ReadCsrf(t)
          BY <2>2, <3>1, <4>2 DEF After
      <4> QED
          BY <1>2, <2>1, <2>2, <3>1, <4>3
    <3>2. CASE jar.csrf # NULL
      <4>1. ReadCsrf(t) = jar.csrf
          BY <1>1, <3>2 DEF ReadCsrf
      <4>2. After(requests'[t].sets.csrf, jar.csrf) = jar.csrf
          BY <2>2, <3>2 DEF After
      <4> QED
          BY <1>2, <2>1, <2>2, <3>2, <4>1, <4>2
    <3> QED
        BY <3>1, <3>2
  <2>3. CASE /\ Verified(t)
             /\ requests'[t].page.csrf = requests[t].csrf
             /\ requests'[t].sets.csrf = KEPT
    <3>1. After(requests'[t].sets.csrf, jar.csrf) = jar.csrf
        BY <2>3 DEF After
    <3>2. requests'[t].page.csrf = jar.csrf
        BY <1>1, <2>3 DEF Verified
    <3> QED
        BY <1>2, <2>1, <2>3, <3>1, <3>2
  <2> QED
      BY <1>1, <1>3, <2>2, <2>3 DEF PageComes
<1>4. CASE ErrorComes(t)
  <2>1. /\ requests'[t].stage = "answered" /\ requests'[t].sets.csrf = KEPT
        /\ requests'[t].page = Error
      BY <1>4 DEF ErrorComes, Answers
  <2>2. requests'[t].page.csrf = NULL
      BY <2>1 DEF Error
  <2> QED
      BY <1>2, <2>1, <2>2
<1>5. CASE LocationComes(t)
  <2>1. /\ requests'[t].stage = "answered"
        /\ requests'[t].location # NULL
        /\ requests'[t].sets.csrf # KEPT => requests[t].cookies.csrf = NULL
      BY <1>5 DEF LocationComes, Answers
  <2> QED
      BY <1>1, <1>2, <2>1
<1>6. CASE CheckComes(t)
  <2>1. /\ requests'[t].stage = "checked" /\ requests'[t].cookies = requests[t].cookies
        /\ requests'[t].csrf = requests[t].csrf
        /\ Verified(t)
      BY <1>6 DEF CheckComes, Checked
  <2>2. Verified(t)'
      BY <2>1 DEF Verified
  <2> QED
      BY <1>1, <2>1, <2>2 DEF SameToken, At
<1> QED
    BY <1>3, <1>4, <1>5, <1>6 DEF Handled

LEMMA TokensNext ==
    ASSUME TypeOK, TokensAgree, [Next]_vars
    PROVE  TokensAgree'
<1>1. FormsHaveTokens' /\ Apart'
    BY FormsNext, ApartNext DEF TokensAgree
<1> SUFFICES ASSUME ~disturbed', NEW s \in Tabs PROVE SameToken(s)'
    BY <1>1 DEF TokensAgree
<1>2. ASSUME ~disturbed PROVE OneInFlight /\ \A t \in Tabs : SameToken(t)
    BY <1>2 DEF TokensAgree, Apart
<1>3. CASE UNCHANGED vars
  <2>1. SameToken(s)
      BY <1>2, <1>3 DEF vars
  <2> QED
      BY <1>3, <2>1 DEF SameToken, InHand, At, Idle, Verified, vars
<1>4. CASE ExpirePending
  <2>1. SameToken(s)
      BY <1>2, <1>4, ExpiredRows
  <2>2. jar'.csrf = jar.csrf /\ tabs' = tabs
      BY <1>4, ExpiredRows
  <2>3. CASE requests'[s] = requests[s]
      BY <2>1, <2>2, <2>3 DEF SameToken, InHand, At, Idle, Verified
  <2>4. CASE /\ At(s, "sent") /\ requests'[s] \in Sent
             /\ requests'[s].route = requests[s].route /\ requests'[s].csrf = requests[s].csrf
             /\ requests'[s].cookies.csrf = requests[s].cookies.csrf
    <3>1. requests'[s].stage = "sent"
        BY <2>4 DEF Sent
    <3> QED
        BY <2>1, <2>2, <2>4, <3>1 DEF SameToken, InHand, At, Verified
  <2> QED
      BY <1>4, <2>3, <2>4, ExpiredRows
<1>5. ASSUME NEW t \in Tabs, NEW route, NEW csrf, NEW to, NEW wanted,
             Sends(t, route, csrf, to, wanted)
      PROVE  SameToken(s)'
  <2>1. disturbed' = (disturbed \/ InFlight # {}) /\ jar' = jar
      BY <1>5 DEF Sends, Send
  <2>2. \A r \in Tabs \ {t} : requests'[r] = requests[r] /\ tabs'[r] = tabs[r]
      BY <1>5, SentRows
  <2>3. \A r \in Tabs : SameToken(r)
      BY <1>2, <2>1
  <2>4. CASE s = t
      BY <1>5, <2>3, <2>4, SendsTheToken DEF TokensAgree
  <2>5. CASE s # t
    <3>1. Idle(s)'
        BY <2>1, <2>2, <2>5 DEF InFlight, Idle
    <3> QED
        BY <2>1, <2>2, <2>3, <2>5, <3>1, QuietTab DEF SameToken
  <2> QED
      BY <2>4, <2>5
<1>6. ASSUME NEW t \in Tabs, Deliver(t)
      PROVE  SameToken(s)'
  <2>1. /\ ~Idle(t) /\ disturbed' = disturbed
        /\ \A r \in Tabs \ {t} : requests'[r] = requests[r] /\ tabs'[r] = tabs[r]
      BY <1>6, DeliveredRows DEF At
  <2>2. OneInFlight /\ \A r \in Tabs : SameToken(r)
      BY <1>2, <2>1
  <2>3. SameToken(t)' /\ (jar'.csrf = jar.csrf \/ jar.csrf = NULL)
      BY <1>6, <2>2, DeliversTheToken
  <2>4. CASE s # t
    <3>1. Idle(s)'
        BY <2>1, <2>2, <2>4 DEF OneInFlight, Idle
    <3> QED
        BY <2>1, <2>2, <2>3, <2>4, <3>1, QuietTab DEF SameToken
  <2> QED
      BY <2>3, <2>4
<1>7. ASSUME NEW t \in Tabs, Handled(t)
      PROVE  SameToken(s)'
  <2>1. /\ ~Idle(t) /\ OnlyOf(t)
        /\ jar' = jar /\ tabs' = tabs /\ disturbed' = disturbed
      BY <1>7, BusyStays
  <2>2. OneInFlight /\ \A r \in Tabs : SameToken(r)
      BY <1>2, <2>1
  <2>3. CASE s = t
      BY <1>7, <2>2, <2>3, HandlesTheToken
  <2>4. CASE s # t
    <3>1. Idle(s)'
        BY <2>1, <2>2, <2>4 DEF OneInFlight, OnlyOf, Idle
    <3> QED
        BY <2>1, <2>2, <2>4, <3>1, QuietTab DEF SameToken
  <2> QED
      BY <2>3, <2>4
<1>8. ASSUME NEW u \in Users, Elsewhere(u)
      PROVE  SameToken(s)'
  <2>1. UNCHANGED <<jar, tabs, requests, disturbed>>
      BY <1>8, ElsewhereRows
  <2>2. SameToken(s)
      BY <1>2, <2>1
  <2> QED
      BY <2>1, <2>2 DEF SameToken, InHand, At, Idle, Verified
<1> QED
    BY <1>3, <1>4, <1>5, <1>6, <1>7, <1>8, Moves

LEMMA TokensInit == Init => TokensAgree
<1> SUFFICES ASSUME Init PROVE TokensAgree
    OBVIOUS
<1>1. \A t \in Tabs : tabs[t].shows = Blank /\ Idle(t)
    BY DEF Init, Idle
<1>2. FormsHaveTokens
    BY <1>1, NoForms DEF FormsHaveTokens, At
<1>3. \A t \in Tabs : SameToken(t)
  <2>1. Blank.csrf = NULL
      BY DEF Blank
  <2>2. \A t \in Tabs : tabs[t].shows.csrf = NULL /\ ~InHand(t) /\ ~At(t, "answered")
      BY <1>1, <2>1 DEF InHand, At
  <2> QED
      BY <2>2 DEF SameToken
<1> QED
    BY <1>2, <1>3, ApartInit DEF TokensAgree

\* As long as requests do not overlap, every form that is open in a tab or on its way is
\* accepted, whatever the other tabs have loaded since.
THEOREM FormsStayOpen == Spec => []OpenFormsAreAccepted
<1>1. TypeOK /\ TokensAgree /\ [Next]_vars => (TypeOK /\ TokensAgree)'
    BY TypeNext, TokensNext
<1>2. TokensAgree => OpenFormsAreAccepted
    BY DEF TokensAgree, SameToken, OpenFormsAreAccepted, InHand
<1> QED
    BY <1>1, <1>2, TypeInit, TokensInit, PTL DEF Spec

-----------------------------------------------------------------------------
(* Those who have left *)

\* Who had left when a request was sent has not come back.
GoneFor(t) == At(t, "sent") => \A u \in requests[t].gone : u \in Users /\ accounts[u] # "member"
LeaversStayGone == \A t \in Tabs : GoneFor(t)

LEMMA LeaversNext ==
    ASSUME TypeOK, LeaversStayGone, [Next]_vars
    PROVE  LeaversStayGone'
<1> SUFFICES ASSUME NEW s \in Tabs PROVE GoneFor(s)'
    BY DEF LeaversStayGone
<1>0. GoneFor(s)
    BY DEF LeaversStayGone
<1>1. ASSUME requests'[s] = requests[s],
             \A u \in Users : accounts[u] # "member" => accounts'[u] # "member"
      PROVE  GoneFor(s)'
    BY <1>0, <1>1 DEF GoneFor, At, Idle
<1>2. CASE UNCHANGED vars
    BY <1>1, <1>2 DEF vars
<1>3. CASE ExpirePending
  <2>1. accounts' = accounts
      BY <1>3 DEF ExpirePending
  <2>2. CASE requests'[s] = requests[s]
      BY <1>1, <2>1, <2>2
  <2>3. CASE At(s, "sent") /\ requests'[s].gone = requests[s].gone
      BY <1>0, <2>1, <2>3 DEF GoneFor
  <2> QED
      BY <1>3, <2>2, <2>3, ExpiredRows
<1>4. ASSUME NEW t \in Tabs, NEW route, NEW csrf, NEW to, NEW wanted,
             Sends(t, route, csrf, to, wanted)
      PROVE  GoneFor(s)'
  <2>1. accounts' = accounts
      BY <1>4 DEF Sends, Send
  <2>2. \A r \in Tabs \ {t} : requests'[r] = requests[r]
      BY <1>4, SentRows
  <2>3. requests'[t].gone = Gone
      BY <1>4, SentRows
  <2>4. CASE s = t
      BY <2>1, <2>3, <2>4 DEF GoneFor, Gone
  <2>5. CASE s # t
      BY <1>1, <2>1, <2>2, <2>5
  <2> QED
      BY <2>4, <2>5
<1>5. ASSUME NEW t \in Tabs, Deliver(t)
      PROVE  GoneFor(s)'
  <2>1. accounts' = accounts
      BY <1>5 DEF Deliver
  <2>2. \A r \in Tabs \ {t} : requests'[r] = requests[r]
      BY <1>5, DeliveredRows
  <2>3. requests'[t] = NULL \/ requests'[t].gone = Gone
      BY <1>5, DeliveredRows
  <2>4. CASE s = t
      BY <2>1, <2>3, <2>4 DEF GoneFor, Gone, At, Idle
  <2>5. CASE s # t
      BY <1>1, <2>1, <2>2, <2>5
  <2> QED
      BY <2>4, <2>5
<1>6. ASSUME NEW t \in Tabs, Handled(t)
      PROVE  GoneFor(s)'
  <2>1. \A u \in Users : accounts'[u] \in {accounts[u], "withdrawn"}
      BY <1>6 DEF Handled
  <2>2. OnlyOf(t) /\ requests'[t] \in Checked \union Rendered \union Redirected
      BY <1>6 DEF Handled, PageComes, ErrorComes, LocationComes, CheckComes, Answers
  <2>3. CASE s = t
      BY <2>2, <2>3 DEF GoneFor, At, Checked, Rendered, Redirected
  <2>4. CASE s # t
      BY <1>1, <2>1, <2>2, <2>4 DEF OnlyOf
  <2> QED
      BY <2>3, <2>4
<1>7. ASSUME NEW u \in Users, Elsewhere(u)
      PROVE  GoneFor(s)'
    BY <1>1, <1>7, ElsewhereRows
<1> QED
    BY <1>2, <1>3, <1>4, <1>5, <1>6, <1>7, Moves

LEMMA LeaversInit == Init => LeaversStayGone
    BY DEF Init, LeaversStayGone, GoneFor, At, Idle

\* Only a handler acts, and only for the account its request resolves to.
LEMMA ActorsAreMembers ==
    ASSUME TypeOK, [Next]_vars, NEW t \in Tabs, NEW u \in Users, ActsFor(t, u)
    PROVE  accounts[u] = "member"
<1>1. /\ At(t, "sent") /\ requests[t].route \in Guarded \union {"delete_account"}
      /\ requests'[t].stage # "sent"
    BY DEF ActsFor
<1>2. requests'[t] # requests[t] /\ requests'[t] \notin Sent
    BY <1>1 DEF At, Sent
<1>3. Handled(t)
  <2>1. ~(UNCHANGED vars) /\ ~ExpirePending /\ \A v \in Users : ~Elsewhere(v)
      BY <1>2, ExpiredRows, ElsewhereRows DEF vars
  <2>2. ASSUME NEW s \in Tabs, NEW route, NEW csrf, NEW to, NEW wanted,
               Sends(s, route, csrf, to, wanted)
        PROVE  FALSE
    <3>1. \A r \in Tabs \ {s} : requests'[r] = requests[r]
        BY <2>2, SentRows
    <3>2. requests'[s] \in Sent
        BY <2>2, SentRows
    <3> QED
        BY <1>2, <3>1, <3>2
  <2>3. ASSUME NEW s \in Tabs, Deliver(s)
        PROVE  FALSE
    <3>1. At(s, "answered") /\ \A r \in Tabs \ {s} : requests'[r] = requests[r]
        BY <2>3, DeliveredRows
    <3> QED
        BY <1>1, <1>2, <3>1 DEF At
  <2>4. ASSUME NEW s \in Tabs, Handled(s)
        PROVE  s = t
      BY <1>2, <2>4, BusyStays DEF OnlyOf
  <2> QED
      BY <2>1, <2>2, <2>3, <2>4, Moves
<1>4. Resolve(t) # NULL
  <2>1. CASE PageComes(t)
      BY <1>1, <2>1 DEF PageComes
  <2>2. CASE requests'[t].stage = "answered" /\ requests'[t].page \in {NULL, Error}
      BY <2>2 DEF ActsFor
  <2>3. CASE CheckComes(t)
    <3>1. requests[t].route \in SignIns \union {"delete_account"}
        BY <2>3 DEF CheckComes, Checked
    <3>2. requests[t].route = "delete_account"
        BY <1>1, <3>1 DEF Guarded, SignIns
    <3> QED
        BY <2>3, <3>2 DEF CheckComes
  <2> QED
      BY <1>3, <2>1, <2>2, <2>3 DEF Handled, ErrorComes, LocationComes, Answers
<1> QED
    BY <1>1, <1>4, Resolved DEF ActsFor

\* Nobody acts for an account that had left when the request was sent.
THEOREM LeaversAreDone == Spec => LeaversActNoMore
<1>1. TypeOK /\ LeaversStayGone /\ [Next]_vars => (TypeOK /\ LeaversStayGone)'
    BY TypeNext, LeaversNext
<1>2. TypeOK /\ LeaversStayGone /\ [Next]_vars =>
        [\A t \in Tabs, u \in Users : ActsFor(t, u) => u \notin requests[t].gone]_vars
  <2> SUFFICES ASSUME TypeOK, LeaversStayGone, [Next]_vars,
                      NEW t \in Tabs, NEW u \in Users, ActsFor(t, u)
               PROVE  u \notin requests[t].gone
      OBVIOUS
  <2> QED
      BY ActorsAreMembers DEF LeaversStayGone, GoneFor, ActsFor
<1> QED
    BY <1>1, <1>2, TypeInit, LeaversInit, PTL DEF Spec, LeaversActNoMore

-----------------------------------------------------------------------------
(* Messages *)

\* All messages but f have been shown once.
Once(f) ==
    /\ f # NULL => f \in 1..used.flash
    /\ \A g \in 1..used.flash : shown[g] = IF g = f THEN 0 ELSE 1

\* While requests do not overlap a message is on its way to the welcome page, which shows it:
\* the request has no session that would lead it elsewhere and needs no new token.
Carried(t) ==
    LET q == requests[t] IN
    /\ q.cookies.flash = jar.flash
    /\ Once(q.cookies.flash)
    /\ q.cookies.flash # NULL =>
        /\ At(t, "sent") /\ q.route = "welcome"
        /\ q.cookies.session = NULL /\ q.cookies.csrf # NULL

Returned(t) ==
    LET q == requests[t]
        f == After(q.sets.flash, jar.flash)
    IN
    /\ Once(f)
    /\ f # NULL =>
        /\ q.location = "welcome"
        /\ q.sets.session = NULL
        /\ After(q.sets.csrf, jar.csrf) # NULL

OnItsWay(t) == (InHand(t) => Carried(t)) /\ (At(t, "answered") => Returned(t))

Unshown == \A f \in Flashes : f > used.flash => shown[f] = 0

FlashesArrive ==
    /\ Unshown
    /\ ~disturbed =>
        /\ InFlight = {} => Once(NULL) /\ jar.flash = NULL
        /\ \A t \in Tabs : OnItsWay(t)

LEMMA IdleOnItsWay ==
    ASSUME NEW t \in Tabs, Idle(t)' PROVE OnItsWay(t)'
    BY DEF OnItsWay, InHand, At

LEMMA OnceKept ==
    ASSUME NEW f, Once(f), used'.flash = used.flash, shown' = shown
    PROVE  \A g : g = f => Once(g)'
    BY DEF Once

\* The message of a request is not read unless the request is on its way to the page that shows
\* it, so whatever else comes of a request, it carried none.
LEMMA NoFlashLost ==
    ASSUME TypeOK, NEW t \in Tabs, InHand(t), Carried(t), SameToken(t),
           ErrorComes(t) \/ LocationComes(t) \/ CheckComes(t)
    PROVE  requests[t].cookies.flash = NULL
<1> SUFFICES ASSUME requests[t].cookies.flash # NULL PROVE FALSE
    OBVIOUS
<1>1. /\ At(t, "sent") /\ requests[t].route = "welcome"
      /\ requests[t].cookies.session = NULL /\ requests[t].cookies.csrf # NULL
    BY DEF Carried
<1>2. /\ "welcome" \notin Writes /\ "welcome" \notin Guarded /\ "welcome" \notin SignIns
      /\ ~At(t, "checked")
    BY <1>1 DEF Writes, Guarded, SignIns, At
<1>3. CASE ErrorComes(t)
    BY <1>1, <1>2, <1>3 DEF ErrorComes
<1>4. CASE LocationComes(t)
    BY <1>1, <1>4, Resolved DEF LocationComes
<1>5. CASE CheckComes(t)
    BY <1>1, <1>2, <1>5 DEF CheckComes, Checked
<1> QED
    BY <1>3, <1>4, <1>5

\* A page shows the message of its request and takes it out of the cookie.
LEMMA PageShowsFlash ==
    ASSUME TypeOK, ~disturbed, NEW t \in Tabs, InHand(t), Carried(t), Unshown,
           PageComes(t), jar' = jar
    PROVE  Unshown' /\ Returned(t)'
<1>1. PICK f : f = requests[t].cookies.flash
    OBVIOUS
<1>2. /\ jar.flash = f /\ Once(f)
      /\ requests'[t].sets.flash = IF f = NULL THEN KEPT ELSE NULL
      /\ used'.flash = used.flash
      /\ shown' = [g \in Flashes |-> IF g = f THEN shown[g] + 1 ELSE shown[g]]
    BY <1>1, Zenon DEF Carried, PageComes, ClearFlash, ShowFlash
<1>3. used.flash \in 0..MaxFlash /\ MaxFlash \in Nat /\ shown \in [Flashes -> Nat]
    BY SessionsAssumption DEF TypeOK
<1>4. 1..used.flash \subseteq Flashes
    BY <1>3 DEF Flashes
<1>5. \A g \in 1..used.flash : shown'[g] = 1
    BY <1>2, <1>3, <1>4 DEF Once
<1>6. Unshown'
  <2>1. ASSUME NEW g \in Flashes, g > used.flash PROVE shown'[g] = 0
    <3>1. g # f
        BY <1>2, <1>3, <2>1, Numbers DEF Once
    <3> QED
        BY <1>2, <2>1, <3>1 DEF Unshown
  <2> QED
      BY <1>2, <2>1 DEF Unshown
<1>7. After(requests'[t].sets.flash, jar.flash) = NULL
    BY <1>2, Unset DEF After
<1>8. \A g \in 1..used.flash : g # NULL
    BY <1>4, Numbers
<1>9. ASSUME NEW none, none = NULL PROVE Once(none)'
    BY <1>2, <1>5, <1>8, <1>9 DEF Once
<1> QED
    BY <1>6, <1>7, <1>9 DEF Returned

\* An error or a check loses no message.
LEMMA NothingShown ==
    ASSUME TypeOK, NEW t \in Tabs, InHand(t), Carried(t), SameToken(t), Unshown,
           ErrorComes(t) \/ CheckComes(t), jar' = jar
    PROVE  Unshown' /\ OnItsWay(t)'
<1>1. requests[t].cookies.flash = NULL /\ jar.flash = NULL /\ Once(jar.flash)
    BY NoFlashLost DEF Carried
<1>2. used' = used /\ shown' = shown
    BY DEF ErrorComes, CheckComes
<1>3. Unshown'
    BY <1>2 DEF Unshown
<1>4. \A none : none = NULL => Once(none)'
    BY <1>1, <1>2, OnceKept
<1>5. CASE ErrorComes(t)
  <2>1. /\ requests'[t].stage = "answered"
        /\ requests'[t].sets.flash \in {KEPT, ClearFlash(t)}
      BY <1>5 DEF ErrorComes, Answers
  <2>2. requests'[t].sets.flash = KEPT
      BY <1>1, <2>1 DEF ClearFlash
  <2>3. After(requests'[t].sets.flash, jar.flash) = NULL
      BY <1>1, <2>2 DEF After
  <2>4. Returned(t)'
      BY <1>4, <2>3 DEF Returned
  <2> QED
      BY <1>3, <2>1, <2>4 DEF OnItsWay, InHand, At
<1>6. CASE CheckComes(t)
  <2>1. requests'[t].stage = "checked" /\ requests'[t].cookies = requests[t].cookies
      BY <1>6 DEF CheckComes, Checked
  <2>2. Carried(t)'
      BY <1>1, <1>4, <2>1 DEF Carried
  <2> QED
      BY <1>3, <2>1, <2>2 DEF OnItsWay, At
<1> QED
    BY <1>5, <1>6

\* A location brings the next message or none.
LEMMA LocationBringsFlash ==
    ASSUME TypeOK, NEW t \in Tabs, InHand(t), Carried(t), SameToken(t), Unshown,
           LocationComes(t), jar' = jar
    PROVE  Unshown' /\ Returned(t)'
<1>1. requests[t].cookies.flash = NULL /\ jar.flash = NULL /\ Once(jar.flash)
    BY NoFlashLost DEF Carried
<1>2. shown' = shown
    BY DEF LocationComes
<1>3. used.flash \in 0..MaxFlash /\ MaxFlash \in Nat
    BY SessionsAssumption DEF TypeOK
<1>4. CASE requests'[t].sets.flash = ClearFlash(t) /\ used'.flash = used.flash
  <2>1. Unshown'
      BY <1>2, <1>4 DEF Unshown
  <2>2. requests'[t].sets.flash = KEPT
      BY <1>1, <1>4 DEF ClearFlash
  <2>3. After(requests'[t].sets.flash, jar.flash) = NULL
      BY <1>1, <2>2 DEF After
  <2>4. \A none : none = NULL => Once(none)'
      BY <1>1, <1>2, <1>4, OnceKept
  <2> QED
      BY <2>1, <2>3, <2>4 DEF Returned
<1>5. CASE /\ requests'[t].sets.flash = used.flash + 1 /\ used'.flash = used.flash + 1
           /\ requests'[t].location = "welcome"
           /\ requests'[t].sets.session = NULL /\ requests'[t].sets.csrf = KEPT
           /\ requests[t].route \in Writes
           /\ requests'[t].sets.flash \in Flashes
  <2>1. PICK f \in Flashes : f = used.flash + 1
      BY <1>5
  <2>2. Unshown'
      BY <1>2, <1>3, <1>5 DEF Unshown, Flashes
  <2>3. f # NULL /\ f # KEPT /\ After(requests'[t].sets.flash, jar.flash) = f
      BY <1>5, <2>1, Numbers DEF After
  <2>4. \A g \in 1..used.flash : shown[g] = 1
    <3>1. \A g \in 1..used.flash : g # NULL
        BY <1>3, Unset
    <3> QED
        BY <1>1, <3>1 DEF Once
  <2>5. shown[f] = 0
      BY <1>3, <2>1 DEF Unshown
  <2>6. Once(f)'
      BY <1>2, <1>3, <1>5, <2>1, <2>4, <2>5 DEF Once
  <2>7. After(requests'[t].sets.csrf, jar.csrf) # NULL
    <3>1. jar.csrf # NULL
        BY <1>5 DEF SameToken, Verified
    <3> QED
        BY <1>5, <3>1 DEF After
  <2> QED
      BY <1>5, <2>2, <2>3, <2>6, <2>7 DEF Returned
<1> QED
    BY <1>4, <1>5 DEF LocationComes

LEMMA HandlesTheFlash ==
    ASSUME TypeOK, ~disturbed, NEW t \in Tabs, OnItsWay(t), SameToken(t), Unshown, Handled(t)
    PROVE  Unshown' /\ OnItsWay(t)'
<1>1. InHand(t) /\ Carried(t) /\ jar' = jar
    BY DEF Handled, InHand, OnItsWay
<1>2. CASE PageComes(t) \/ LocationComes(t)
  <2>1. Unshown' /\ Returned(t)'
      BY <1>1, <1>2, PageShowsFlash, LocationBringsFlash
  <2>2. requests'[t].stage = "answered"
      BY <1>2 DEF PageComes, LocationComes, Answers
  <2> QED
      BY <2>1, <2>2 DEF OnItsWay, InHand, At
<1>3. CASE ErrorComes(t) \/ CheckComes(t)
    BY <1>1, <1>3, NothingShown
<1> QED
    BY <1>2, <1>3 DEF Handled

\* What has not been handed out is not shown, even when requests overlap.
LEMMA UnshownNext ==
    ASSUME TypeOK, disturbed, NEW t \in Tabs, Unshown, Handled(t)
    PROVE  Unshown'
<1>1. used.flash \in Nat /\ shown \in [Flashes -> Nat]
    BY DEF TypeOK
<1>2. used'.flash \in {used.flash, used.flash + 1}
    BY DEF Handled, PageComes, ErrorComes, LocationComes, CheckComes
<1>3. \A f \in Flashes : shown'[f] = shown[f]
    BY <1>1 DEF Handled, PageComes, ErrorComes, LocationComes, CheckComes, ShowFlash
<1> QED
    BY <1>1, <1>2, <1>3 DEF Unshown, Flashes

\* The browser stores the message and sends it along to the welcome page.
LEMMA DeliversTheFlash ==
    ASSUME TypeOK, NEW t \in Tabs, OnItsWay(t), Deliver(t)
    PROVE  /\ OnItsWay(t)'
           /\ requests'[t] = NULL => jar'.flash = NULL /\ \A none : none = NULL => Once(none)'
<1>1. /\ At(t, "answered")
      /\ requests[t].sets \in SetCookies
      /\ jar' = Stored(requests[t].sets)
    BY DeliveredRows
<1>2. used' = used /\ shown' = shown
    BY DEF Deliver
<1>3. PICK f : f = jar'.flash
    OBVIOUS
<1>4. /\ f = After(requests[t].sets.flash, jar.flash)
      /\ jar'.csrf = After(requests[t].sets.csrf, jar.csrf)
      /\ jar'.session = After(requests[t].sets.session, jar.session)
      /\ jar' \in Cookies
    BY <1>1, <1>3, StoredCookies
<1>5. /\ Once(f)
      /\ f # NULL => /\ requests[t].location = "welcome"
                     /\ requests[t].sets.session = NULL
                     /\ jar'.csrf # NULL
    BY <1>1, <1>4 DEF OnItsWay, Returned
<1>6. \A g : g = f => Once(g)'
    BY <1>2, <1>5, OnceKept
<1>7. CASE requests[t] \in Rendered /\ requests'[t] = NULL
  <2>1. f = NULL
    <3>1. requests[t].location = NULL
        BY <1>7 DEF Rendered
    <3>2. NULL # "welcome"
        BY Unset DEF Reads, Public
    <3> QED
        BY <1>5, <3>1, <3>2
  <2>2. OnItsWay(t)'
      BY <1>7, IdleOnItsWay DEF Idle
  <2> QED
      BY <1>3, <1>6, <2>1, <2>2
<1>8. CASE /\ requests'[t] \in Sent
           /\ requests'[t].route = requests[t].location
           /\ requests'[t].cookies = Heeded(requests[t].location, jar')
  <2>1. /\ requests'[t].cookies.flash = f
        /\ requests'[t].cookies.csrf = jar'.csrf
        /\ requests[t].location \in SessionRoutes => requests'[t].cookies.session = jar'.session
    <3>1. PICK cookies \in Cookies : cookies = jar'
        BY <1>4
    <3>2. PICK route : route = requests[t].location
        OBVIOUS
    <3>3. requests'[t].cookies = Heeded(route, cookies)
        BY <1>8, <3>1, <3>2
    <3>4. /\ Heeded(route, cookies).flash = cookies.flash
          /\ Heeded(route, cookies).csrf = cookies.csrf
          /\ route \in SessionRoutes => Heeded(route, cookies).session = cookies.session
        BY HeededCookies
    <3> QED
        BY <1>3, <3>1, <3>2, <3>3, <3>4
  <2>2. requests'[t].stage = "sent" /\ requests'[t] # NULL
      BY <1>8, NoRequestAssumption DEF Sent
  <2>3. ASSUME f # NULL
        PROVE  /\ At(t, "sent")' /\ requests'[t].route = "welcome"
               /\ requests'[t].cookies.session = NULL /\ requests'[t].cookies.csrf # NULL
    <3>1. "welcome" \in SessionRoutes
        BY DEF SessionRoutes, Public
    <3>2. jar'.session = NULL
        BY <1>4, <1>5, <2>3, Unset DEF After
    <3> QED
        BY <1>5, <1>8, <2>1, <2>2, <2>3, <3>1, <3>2 DEF At, Idle
  <2>4. Carried(t)'
      BY <1>3, <1>6, <2>1, <2>3 DEF Carried
  <2> QED
      BY <2>2, <2>4 DEF OnItsWay, At
<1> QED
    BY <1>1, <1>7, <1>8, DeliveredRows

LEMMA FlashesNext ==
    ASSUME TypeOK, TokensAgree, FlashesArrive, [Next]_vars
    PROVE  FlashesArrive'
<1> DEFINE Quiet == InFlight = {} => Once(NULL) /\ jar.flash = NULL
<1>0. Unshown
    BY DEF FlashesArrive
<1>1. ASSUME ~disturbed
      PROVE  OneInFlight /\ Quiet /\ \A t \in Tabs : SameToken(t) /\ OnItsWay(t)
    BY <1>1 DEF TokensAgree, Apart, FlashesArrive
<1>2. CASE UNCHANGED vars
    BY <1>2 DEF FlashesArrive, Unshown, Once, OnItsWay, Carried, Returned, InHand, At, Idle,
                InFlight, vars
<1>3. CASE ExpirePending
  <2>1. UNCHANGED <<used, shown, disturbed>>
      BY <1>3 DEF ExpirePending
  <2>2. /\ jar'.flash = jar.flash /\ jar'.csrf = jar.csrf
        /\ \A t \in Tabs :
            \/ requests'[t] = requests[t]
            \/ /\ At(t, "sent") /\ requests'[t] \in Sent
               /\ requests'[t].route = requests[t].route
               /\ requests'[t].cookies.session = requests[t].cookies.session
               /\ requests'[t].cookies.csrf = requests[t].cookies.csrf
               /\ requests'[t].cookies.flash = requests[t].cookies.flash
      BY <1>3, ExpiredRows
  <2>3. Unshown'
      BY <2>1, <1>0 DEF Unshown
  <2>4. InFlight' = {} => InFlight = {}
      BY <2>2, NoRequestAssumption DEF InFlight
  <2>5. Once(NULL) => Once(NULL)'
      BY <2>1 DEF Once
  <2>6. ASSUME ~disturbed, NEW t \in Tabs PROVE OnItsWay(t)'
    <3>1. OnItsWay(t)
        BY <1>1, <2>6
    <3>2. CASE requests'[t] = requests[t]
        BY <2>1, <2>2, <3>1, <3>2
           DEF OnItsWay, Carried, Returned, Once, InHand, At, Idle
    <3>3. CASE /\ At(t, "sent") /\ requests'[t] \in Sent
               /\ requests'[t].route = requests[t].route
               /\ requests'[t].cookies.session = requests[t].cookies.session
               /\ requests'[t].cookies.csrf = requests[t].cookies.csrf
               /\ requests'[t].cookies.flash = requests[t].cookies.flash
      <4>1. requests'[t].stage = "sent" /\ requests'[t] # NULL
          BY <3>3, NoRequestAssumption DEF Sent
      <4>2. Carried(t)
          BY <3>1, <3>3 DEF OnItsWay, InHand
      <4>3. Carried(t)'
          BY <2>1, <2>2, <3>3, <4>1, <4>2 DEF Carried, Once, At, Idle
      <4> QED
          BY <4>1, <4>3 DEF OnItsWay, At
    <3> QED
        BY <2>2, <3>2, <3>3
  <2> QED
      BY <1>1, <2>1, <2>2, <2>3, <2>4, <2>5, <2>6 DEF FlashesArrive
<1>4. ASSUME NEW t \in Tabs, NEW route, NEW csrf, NEW to, NEW wanted,
             Sends(t, route, csrf, to, wanted)
      PROVE  FlashesArrive'
  <2>1. /\ UNCHANGED <<jar, used, shown>>
        /\ disturbed' = (disturbed \/ InFlight # {})
      BY <1>4 DEF Sends, Send
  <2>2. /\ \A s \in Tabs \ {t} : requests'[s] = requests[s]
        /\ requests'[t] \in Sent
        /\ requests'[t].cookies = Heeded(route, jar)
      BY <1>4, SentRows
  <2>3. Unshown'
      BY <2>1, <1>0 DEF Unshown
  <2>4. InFlight' # {}
      BY <2>2, NoRequestAssumption DEF InFlight
  <2>5. ASSUME ~disturbed', NEW s \in Tabs PROVE OnItsWay(s)'
    <3>1. ~disturbed /\ InFlight = {} /\ Once(NULL) /\ jar.flash = NULL
        BY <1>1, <2>1, <2>5
    <3>2. CASE s # t
      <4>1. Idle(s)'
          BY <2>2, <3>1, <3>2 DEF InFlight, Idle
      <4> QED
          BY <4>1, IdleOnItsWay
    <3>3. CASE s = t
      <4>1. requests'[t].cookies.flash = NULL
          BY <2>2, <3>1, HeededCookies DEF TypeOK
      <4>2. \A none : none = NULL => Once(none)'
          BY <2>1, <3>1, OnceKept
      <4>3. Carried(t)'
          BY <2>1, <3>1, <4>1, <4>2 DEF Carried
      <4>4. ~At(t, "answered")'
          BY <2>2 DEF At, Sent
      <4> QED
          BY <3>3, <4>3, <4>4 DEF OnItsWay
    <3> QED
        BY <3>2, <3>3
  <2> QED
      BY <2>3, <2>4, <2>5 DEF FlashesArrive
<1>5. ASSUME NEW t \in Tabs, Deliver(t)
      PROVE  FlashesArrive'
  <2>1. UNCHANGED <<used, shown, disturbed>>
      BY <1>5 DEF Deliver
  <2>2. /\ \A s \in Tabs \ {t} : requests'[s] = requests[s]
        /\ ~Idle(t)
      BY <1>5, DeliveredRows DEF At
  <2>3. Unshown'
      BY <2>1, <1>0 DEF Unshown
  <2>4. ASSUME ~disturbed
        PROVE  /\ OnItsWay(t)'
               /\ requests'[t] = NULL =>
                    jar'.flash = NULL /\ \A none : none = NULL => Once(none)'
      BY <1>1, <1>5, <2>4, DeliversTheFlash
  <2>5. ASSUME ~disturbed, NEW s \in Tabs \ {t} PROVE OnItsWay(s)'
    <3>1. Idle(s)'
        BY <1>1, <2>2, <2>5 DEF OneInFlight, Idle
    <3> QED
        BY <3>1, IdleOnItsWay
  <2>6. InFlight' = {} => requests'[t] = NULL
      BY DEF InFlight
  <2>7. ASSUME ~disturbed, InFlight' = {} PROVE Once(NULL)' /\ jar'.flash = NULL
      BY <2>4, <2>6, <2>7
  <2> QED
      BY <2>1, <2>3, <2>4, <2>5, <2>7 DEF FlashesArrive
<1>6. ASSUME NEW t \in Tabs, Handled(t)
      PROVE  FlashesArrive'
  <2>1. /\ ~Idle(t) /\ requests'[t] # NULL /\ OnlyOf(t) /\ disturbed' = disturbed
      BY <1>6, BusyStays
  <2>2. InFlight' # {}
      BY <2>1 DEF InFlight
  <2>3. CASE disturbed
    <3>1. Unshown'
        BY <1>0, <1>6, <2>3, UnshownNext
    <3> QED
        BY <2>1, <2>3, <3>1 DEF FlashesArrive
  <2>4. CASE ~disturbed
    <3>1. Unshown' /\ OnItsWay(t)'
        BY <1>0, <1>1, <1>6, <2>4, HandlesTheFlash
    <3>2. ASSUME NEW s \in Tabs \ {t} PROVE OnItsWay(s)'
      <4>1. Idle(s)'
          BY <1>1, <2>1, <2>4, <3>2 DEF OneInFlight, OnlyOf, Idle
      <4> QED
          BY <4>1, IdleOnItsWay
    <3> QED
        BY <2>2, <3>1, <3>2 DEF FlashesArrive
  <2> QED
      BY <2>3, <2>4
<1>7. ASSUME NEW u \in Users, Elsewhere(u)
      PROVE  FlashesArrive'
  <2>1. UNCHANGED <<jar, requests, shown, used, disturbed>>
      BY <1>7, ElsewhereRows
  <2> QED
      BY <2>1 DEF FlashesArrive, Unshown, Once, OnItsWay, Carried, Returned, InHand, At, Idle,
                  InFlight
<1> QED
    BY <1>2, <1>3, <1>4, <1>5, <1>6, <1>7, Moves

LEMMA FlashesInit == Init => FlashesArrive
<1> SUFFICES ASSUME Init PROVE FlashesArrive
    OBVIOUS
<1>1. used.flash = 0 /\ jar.flash = NULL /\ \A f \in Flashes : shown[f] = 0
    BY DEF Init
<1>2. 1..used.flash = {}
    BY <1>1
<1>3. Once(NULL)
    BY <1>2 DEF Once
<1>4. \A t \in Tabs : OnItsWay(t)
    BY DEF Init, OnItsWay, InHand, At, Idle
<1> QED
    BY <1>1, <1>3, <1>4 DEF FlashesArrive, Unshown

\* As long as requests do not overlap, a message is rendered exactly once, on the page the
\* browser is sent to.
THEOREM MessagesAreShownOnce == Spec => []FlashIsShownOnce
<1>1. /\ TypeOK /\ TokensAgree /\ FlashesArrive /\ [Next]_vars =>
            (TypeOK /\ TokensAgree /\ FlashesArrive)'
    BY TypeNext, TokensNext, FlashesNext
<1>2. TypeOK /\ FlashesArrive => FlashIsShownOnce
  <2> SUFFICES ASSUME TypeOK, FlashesArrive, ~disturbed, InFlight = {},
                      NEW f \in 1..used.flash
               PROVE  shown[f] = 1
      BY DEF FlashIsShownOnce
  <2>1. used.flash \in 0..MaxFlash
      BY DEF TypeOK
  <2>2. f \in Int
      BY <2>1
  <2>3. f # NULL
      BY <2>2, Unset
  <2> QED
      BY <2>3 DEF FlashesArrive, Once
<1> QED
    BY <1>1, <1>2, TypeInit, TokensInit, FlashesInit, PTL DEF Spec
=============================================================================
