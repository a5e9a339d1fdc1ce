------------------------------ MODULE Sessions ------------------------------
(***************************************************************************)
(* One browser and its tabs, signing in and out: the four cookies the      *)
(* browser keeps, the rows of user_sessions they resolve to, the forms its *)
(* tabs show, and the address a visitor is returned to.                    *)
(*                                                                         *)
(* A request carries the cookies of the moment it is sent, a handler works *)
(* on it in the steps that touch the database, and the cookies of its      *)
(* answer reach the browser when the answer does.  Other devices and the   *)
(* operator act on the same accounts in between.                           *)
(***************************************************************************)
EXTENDS Integers

CONSTANTS
    Tabs,      \* tabs of the browser, one request in flight each
    Users,     \* accounts
    Entries,   \* for each tab, the addresses that are typed in or bookmarked there
    NULL,      \* no cookie, no token, no address, no request
    KEPT,      \* what an answer says of a cookie it does not mention
    MaxTokens, \* bound: session tokens ever issued
    MaxCsrf,   \* bound: CSRF tokens ever issued
    MaxFlash   \* bound: flash messages ever set

\* The routes that are read, by how they treat a visitor who is not signed in.
Guarded == {"home", "withdrawal"}
Public == {"welcome", "board"}
Steps == {"sign_in", "challenge", "recovery"}
Reads == Guarded \union Public \union Steps

ASSUME SessionsAssumption ==
    /\ {MaxTokens, MaxCsrf, MaxFlash} \subseteq Nat
    /\ \A unset \in {NULL, KEPT} : unset \notin Int /\ unset \notin Users /\ unset \notin Reads
    /\ NULL # KEPT
    /\ Entries \in [Tabs -> SUBSET Reads]

Tokens == 1..MaxTokens
CsrfTokens == 1..MaxCsrf
Flashes == 1..MaxFlash

VARIABLES
    accounts,  \* what has become of each account
    secured,   \* the accounts with an enabled second factor
    rows,      \* user_sessions by token: whose it is, or NULL
    jar,       \* the cookies of the browser
    tabs,      \* what each tab shows
    requests,  \* the request of each tab that is in flight
    proved,    \* history: who this browser gave a password or a code of
    shown,     \* history: how often each flash message was rendered, until requests overlap
    used,      \* history: how many tokens and messages have been handed out
    disturbed  \* history: two requests have overlapped

vars == <<accounts, secured, rows, jar, tabs, requests, proved, shown, used, disturbed>>

\* What a page offers: the forms it sends and the pages it links to.
SignInPage     == [forms |-> {"create_sign_in"}, links |-> {}]
ChallengePage  == [forms |-> {"create_sign_in_two_factor"}, links |-> {"recovery"}]
RecoveryPage   == [forms |-> {"create_sign_in_two_factor_recovery"}, links |-> {"challenge"}]
WithdrawalPage == [forms |-> {"delete_account"}, links |-> {}]
WelcomePage    == [forms |-> {}, links |-> {"sign_in"}]
Sidebar(signedIn) ==
    IF signedIn THEN [forms |-> {"delete_session"}, links |-> {}]
    ELSE [forms |-> {}, links |-> {"sign_in"}]

Offers(shows) ==
    CASE shows.page = "sign_in"    -> SignInPage
      [] shows.page = "challenge"  -> ChallengePage
      [] shows.page = "recovery"   -> RecoveryPage
      [] shows.page = "withdrawal" -> WithdrawalPage
      [] shows.page = "welcome"    -> WelcomePage
      [] shows.page \in {"home", "board"} -> Sidebar(shows.csrf # NULL)
      [] OTHER -> [forms |-> {}, links |-> {}]

SignIns == {"create_sign_in", "create_sign_in_two_factor", "create_sign_in_two_factor_recovery"}
Writes == SignIns \union {"delete_session", "delete_account"}

\* The routes that ask whose session it is, and those that ask whose sign-in is pending.
SessionRoutes == Guarded \union Public \union {"delete_session", "delete_account"}
PendingRoutes ==
    {"challenge", "recovery", "create_sign_in_two_factor", "create_sign_in_two_factor_recovery"}

\* Where a visitor can be returned to.
Addresses == Guarded \union {"board"}

Cookies == [session : Tokens \union {NULL}, pending : Users \union {NULL},
            csrf : CsrfTokens \union {NULL}, flash : Flashes \union {NULL}]

\* What an answer says of each cookie: a value, that it is to be deleted, or nothing.
SetCookies == [session : Tokens \union {NULL, KEPT}, pending : Users \union {NULL, KEPT},
               csrf : CsrfTokens \union {NULL, KEPT}, flash : Flashes \union {NULL, KEPT}]

Page == [page : Reads \union {"blank", "error"}, csrf : CsrfTokens \union {NULL},
         to : Addresses \union {NULL}]

Blank == [page |-> "blank", csrf |-> NULL, to |-> NULL]
Error == [page |-> "error", csrf |-> NULL, to |-> NULL]

\* A request on its way to a handler, one that a handler has checked, and the two answers: a
\* page, or a location.
Sent == [stage : {"sent"}, route : Reads \union Writes, cookies : Cookies,
         csrf : CsrfTokens \union {NULL}, to : Addresses \union {NULL},
         user : {NULL}, due : {FALSE}, gone : SUBSET Users]

Checked == [stage : {"checked"}, route : SignIns \union {"delete_account"}, cookies : Cookies,
            csrf : CsrfTokens \union {NULL}, to : Addresses \union {NULL},
            user : Users, due : BOOLEAN, gone : SUBSET Users]

Rendered == [stage : {"answered"}, route : Reads \union Writes, page : Page,
             location : {NULL}, to : {NULL}, sets : SetCookies]

Redirected == [stage : {"answered"}, route : Reads \union Writes, page : {NULL},
               location : Reads, to : Addresses \union {NULL}, sets : SetCookies]

\* A tab that waits for nothing has no request.
ASSUME NoRequestAssumption == NULL \notin Sent \union Checked \union Rendered \union Redirected

TypeOK ==
    /\ accounts \in [Users -> {"member", "suspended", "withdrawn"}]
    /\ secured \subseteq Users
    /\ rows \in [Tokens -> [user : Users, due : BOOLEAN] \union {NULL}]
    /\ jar \in Cookies
    /\ tabs \in [Tabs -> [shows : Page, wanted : Addresses \union {NULL}]]
    /\ requests \in [Tabs -> Sent \union Checked \union Rendered \union Redirected \union {NULL}]
    /\ proved \subseteq Users \X {"password", "code"}
    /\ shown \in [Flashes -> Nat]
    /\ used \in [tokens : 0..MaxTokens, csrf : 0..MaxCsrf, flash : 0..MaxFlash]
    /\ disturbed \in BOOLEAN

Init ==
    /\ accounts = [u \in Users |-> "member"]
    /\ secured \in SUBSET Users
    /\ rows = [k \in Tokens |-> NULL]
    /\ jar = [session |-> NULL, pending |-> NULL, csrf |-> NULL, flash |-> NULL]
    /\ tabs = [t \in Tabs |-> [shows |-> Blank, wanted |-> NULL]]
    /\ requests = [t \in Tabs |-> NULL]
    /\ proved = {}
    /\ shown = [f \in Flashes |-> 0]
    /\ used = [tokens |-> 0, csrf |-> 0, flash |-> 0]
    /\ disturbed = FALSE

-----------------------------------------------------------------------------
\* The browser.

Idle(t) == requests[t] = NULL
InFlight == {t \in Tabs : requests[t] # NULL}
Gone == {u \in Users : accounts[u] # "member"}

\* The cookies that decide over a route: who is signed in, or who is about to be.  The others
\* are sent, and nobody looks at them.
Heeded(route, cookies) ==
    IF route \in SessionRoutes THEN [cookies EXCEPT !.pending = NULL]
    ELSE IF route \in PendingRoutes THEN [cookies EXCEPT !.session = NULL]
    ELSE [cookies EXCEPT !.session = NULL, !.pending = NULL]

\* A request as it leaves the browser.
Outgoing(route, cookies, csrf, to) ==
    [stage |-> "sent", route |-> route, cookies |-> Heeded(route, cookies), csrf |-> csrf,
     to |-> to, user |-> NULL, due |-> FALSE, gone |-> Gone]

\* A tab shows nothing that can be used while it waits for an answer.
Send(t, route, csrf, to, wanted) ==
    /\ Idle(t)
    /\ requests' = [requests EXCEPT ![t] = Outgoing(route, jar, csrf, to)]
    /\ tabs' = [tabs EXCEPT ![t] = [shows |-> Blank, wanted |-> wanted]]
    /\ disturbed' = (disturbed \/ InFlight # {})
    /\ UNCHANGED <<accounts, secured, rows, jar, proved, shown, used>>

Visit(t, route) == Send(t, route, NULL, NULL, NULL)

\* The two challenges link to each other, and what is read without an account links to the
\* sign-in; a link carries the return_to of its page, if it has one.
Follow(t) ==
    LET shows == tabs[t].shows IN
    \E route \in Offers(shows).links :
        Send(t, route, NULL, shows.to,
             IF route = "sign_in" THEN shows.to ELSE tabs[t].wanted)

Submit(t) ==
    LET shows == tabs[t].shows IN
    \E route \in Offers(shows).forms : Send(t, route, shows.csrf, shows.to, tabs[t].wanted)

\* The address a guard has turned the visitor away from is wanted; the address of a form
\* is not.
Wanted(t) ==
    CASE requests[t].location # "sign_in" -> tabs[t].wanted
      [] requests[t].route \in Guarded -> requests[t].route
      [] requests[t].route = "delete_account" -> NULL
      [] OTHER -> tabs[t].wanted

\* The cookies of the browser after an answer.
After(set, had) == IF set = KEPT THEN had ELSE set

Stored(sets) ==
    [session |-> After(sets.session, jar.session), pending |-> After(sets.pending, jar.pending),
     csrf |-> After(sets.csrf, jar.csrf), flash |-> After(sets.flash, jar.flash)]

\* They are stored before its location is followed.
Deliver(t) ==
    LET answer == requests[t]
        cookies == Stored(answer.sets)
    IN
    /\ ~Idle(t)
    /\ answer.stage = "answered"
    /\ jar' = cookies
    /\ IF answer.location = NULL
       THEN /\ tabs' = [tabs EXCEPT ![t].shows = answer.page]
            /\ requests' = [requests EXCEPT ![t] = NULL]
       ELSE /\ tabs' = [tabs EXCEPT ![t].wanted = Wanted(t)]
            /\ requests' = [requests EXCEPT ![t] =
                                Outgoing(answer.location, cookies, NULL, answer.to)]
    /\ UNCHANGED <<accounts, secured, rows, proved, shown, used, disturbed>>

\* The cookie of a sign-in that is pending lasts ten minutes, and so does its signature.
ExpirePending ==
    /\ jar.pending # NULL
    /\ jar' = [jar EXCEPT !.pending = NULL]
    /\ requests' = [t \in Tabs |->
            IF Idle(t) \/ requests[t].stage # "sent" THEN requests[t]
            ELSE [requests[t] EXCEPT !.cookies.pending = NULL]]
    /\ UNCHANGED <<accounts, secured, rows, tabs, proved, shown, used, disturbed>>

-----------------------------------------------------------------------------
\* What runs before a handler.

At(t, stage) == ~Idle(t) /\ requests[t].stage = stage
Reading(t, route) == At(t, "sent") /\ requests[t].route = route

\* Mutant: every page that is read gets a token of its own.
ReadCsrfAlways(t) ==
    IF used.csrf < MaxCsrf THEN used.csrf + 1 ELSE requests[t].cookies.csrf

\* getOrCreateToken: a token that the browser has is used again, so that the forms of all
\* its tabs carry the same one.
ReadCsrf(t) ==
    IF requests[t].cookies.csrf # NULL THEN requests[t].cookies.csrf ELSE used.csrf + 1

Issues(t) == ReadCsrf(t) # requests[t].cookies.csrf

\* CSRF.Middleware for a request that writes: the form repeats what the cookie says.
Verified(t) ==
    /\ requests[t].cookies.csrf # NULL
    /\ requests[t].csrf = requests[t].cookies.csrf

\* Mutant: the message is rendered and stays in the cookie.
ClearFlashNever(t) == KEPT

\* FlashManager.Middleware takes the message out of the cookie, whatever the handler does.
ClearFlash(t) == IF requests[t].cookies.flash = NULL THEN KEPT ELSE NULL

\* A page, or a location with the return_to it carries, and the cookies that are set.
Reply(t, page, location, to, sets) ==
    requests' = [requests EXCEPT ![t] =
        [stage |-> "answered", route |-> @.route, page |-> page, location |-> location,
         to |-> to, sets |-> sets]]

Answer(t, page, location, to, sets) ==
    Reply(t, page, location, to,
          [sets EXCEPT !.flash = IF @ = KEPT THEN ClearFlash(t) ELSE @])

NoCookies == [session |-> KEPT, pending |-> KEPT, csrf |-> KEPT, flash |-> KEPT]
CsrfCookie(t) == [NoCookies EXCEPT !.csrf = IF Issues(t) THEN ReadCsrf(t) ELSE KEPT]

\* The layouts render the message of the request.
ShowFlash(t) ==
    shown' = [f \in Flashes |->
        IF f = requests[t].cookies.flash /\ ~disturbed THEN shown[f] + 1 ELSE shown[f]]

\* A page that is read, with the token it was given.
Render(t, page, csrf, to) ==
    /\ ReadCsrf(t) \in CsrfTokens
    /\ Answer(t, [page |-> page, csrf |-> csrf, to |-> to], NULL, NULL, CsrfCookie(t))
    /\ used' = [used EXCEPT !.csrf = IF Issues(t) THEN ReadCsrf(t) ELSE @]
    /\ ShowFlash(t)

\* A read that is sent elsewhere.
Redirect(t, location, to) ==
    /\ ReadCsrf(t) \in CsrfTokens
    /\ Answer(t, NULL, location, to, CsrfCookie(t))
    /\ used' = [used EXCEPT !.csrf = IF Issues(t) THEN ReadCsrf(t) ELSE @]
    /\ UNCHANGED shown

\* A form that is shown again with its errors, with the token it came with.
RenderAgain(t, page) ==
    /\ Answer(t, [page |-> page, csrf |-> requests[t].csrf, to |-> requests[t].to],
              NULL, NULL, NoCookies)
    /\ ShowFlash(t)
    /\ UNCHANGED used

\* A write that is sent elsewhere, with the cookies it sets.
SeeOther(t, location, to, sets) ==
    /\ Answer(t, NULL, location, to, sets)
    /\ UNCHANGED shown

\* Mutant: the account of a session is looked up without asking what has become of it.
ResolveAnyone(t) ==
    LET token == requests[t].cookies.session IN
    IF token = NULL \/ rows[token] = NULL THEN NULL ELSE rows[token].user

\* GetCurrentUser: the session of the cookie, of an account that is neither withdrawn nor
\* suspended.
Resolve(t) ==
    LET token == requests[t].cookies.session IN
    IF token = NULL \/ rows[token] = NULL THEN NULL
    ELSE IF accounts[rows[token].user] = "member" THEN rows[token].user
    ELSE NULL

PendingCookie(u) == [NoCookies EXCEPT !.pending = u]
SessionCookie(token) == [NoCookies EXCEPT !.session = token]
NoPending(sets) == [sets EXCEPT !.pending = NULL]

-----------------------------------------------------------------------------
\* Handlers that read.

\* RequireAuth: a visitor without an account is sent to sign in and comes back.
ShowGuarded(t) ==
    /\ \E route \in Guarded :
        /\ Reading(t, route)
        /\ \/ /\ Resolve(t) = NULL
              /\ Redirect(t, "sign_in", route)
           \/ /\ Resolve(t) # NULL
              /\ Render(t, route, ReadCsrf(t), NULL)
    /\ UNCHANGED <<accounts, secured, rows, jar, tabs, proved, disturbed>>

\* SetUser and the sidebar: the form to sign out, or the link to sign in.  A failure to
\* resolve counts as nobody.
ShowBoard(t) ==
    /\ Reading(t, "board")
    /\ \/ /\ Resolve(t) # NULL
          /\ Render(t, "board", ReadCsrf(t), NULL)
       \/ Render(t, "board", NULL, "board")
    /\ UNCHANGED <<accounts, secured, rows, jar, tabs, proved, disturbed>>

ShowWelcome(t) ==
    /\ Reading(t, "welcome")
    /\ \/ /\ Resolve(t) # NULL
          /\ Redirect(t, "home", NULL)
       \/ Render(t, "welcome", NULL, NULL)
    /\ UNCHANGED <<accounts, secured, rows, jar, tabs, proved, disturbed>>

NewSignIn(t) ==
    /\ Reading(t, "sign_in")
    /\ Render(t, "sign_in", ReadCsrf(t), requests[t].to)
    /\ UNCHANGED <<accounts, secured, rows, jar, tabs, proved, disturbed>>

\* Either challenge makes sense only while a sign-in is pending.
NewChallenge(t, route) ==
    /\ Reading(t, route)
    /\ IF requests[t].cookies.pending = NULL
       THEN Redirect(t, "sign_in", requests[t].to)
       ELSE Render(t, route, ReadCsrf(t), requests[t].to)
    /\ UNCHANGED <<accounts, secured, rows, jar, tabs, proved, disturbed>>

NewSignInTwoFactor(t) == NewChallenge(t, "challenge")
NewSignInTwoFactorRecovery(t) == NewChallenge(t, "recovery")

-----------------------------------------------------------------------------
\* Handlers that write.

Writing(t, route) == Reading(t, route) /\ Verified(t)

\* 403: the handler and the middleware behind the check are not reached.
Forbid(t) ==
    /\ At(t, "sent")
    /\ requests[t].route \in Writes
    /\ ~Verified(t)
    /\ Reply(t, Error, NULL, NULL, NoCookies)
    /\ UNCHANGED <<accounts, secured, rows, jar, tabs, proved, shown, used, disturbed>>

\* A wrong password, an address nobody has, or a bot.
RefuseSignIn(t) == Writing(t, "create_sign_in") /\ RenderAgain(t, "sign_in")

\* A wrong code, or a setting that is no longer enabled.
RefuseCode(t) ==
    /\ Writing(t, "create_sign_in_two_factor")
    /\ requests[t].cookies.pending # NULL
    /\ RenderAgain(t, "challenge")

RefuseRecoveryCode(t) ==
    /\ Writing(t, "create_sign_in_two_factor_recovery")
    /\ requests[t].cookies.pending # NULL
    /\ RenderAgain(t, "recovery")

\* A wrong password, or a last administrator who may not leave.
RefuseWithdrawal(t) ==
    /\ Writing(t, "delete_account")
    /\ Resolve(t) # NULL
    /\ RenderAgain(t, "withdrawal")

Refuse(t) ==
    /\ RefuseSignIn(t) \/ RefuseCode(t) \/ RefuseRecoveryCode(t) \/ RefuseWithdrawal(t)
    /\ UNCHANGED <<accounts, secured, rows, jar, tabs, proved, disturbed>>

\* What a handler has verified so far, for the step that commits.
Check(t, u, due) ==
    requests' = [requests EXCEPT ![t].stage = "checked", ![t].user = u, ![t].due = due]

\* Mutant: the second factor is not asked for.
AsksForCodeNever(u) == FALSE

AsksForCode(u) == u \in secured

\* The password is right: the second factor is asked for, or the session can be opened.
\* FindByEmail knows nothing of a suspension.
CreateSignIn(t) ==
    /\ Writing(t, "create_sign_in")
    /\ \E u \in Users :
        /\ accounts[u] # "withdrawn"
        /\ proved' = proved \union {<<u, "password">>}
        /\ \/ /\ AsksForCode(u)
              /\ SeeOther(t, "challenge", requests[t].to, PendingCookie(u))
           \/ /\ ~AsksForCode(u)
              /\ Check(t, u, u \in secured)
              /\ UNCHANGED shown
    /\ UNCHANGED <<accounts, secured, rows, jar, tabs, used, disturbed>>

\* Mutant: the address is lost when the sign-in has to start again.
StartAgainAtHome(t) == SeeOther(t, "sign_in", NULL, NoCookies)

\* The cookie of the pending sign-in is gone.
StartAgain(t) == SeeOther(t, "sign_in", requests[t].to, NoCookies)

\* A code is checked against the setting of the account in the cookie.
TakeCode(t) ==
    LET u == requests[t].cookies.pending IN
    /\ \/ /\ u = NULL
          /\ StartAgain(t)
          /\ UNCHANGED proved
       \/ /\ u \in secured
          /\ proved' = proved \union {<<u, "code">>}
          /\ Check(t, u, TRUE)
          /\ UNCHANGED shown
    /\ UNCHANGED <<accounts, secured, rows, jar, tabs, used, disturbed>>

CreateSignInTwoFactor(t) == Writing(t, "create_sign_in_two_factor") /\ TakeCode(t)

CreateSignInTwoFactorRecovery(t) ==
    Writing(t, "create_sign_in_two_factor_recovery") /\ TakeCode(t)

\* AfterSignInPath.
AfterSignIn(to) == IF to = NULL THEN "home" ELSE to

\* The row is inserted for the account that was checked, whatever has become of it since.
CreateSession(t) ==
    LET token == used.tokens + 1 IN
    /\ At(t, "checked")
    /\ requests[t].route \in SignIns
    /\ token \in Tokens
    /\ rows' = [rows EXCEPT ![token] = [user |-> requests[t].user, due |-> requests[t].due]]
    /\ used' = [used EXCEPT !.tokens = token]
    /\ SeeOther(t, AfterSignIn(requests[t].to), NULL,
            IF requests[t].route = "create_sign_in" THEN SessionCookie(token)
            ELSE NoPending(SessionCookie(token)))
    /\ UNCHANGED <<accounts, secured, jar, tabs, proved, disturbed>>

NoSession == [NoCookies EXCEPT !.session = NULL]
SetFlash(sets) == [sets EXCEPT !.flash = used.flash + 1]

\* DeleteByToken; without a cookie there is nothing to delete.
RowsAfterSignOut(t) ==
    LET token == requests[t].cookies.session IN
    IF token = NULL THEN rows ELSE [rows EXCEPT ![token] = NULL]

DeleteSession(t) ==
    /\ Writing(t, "delete_session")
    /\ used.flash < MaxFlash
    /\ rows' = RowsAfterSignOut(t)
    /\ used' = [used EXCEPT !.flash = @ + 1]
    /\ SeeOther(t, "welcome", NULL, SetFlash(NoSession))
    /\ UNCHANGED <<accounts, secured, jar, tabs, proved, disturbed>>

\* The route is guarded, and cannot be returned to.
DeleteAccount(t) ==
    /\ Writing(t, "delete_account")
    /\ \/ /\ Resolve(t) = NULL
          /\ SeeOther(t, "sign_in", NULL, NoCookies)
       \/ /\ Resolve(t) # NULL
          /\ Check(t, Resolve(t), FALSE)
          /\ UNCHANGED shown
    /\ UNCHANGED <<accounts, secured, rows, jar, tabs, proved, used, disturbed>>

RowsWithout(u) == [k \in Tokens |-> IF rows[k] # NULL /\ rows[k].user = u THEN NULL ELSE rows[k]]

\* The account and every session of it go together.
CommitWithdrawal(t) ==
    LET u == requests[t].user IN
    /\ At(t, "checked")
    /\ requests[t].route = "delete_account"
    /\ used.flash < MaxFlash
    /\ accounts' = [accounts EXCEPT ![u] = "withdrawn"]
    /\ rows' = RowsWithout(u)
    /\ used' = [used EXCEPT !.flash = @ + 1]
    /\ SeeOther(t, "welcome", NULL, SetFlash(NoSession))
    /\ UNCHANGED <<secured, jar, tabs, proved, disturbed>>

\* No token can be generated: 500, before anything else has run.
FailToIssue(t) ==
    /\ At(t, "sent")
    /\ requests[t].route \in Reads
    /\ requests[t].cookies.csrf = NULL
    /\ Reply(t, Error, NULL, NULL, NoCookies)
    /\ UNCHANGED <<accounts, secured, rows, jar, tabs, proved, shown, used, disturbed>>

\* The database cannot be reached: 500, with the message taken out of its cookie.
Fail(t) ==
    /\ \/ At(t, "checked")
       \/ /\ At(t, "sent")
          /\ requests[t].route \in Guarded
       \/ /\ At(t, "sent")
          /\ requests[t].route \in Writes
          /\ Verified(t)
    /\ Answer(t, Error, NULL, NULL, NoCookies)
    /\ UNCHANGED <<accounts, secured, rows, jar, tabs, proved, shown, used, disturbed>>

-----------------------------------------------------------------------------
\* Other devices and the operator.

WithdrawElsewhere(u) ==
    /\ accounts[u] = "member"
    /\ accounts' = [accounts EXCEPT ![u] = "withdrawn"]
    /\ rows' = RowsWithout(u)
    /\ UNCHANGED <<secured, jar, tabs, requests, proved, shown, used, disturbed>>

Suspend(u) ==
    /\ accounts[u] = "member"
    /\ accounts' = [accounts EXCEPT ![u] = "suspended"]
    /\ UNCHANGED <<secured, rows, jar, tabs, requests, proved, shown, used, disturbed>>

\* The settings of another device enable the second factor.  A sign-in of an account that
\* has disabled it again is refused its codes.
Secure(u) ==
    /\ accounts[u] = "member"
    /\ u \notin secured
    /\ secured' = secured \union {u}
    /\ UNCHANGED <<accounts, rows, jar, tabs, requests, proved, shown, used, disturbed>>

Browse(t) ==
    \/ \E route \in Entries[t] : Visit(t, route)
    \/ Follow(t) \/ Submit(t) \/ Deliver(t)

Read(t) ==
    \/ ShowGuarded(t) \/ ShowBoard(t) \/ ShowWelcome(t) \/ NewSignIn(t)
    \/ NewSignInTwoFactor(t) \/ NewSignInTwoFactorRecovery(t)

Write(t) ==
    \/ Forbid(t) \/ Refuse(t) \/ CreateSignIn(t) \/ CreateSignInTwoFactor(t)
    \/ CreateSignInTwoFactorRecovery(t) \/ CreateSession(t) \/ DeleteSession(t)
    \/ DeleteAccount(t) \/ CommitWithdrawal(t) \/ Fail(t) \/ FailToIssue(t)

Next ==
    \/ \E t \in Tabs : Browse(t) \/ Read(t) \/ Write(t)
    \/ ExpirePending
    \/ \E u \in Users : WithdrawElsewhere(u) \/ Suspend(u) \/ Secure(u)

Spec == Init /\ [][Next]_vars

-----------------------------------------------------------------------------
\* A guarded page is rendered, or a guarded form goes through, for an account.
ActsFor(t, u) ==
    /\ At(t, "sent")
    /\ requests[t].route \in Guarded \union {"delete_account"}
    /\ \E k \in Tokens :
          k = requests[t].cookies.session /\ rows[k] # NULL /\ rows[k].user = u
    /\ \/ requests'[t].stage = "checked"
       \/ requests'[t].stage = "answered" /\ requests'[t].page \notin {NULL, Error}

\* Nobody acts for an account that had left when the request was sent: not even by a session
\* that a sign-in, checked before the account left, inserted after every session of the
\* account was deleted (create_session.go:44, GetUserBySessionToken).
LeaversActNoMore ==
    [][\A t \in Tabs, u \in Users : ActsFor(t, u) => u \notin requests[t].gone]_vars

\* Whatever tabs do to the cookies of one another, a session belongs to an account whose
\* password this browser has given, and whose code too if a second factor was enabled when
\* the password was checked (handler/sign_in, handler/sign_in_two_factor).
SessionsTakeEveryFactor ==
    \A k \in Tokens :
        rows[k] # NULL =>
            /\ <<rows[k].user, "password">> \in proved
            /\ rows[k].due => <<rows[k].user, "code">> \in proved

\* However often a sign-in is refused, changes between the challenges or starts again, it
\* ends at the page the visitor was turned away from, and at home when there is none; never
\* at the address of a form (middleware/auth.go, templates/path.go).
SignInReturnsToWhatWasWanted ==
    \A t \in Tabs :
        (At(t, "answered") /\ requests[t].route \in SignIns
             /\ requests[t].location \in Addresses)
            => requests[t].location = AfterSignIn(tabs[t].wanted)

\* As long as requests do not overlap, every form that is open in a tab or on its way is
\* accepted, whatever the other tabs have loaded since (middleware/csrf.go).  The day the
\* cookie lasts is not over.
OpenFormsAreAccepted ==
    ~disturbed => \A t \in Tabs :
        /\ tabs[t].shows.csrf \in {NULL, jar.csrf}
        /\ (At(t, "sent") /\ requests[t].route \in Writes) => Verified(t)

\* As long as requests do not overlap, a message is rendered exactly once, on the page the
\* browser is sent to (session/flash.go).
FlashIsShownOnce ==
    (~disturbed /\ InFlight = {}) => \A f \in 1..used.flash : shown[f] = 1
=============================================================================
