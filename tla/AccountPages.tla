---------------------------- MODULE AccountPages ----------------------------
(***************************************************************************)
(* The pages around an account: signing up by a code and a hand-over       *)
(* cookie, resetting a password by a mailed link, and the settings.        *)
(*                                                                         *)
(* One tab of one browser.  What other tabs, other devices, other people   *)
(* and time do are disturbances between its steps: each changes what a     *)
(* form was shown for.  A request is answered at once; the redirect it may *)
(* be answered with is a request of its own.  The rules behind the forms   *)
(* are those of Confirmations, PasswordReset and TwoFactor, here reduced   *)
(* to whether a form is accepted.                                          *)
(***************************************************************************)
EXTENDS Integers, Sequences, FiniteSets, AccountPromises

signUps == <<confirmations, jar, made>>
settings == <<pending, factor>>

Views == Forms \union {"nothing", "welcome", "home", "sign_in", "settings", "recovery_codes",
                       "sent", "error"}

\* Forms for an address.
Typing == {"sign_up", "reset", "email"}

NoChange == [key |-> 0, address |-> NONE, open |-> FALSE]
NoFactor == [key |-> 0, state |-> "none"]

SignUpRow == [address : Addresses, state : {"sent", "confirmed", "over"}]

TypeOK ==
    /\ accounts \subseteq Addresses
    /\ session \in accounts \union {NONE}
    /\ confirmations \in Seq(SignUpRow) /\ Len(confirmations) <= MaxBegun
    /\ jar \in 0..Len(confirmations) /\ made \subseteq 1..Len(confirmations)
    /\ pending \in [key : 0..MaxBegun, address : Addresses \union {NONE}, open : BOOLEAN]
    /\ pending.open => pending.address # NONE
    /\ factor \in [key : 0..MaxBegun, state : {"none", "prepared", "enabled"}]
    /\ resets \in [latest : 0..MaxBegun, live : BOOLEAN]
    /\ page \in [view : Views, key : 0..MaxBegun, changes : SUBSET Kinds]
    /\ request \in Sent \union {NONE}
    /\ request # NONE =>
        /\ request.op \in IF request.method = "GET" THEN Paths ELSE Forms
        /\ (request.method = "POST" /\ request.op \in Typing) => request.text \in Addresses
        /\ request.jar <= Len(confirmations)
    /\ disturbances \in 0..MaxDisturbances

\* What can change under a form or a link to it.
Relevant(target) ==
    CASE target \in {"code", "account"} -> {"code", "address"}
      [] target = "email_code" -> {"session", "change", "address"}
      [] target \in {"two_factor", "enroll", "disable"} -> {"session", "factor"}
      [] target \in {"home", "settings", "email", "recovery_codes"} -> {"session"}
      [] target = "password" -> {"link"}
      [] OTHER -> {}

Page(view, key, changes) ==
    [view |-> view, key |-> key, changes |-> changes \intersect Relevant(view)]

Blank == Page("nothing", 0, {})

Init ==
    /\ accounts \in {{}} \union {{a} : a \in Addresses}
    /\ session = NONE
    /\ confirmations = <<>> /\ jar = 0 /\ made = {}
    /\ pending = NoChange /\ factor = NoFactor
    /\ resets = [latest |-> 0, live |-> FALSE]
    /\ page = Blank /\ request = NONE
    /\ disturbances = 0

\* Another row with a code, a link, a change or a secret.
CanBegin == Len(confirmations) + resets.latest + pending.key + factor.key < MaxBegun

-----------------------------------------------------------------------------
\* The browser.

Get(path, key, offered, changes) ==
    [method |-> "GET", op |-> path, text |-> "", filling |-> "right", key |-> key, jar |-> jar',
     offered |-> offered, changes |-> changes \intersect Relevant(path)]

Send(r) ==
    /\ request = NONE
    /\ UNCHANGED <<accounts, session, signUps, settings, resets, disturbances>>
    /\ request' = r
    /\ page' = Blank

\* An address is typed, or a link in a mail is followed.
Open ==
    \E path \in Paths :
        \E key \in IF path = "password" THEN 0..resets.latest ELSE {0} :
            Send(Get(path, key, FALSE, {}))

WelcomeLinks == {"sign_up", "sign_in"}
SignInLinks == {"reset", "sign_up"}
SentLinks == {"sign_in"}
SettingsLinks == {"email", "two_factor"}
RecoveryCodesLinks == {"settings"}

\* The header is that of pages for whoever is signed in.
HeaderLinks(view) ==
    IF view \in {"settings", "email", "email_code", "enroll", "disable", "recovery_codes"}
    THEN {"home"} ELSE {}

\* The forms of a sign-up, and those of the settings, have no link of their own.
Links(view) ==
    HeaderLinks(view) \union
    CASE view = "welcome" -> WelcomeLinks
      [] view = "sign_in" -> SignInLinks
      [] view \in {"reset", "sent"} -> SentLinks
      [] view = "password" -> {"reset"}
      [] view = "settings" -> SettingsLinks
      [] view = "recovery_codes" -> RecoveryCodesLinks
      [] OTHER -> {}

FollowLink == \E path \in Links(page.view) : Send(Get(path, 0, TRUE, page.changes))

Typed(form) == IF form \in Typing THEN Addresses ELSE {"typed"}

\* A form is filled in for what it was shown for.
Submit ==
    /\ page.view \in Forms
    /\ \E text \in Typed(page.view), filling \in Fillings :
        Send([method |-> "POST", op |-> page.view, text |-> text, filling |-> filling,
              key |-> page.key, jar |-> jar, offered |-> TRUE, changes |-> page.changes])

-----------------------------------------------------------------------------
\* Disturbances.

Disturb(kinds) ==
    /\ disturbances < MaxDisturbances
    /\ disturbances' = disturbances + 1
    /\ page' = [page EXCEPT !.changes = @ \union (kinds \intersect Relevant(page.view))]
    /\ request' = IF request = NONE THEN NONE
                  ELSE [request EXCEPT !.changes = @ \union (kinds \intersect Relevant(request.op))]

\* Another tab signs out, or the account is left from another device.
LoseSession ==
    /\ session # NONE
    /\ session' = NONE /\ pending' = NoChange /\ factor' = NoFactor
    /\ accounts' \in {accounts, accounts \ {session}}
    /\ Disturb({"session"} \union IF accounts' = accounts THEN {} ELSE {"address"})
    /\ UNCHANGED <<signUps, resets>>

\* Another tab signs in.
GainSession ==
    /\ session = NONE
    /\ session' \in accounts
    /\ \E state \in {"none", "enabled"} : factor' = [key |-> 0, state |-> state]
    /\ Disturb({})
    /\ UNCHANGED <<accounts, signUps, pending, resets>>

\* Someone else gets an account, or leaves it.
TakeAddress ==
    /\ \E a \in Addresses \ {session} :
        accounts' = IF a \in accounts THEN accounts \ {a} ELSE accounts \union {a}
    /\ Disturb({"address"})
    /\ UNCHANGED <<session, signUps, settings, resets>>

Begun(address) == Append(confirmations, [address |-> address, state |-> "sent"])

\* Another tab of the browser begins a sign-up.
BeginElsewhere ==
    /\ CanBegin
    /\ \E a \in Addresses \ accounts : confirmations' = Begun(a)
    /\ jar' = Len(confirmations')
    /\ Disturb({"code"})
    /\ UNCHANGED <<accounts, session, made, settings, resets>>

\* Time or wrong codes end a confirmation, or another tab confirms it.
EndCode ==
    /\ \E i \in DOMAIN confirmations, state \in {"over", "confirmed"} :
        /\ confirmations[i].state = "sent"
        /\ confirmations' = [confirmations EXCEPT ![i].state = state]
    /\ Disturb({"code"})
    /\ UNCHANGED <<accounts, session, jar, made, settings, resets>>

\* Another tab has the account made.
FinishElsewhere ==
    /\ jar # 0 /\ confirmations[jar].state = "confirmed"
    /\ confirmations[jar].address \notin accounts
    /\ accounts' = accounts \union {confirmations[jar].address}
    /\ session' = confirmations[jar].address
    /\ made' = made \union {jar} /\ jar' = 0
    /\ pending' = NoChange /\ factor' = NoFactor
    /\ Disturb({"code", "address", "session"})
    /\ UNCHANGED <<confirmations, resets>>

\* Another tab begins a change of address, or time or wrong codes end it.
ChangeElsewhere ==
    /\ session # NONE
    /\ \/ /\ pending.open
          /\ pending' = [pending EXCEPT !.open = FALSE]
       \/ /\ CanBegin
          /\ \E a \in Addresses \ accounts :
                pending' = [key |-> pending.key + 1, address |-> a, open |-> TRUE]
    /\ Disturb({"change"})
    /\ UNCHANGED <<accounts, session, signUps, factor, resets>>

\* Another tab turns the second factor on or off.
SwitchElsewhere ==
    /\ session # NONE
    /\ factor' \in {[factor EXCEPT !.state = "enabled"], [factor EXCEPT !.state = "none"]}
    /\ factor' # factor
    /\ Disturb({"factor"})
    /\ UNCHANGED <<accounts, session, signUps, pending, resets>>

\* A link is used or expires, or another is asked for and the earlier ones are dead.
TurnLink ==
    /\ \/ resets.live /\ resets' = [resets EXCEPT !.live = FALSE]
       \/ CanBegin /\ resets' = [latest |-> resets.latest + 1, live |-> TRUE]
    /\ Disturb({"link"})
    /\ UNCHANGED <<accounts, session, signUps, settings>>

-----------------------------------------------------------------------------
\* Answers.

Is(method, op) == request # NONE /\ request.method = method /\ request.op = op

Show(view, key, changes) ==
    /\ request' = NONE
    /\ page' = Page(view, key, changes)
    /\ UNCHANGED disturbances

Redirect(path) ==
    /\ request' = Get(path, 0, TRUE, request.changes)
    /\ UNCHANGED <<page, disturbances>>

World == UNCHANGED <<accounts, session, signUps, settings, resets>>

Confirmable(i) == i # 0 /\ confirmations[i].state = "sent"
Confirmed(i) == i # 0 /\ confirmations[i].state = "confirmed"
Taken(i) == i # 0 /\ confirmations[i].address \in accounts
Usable(key) == key # 0 /\ key = resets.latest /\ resets.live
Pending(key) == pending.open /\ pending.key = key

\* What stands in the way of a form from the moment it is shown.
InTheWay(view, key) ==
    CASE view = "code" -> (IF Confirmable(key) THEN {} ELSE {"code"})
                            \union IF Taken(key) THEN {"address"} ELSE {}
      [] view = "account" -> (IF Confirmed(key) THEN {} ELSE {"code"})
                                \union IF Taken(key) THEN {"address"} ELSE {}
      [] view = "email_code" -> (IF Pending(key) THEN {} ELSE {"change"})
                                   \union IF pending.address \in accounts THEN {"address"} ELSE {}
      [] view = "password" -> IF Usable(key) THEN {} ELSE {"link"}
      [] OTHER -> {}

\* Whoever comes by a link or a redirect can rely on the form that is shown.
ShowForm(view, key) ==
    Show(view, key,
         request.changes \union IF request.offered THEN {} ELSE InTheWay(view, key))

\* A refused form comes back, and what it was filled in with may have been its last chance.
AgainAfter(key, ended) ==
    Show(request.op, key, request.changes \union ended \union InTheWay(request.op, request.key))

Again(key) == AgainAfter(key, {})

\* http.Error: one line of text.
Fail == Show("error", 0, {})

\* RequireAuth.
SignedOut ==
    /\ request # NONE /\ request.op \in Settings \union {"home", "enroll", "disable"}
    /\ session = NONE
    /\ World /\ Redirect("sign_in")

OpenToAll == {"sign_in", "sign_up", "reset"}

ShowOpenPage ==
    /\ request # NONE /\ request.method = "GET" /\ request.op \in OpenToAll
    /\ ShowForm(request.op, 0) /\ World

ShowRoot ==
    /\ Is("GET", "root")
    /\ World
    /\ IF session # NONE THEN Redirect("home") ELSE Show("welcome", 0, {})

ShowSettings ==
    /\ request # NONE /\ request.method = "GET" /\ request.op \in {"home", "settings", "email"}
    /\ session # NONE
    /\ ShowForm(request.op, 0) /\ World

ShowEmailCode ==
    /\ Is("GET", "email_code") /\ session # NONE
    /\ ShowForm("email_code", pending.key) /\ World

\* New of the code and of the account.
ShowHandOver ==
    /\ Is("GET", "code") \/ Is("GET", "account")
    /\ World
    /\ IF request.jar = 0 THEN Redirect("sign_up") ELSE ShowForm(request.op, request.jar)

ShowPassword ==
    /\ Is("GET", "password")
    /\ ShowForm("password", request.key) /\ World

-----------------------------------------------------------------------------
\* Signing up.

\* What the validator of a form has against it, besides how it is filled in.
Told(refusing) == request.filling = "wrong" \/ refusing

SignUpRefused == Told(request.text \in accounts)
SignUpAgain == Again(0)

CreateSignUp ==
    /\ Is("POST", "sign_up")
    /\ \/ (SignUpRefused \/ request.filling = "unlucky") /\ SignUpAgain /\ World
       \/ request.filling = "unlucky" /\ Fail /\ World
       \/ \* The row is there, its mail is not.
          /\ request.filling = "unlucky" /\ request.text \notin accounts
          /\ CanBegin
          /\ confirmations' = Begun(request.text)
          /\ SignUpAgain
          /\ UNCHANGED <<accounts, session, jar, made, settings, resets>>
       \/ /\ request.filling = "right" /\ request.text \notin accounts
          /\ CanBegin
          /\ confirmations' = Begun(request.text)
          /\ jar' = Len(confirmations')
          /\ Redirect("code")
          /\ UNCHANGED <<accounts, session, made, settings, resets>>

\* Mutant: the cookie is given up with the code.
KeptCookieGivenUp == 0

\* The code hands over to the account by the same cookie.
KeptCookie == jar

CodeRefused == Told(~Confirmable(request.jar) \/ request.key # request.jar)
CodeAgain(ended) == AgainAfter(request.jar, ended)

VerifyCode ==
    /\ Is("POST", "code")
    /\ \/ request.jar = 0 /\ World /\ Redirect("sign_up")
       \/ request.jar # 0 /\ CodeRefused /\ CodeAgain({}) /\ World
       \/ \* The last of the wrong codes that are let pass.
          /\ request.jar # 0 /\ request.filling = "wrong" /\ Confirmable(request.jar)
          /\ confirmations' = [confirmations EXCEPT ![request.jar].state = "over"]
          /\ CodeAgain({"code"})
          /\ UNCHANGED <<accounts, session, jar, made, settings, resets>>
       \/ request.jar # 0 /\ request.filling = "unlucky" /\ Fail /\ World
       \/ /\ request.jar # 0 /\ request.filling = "right"
          /\ Confirmable(request.jar) /\ request.key = request.jar
          /\ confirmations' = [confirmations EXCEPT ![request.jar].state = "confirmed"]
          /\ jar' = KeptCookie
          /\ Redirect("account")
          /\ UNCHANGED <<accounts, session, made, settings, resets>>

MakeAccount ==
    /\ accounts' = accounts \union {confirmations[request.jar].address}
    /\ made' = made \union {request.jar}
    /\ UNCHANGED <<confirmations, resets>>

\* Mutant: the cookie stays when there is an account and no session.
CookieAfterFailureKept == jar

CookieAfterFailure == 0

AccountAgain == Again(request.jar)

CreateAccount ==
    /\ Is("POST", "account")
    /\ \/ request.jar = 0 /\ World /\ Redirect("sign_up")
       \/ \* Nothing is confirmed: the sign-up begins again.
          /\ request.jar # 0 /\ ~Confirmed(request.jar)
          /\ jar' = 0
          /\ Redirect("sign_up")
          /\ UNCHANGED <<accounts, session, confirmations, made, settings, resets>>
       \/ request.jar # 0 /\ request.filling = "unlucky" /\ Fail /\ World
       \/ Confirmed(request.jar) /\ Told(FALSE) /\ AccountAgain /\ World
       \/ Confirmed(request.jar) /\ request.filling = "right" /\ Taken(request.jar) /\ Fail /\ World
       \/ \* The account is there, its session is not.
          /\ Confirmed(request.jar) /\ request.filling = "unlucky" /\ ~Taken(request.jar)
          /\ MakeAccount
          /\ jar' = CookieAfterFailure
          /\ Fail
          /\ UNCHANGED <<session, settings>>
       \/ /\ Confirmed(request.jar) /\ request.filling = "right" /\ ~Taken(request.jar)
          /\ MakeAccount
          /\ session' = confirmations[request.jar].address
          /\ pending' = NoChange /\ factor' = NoFactor
          /\ jar' = 0
          /\ Redirect("root")

-----------------------------------------------------------------------------
\* Resetting a password.

ResetAgain == Again(0)

CreateReset ==
    /\ Is("POST", "reset")
    /\ \/ request.filling \in {"wrong", "unlucky"} /\ ResetAgain /\ World
       \/ \* Nobody learns whether the address has an account, or whether its mail was queued.
          /\ request.filling \in {"right", "unlucky"}
          /\ Show("sent", 0, {})
          /\ resets' = IF request.text \in accounts /\ CanBegin
                     THEN [latest |-> resets.latest + 1, live |-> TRUE] ELSE resets
          /\ UNCHANGED <<accounts, session, signUps, settings>>

\* Mutant: the token is taken from the form whatever was wrong.
TokenTaken == 0

\* Only a refusal of the token itself takes it from the form.
TokenLeft == IF request.key = 0 \/ request.filling # "wrong" THEN 0 ELSE request.key

PasswordRefused == Told(~Usable(request.key))
PasswordAgain == Again(TokenLeft)

UpdatePassword ==
    /\ Is("POST", "password")
    /\ \/ PasswordRefused /\ PasswordAgain /\ World
       \/ request.filling = "unlucky" /\ Fail /\ World
       \/ /\ request.filling = "right" /\ Usable(request.key)
          /\ resets' = [resets EXCEPT !.live = FALSE]
          /\ UNCHANGED <<accounts, session, signUps, settings>>
          /\ Redirect("sign_in")

-----------------------------------------------------------------------------
\* Settings.

Submitted(form) == Is("POST", form) /\ session # NONE

EmailRefused == Told(request.text \in accounts)
EmailAgain == Again(0)

UpdateEmail ==
    /\ Submitted("email")
    /\ \/ (EmailRefused \/ request.filling = "unlucky") /\ EmailAgain /\ World
       \/ request.filling = "unlucky" /\ Fail /\ World
       \/ /\ request.filling \in {"right", "unlucky"} /\ request.text \notin accounts
          /\ CanBegin
          /\ pending' = [key |-> pending.key + 1, address |-> request.text, open |-> TRUE]
          /\ UNCHANGED <<accounts, session, signUps, factor, resets>>
          /\ IF request.filling = "right" THEN Redirect("email_code") ELSE EmailAgain

\* A new address that has been taken meanwhile is told as a refusal, and nothing is stamped.
EmailCodeRefused == Told(~Pending(request.key) \/ pending.address \in accounts)
EmailCodeAgain(ended) == AgainAfter(pending.key, ended)

VerifyEmailChange ==
    /\ Submitted("email_code")
    /\ \/ EmailCodeRefused /\ EmailCodeAgain({}) /\ World
       \/ /\ request.filling = "wrong" /\ pending.open
          /\ pending' = [pending EXCEPT !.open = FALSE]
          /\ EmailCodeAgain({"change"})
          /\ UNCHANGED <<accounts, session, signUps, factor, resets>>
       \/ request.filling = "unlucky" /\ Fail /\ World
       \/ /\ request.filling = "right" /\ Pending(request.key) /\ pending.address \notin accounts
          /\ accounts' = (accounts \ {session}) \union {pending.address}
          /\ session' = pending.address
          /\ pending' = [pending EXCEPT !.open = FALSE]
          /\ UNCHANGED <<signUps, factor, resets>>
          /\ Redirect("settings")

\* PrepareTwoFactorAuth.
Prepared == IF factor.state # "none" THEN factor
            ELSE [key |-> factor.key + 1, state |-> "prepared"]

\* Mutant: the form for enrolling whatever is set.
SettingFormEnrolls == "enroll"

SettingForm == IF factor.state = "enabled" THEN "disable" ELSE "enroll"

\* The secret to be scanned, and the field for a code of it.
EnrollForm == Show("enroll", Prepared.key, {})

\* A password or a code.
DisableForm == Show("disable", Prepared.key, {})

ShowSetting ==
    /\ factor.state # "none" \/ CanBegin
    /\ factor' = Prepared
    /\ IF SettingForm = "enroll" THEN EnrollForm ELSE DisableForm
    /\ UNCHANGED <<accounts, session, signUps, pending, resets>>

ShowTwoFactor == Is("GET", "two_factor") /\ session # NONE /\ ShowSetting

EnrollRefused == Told(factor # [key |-> request.key, state |-> "prepared"])
RecoveryCodes == Show("recovery_codes", 0, {})

EnableTwoFactor ==
    /\ Submitted("enroll")
    /\ \/ EnrollRefused /\ ShowSetting
       \/ request.filling = "unlucky" /\ Fail /\ World
       \/ /\ request.filling = "right" /\ factor = [key |-> request.key, state |-> "prepared"]
          /\ factor' = [factor EXCEPT !.state = "enabled"]
          /\ RecoveryCodes
          /\ UNCHANGED <<accounts, session, signUps, pending, resets>>

\* By the password also when it is off already; by a code of the app only when it is on.
DisableRefused == Told(factor.state # "enabled")

DisableTwoFactor ==
    /\ Submitted("disable")
    /\ \/ DisableRefused /\ Again(request.key) /\ World
       \/ request.filling = "unlucky" /\ Fail /\ World
       \/ /\ request.filling = "right"
          /\ factor' = [factor EXCEPT !.state = "none"]
          /\ UNCHANGED <<accounts, session, signUps, pending, resets>>
          /\ Redirect("settings")

Browser == Open \/ FollowLink \/ Submit

Disturbance ==
    \/ LoseSession \/ GainSession \/ TakeAddress \/ BeginElsewhere \/ EndCode \/ FinishElsewhere
    \/ ChangeElsewhere \/ SwitchElsewhere \/ TurnLink

Pages ==
    \/ SignedOut \/ ShowOpenPage \/ ShowRoot \/ ShowSettings \/ ShowEmailCode \/ ShowHandOver
    \/ ShowPassword \/ ShowTwoFactor

Submissions ==
    \/ CreateSignUp \/ VerifyCode \/ CreateAccount
    \/ CreateReset \/ UpdatePassword
    \/ UpdateEmail \/ VerifyEmailChange \/ EnableTwoFactor \/ DisableTwoFactor

Next == Browser \/ Disturbance \/ Pages \/ Submissions

Spec == Init /\ [][Next]_site
=============================================================================
